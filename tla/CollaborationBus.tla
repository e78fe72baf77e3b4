------------------------- MODULE CollaborationBus -------------------------
(***************************************************************************)
(* The collaboration bus (phase 4): durable handoffs between agents.  A    *)
(* task waits for the tasks it depends on, is dispatched to a runtime,     *)
(* mirrors the row of its dispatch, is followed up and escalated, and is   *)
(* reviewed.  Every replica runs collaboration_tick without a lock, and    *)
(* operators command tasks at any time.                                    *)
(*                                                                         *)
(* A tick loads all open tasks once and works on those copies ("held") to  *)
(* its end, across the awaits of the dispatches it sends; a commit writes  *)
(* only the attributes that the session changed: Store.  What lies between *)
(* two awaits is one action per task; tasks have the routing mode FIXED,   *)
(* for which the scheduler's wrapper of dispatch_task changes nothing.     *)
(***************************************************************************)
EXTENDS Integers, DispatchReports

CONSTANTS
    Tasks,          \* the handoffs of one mission
    DependsOn,      \* the tasks each task depends on
    HumanReview,    \* the tasks with review_policy HUMAN; the others are AUTO
    HasDeadline,    \* the tasks with a deadline_at
    Configured,     \* the tasks whose target runtime exists and has a base_url
    Occurring,      \* what the rows of dispatches come to say of their runs
    Workers,        \* the replicas that run collaboration_tick
    Operators,      \* the operator requests that may be in flight together
    MaxFollowUps,   \* BEEZA_COLLAB_MAX_FOLLOW_UPS
    MaxDispatches,  \* bound: dispatches per task
    MaxOps,         \* bound: operator commands on existing tasks
    MaxCrashes      \* bound: crashes of replicas

ASSUME ConstantsAssumption ==
    /\ Tasks # {}
    /\ DependsOn \in [Tasks -> SUBSET Tasks]
    /\ HumanReview \subseteq Tasks
    /\ HasDeadline \subseteq Tasks
    /\ Configured \subseteq Tasks
    /\ Occurring \subseteq Reports
    /\ MaxFollowUps \in Nat \ {0}
    /\ MaxDispatches \in Nat \ {0}
    /\ MaxOps \in Nat
    /\ MaxCrashes \in Nat

VARIABLES
    task,      \* collaboration_tasks
    disp,      \* runtime_dispatches.status of each task's dispatches, as it is read;
               \* "REFUSED" is FAILED without a remote_id: no worker looks at it again
    tick,      \* the collaboration_tick of each replica and its session
    request,   \* the operator requests that wait for a runtime, and their session
    done,      \* history: the tasks that have been COMPLETED at some time
    finished,  \* history: the tasks of which a dispatch has been COMPLETED at some time
    approved,  \* history: the tasks whose latest command was a completion or an acceptance
    ops, crashes

vars == <<task, disp, tick, request, done, finished, approved, ops, crashes>>

TerminalTaskStatuses == {"COMPLETED", "FAILED", "CANCELLED"}
WatchedStatuses == {"DISPATCHING", "RUNNING", "WAITING_APPROVAL"}
TaskStatuses == {"ABSENT", "WAITING_DEPENDENCY", "QUEUED", "REVIEW", "REVISION", "BLOCKED",
                 "ESCALATED"} \cup WatchedStatuses \cup TerminalTaskStatuses
DispatchStatuses == Reports \cup {"NONE", "DISPATCHING", "REFUSED"}
Keys == 0..MaxDispatches      \* dispatch_key; 0 is None

TaskRows == [status : TaskStatuses, key : Keys, followUps : 0..MaxFollowUps + 1,
             next : {"none", "armed", "due"},   \* next_follow_up_at: null, ahead, past
             late : BOOLEAN,                    \* deadline_at has passed
             auto : BOOLEAN]                    \* auto_dispatch

NoTask == [status |-> "ABSENT", key |-> 0, followUps |-> 0, next |-> "none",
           late |-> FALSE, auto |-> TRUE]
AnyTask == CHOOSE t \in Tasks : TRUE
NoTick == [pc |-> "idle", at |-> AnyTask, listed |-> {}, todo |-> {}, held |-> [t \in Tasks |-> NoTask]]
NoRequest == [pc |-> "idle", at |-> AnyTask, held |-> NoTask]

Init ==
    /\ task = [t \in Tasks |-> NoTask]
    /\ disp = [t \in Tasks |-> [k \in 1..MaxDispatches |-> "NONE"]]
    /\ tick = [w \in Workers |-> NoTick]
    /\ request = [o \in Operators |-> NoRequest]
    /\ done = {}
    /\ finished = {}
    /\ approved = {}
    /\ ops = 0
    /\ crashes = 0

--------------------------------------------------------------------------
(* A commit: the attributes of the held copy that the session changed; it   *)
(* never changes the deadline or auto_dispatch.                             *)
Flush(stored, loaded, assigned) == IF assigned = loaded THEN stored ELSE assigned

Store(stored, loaded, assigned) ==
    [status    |-> Flush(stored.status, loaded.status, assigned.status),
     key       |-> Flush(stored.key, loaded.key, assigned.key),
     followUps |-> Flush(stored.followUps, loaded.followUps, assigned.followUps),
     next      |-> Flush(stored.next, loaded.next, assigned.next),
     late      |-> stored.late,
     auto      |-> stored.auto]

(* Mutant: a tick lists the terminal tasks too. *)
OpenMutant(t) == task[t].status # "ABSENT"

(* The tasks that a tick lists.                                             *)
Open(t) == task[t].status \notin TerminalTaskStatuses \cup {"ABSENT"}

Completed(t) == IF t \in HumanReview THEN "REVIEW" ELSE "COMPLETED"

(* Mutant: a completion is not held for review, other ends are ignored.     *)
MirrorDispatchStateMutantNoReview(t, h) ==
    IF h.key # 0 /\ disp[t][h.key] = "COMPLETED"
    THEN [h EXCEPT !.status = "COMPLETED", !.next = "none"]
    ELSE h

(* The held copy after it mirrored its dispatch.                            *)
MirrorDispatchState(t, h) ==
    LET remote == IF h.key = 0 THEN "NONE" ELSE disp[t][h.key] IN
    CASE remote = "RUNNING" /\ h.status # "REVISION" -> [h EXCEPT !.status = "RUNNING"]
      [] remote = "WAITING_APPROVAL" -> [h EXCEPT !.status = remote]
      [] remote = "COMPLETED" -> [h EXCEPT !.status = Completed(t), !.next = "none"]
      [] remote = "CANCELLED" -> [h EXCEPT !.status = remote, !.next = "none"]
      [] remote \in {"FAILED", "REFUSED"} -> [h EXCEPT !.status = "FAILED", !.next = "none"]
      [] OTHER -> h

(* The held copy after the watchdog looked at it.  The counter is capped    *)
(* one above MaxFollowUps: only that it exceeds the limit matters.          *)
FollowUpTask(h) ==
    IF h.status \notin WatchedStatuses THEN h
    ELSE IF h.late THEN [h EXCEPT !.status = "ESCALATED", !.next = "none"]
    ELSE IF h.next # "due" THEN h
    ELSE IF h.followUps < MaxFollowUps THEN [h EXCEPT !.followUps = @ + 1, !.next = "armed"]
    ELSE [h EXCEPT !.followUps = MaxFollowUps + 1, !.status = "ESCALATED", !.next = "none"]

(* Mutant: a dependency that has ended in any way will do.                  *)
DependenciesReadyMutant(t, status) == \A d \in DependsOn[t] : status[d] \in TerminalTaskStatuses

(* dependencies_ready, with the statuses the session sees.                  *)
DependenciesReady(t, status) == \A d \in DependsOn[t] : status[d] = "COMPLETED"

FreshStatus == [t \in Tasks |-> task[t].status]

(* A tick's session returns its own copy of every task it listed.           *)
SeenStatus(w) ==
    [t \in Tasks |-> IF t \in tick[w].listed THEN tick[w].held[t].status ELSE task[t].status]

(* The dispatch keys that are still unused.                                 *)
FreshKeys(t) == {k \in 1..MaxDispatches : disp[t][k] = "NONE"}

NewKey(t) == CHOOSE k \in FreshKeys(t) : TRUE

(* dispatch_task reaches the network for this copy of the task.             *)
Dispatchable(t, h, status) ==
    /\ h.status \in {"QUEUED", "REVISION"}
    /\ DependenciesReady(t, status)
    /\ t \in Configured
    /\ FreshKeys(t) # {}

(* Mutants: no follow-up is scheduled; the task is not marked before the    *)
(* await.                                                                   *)
DispatchingMutant(t, h) == [h EXCEPT !.status = "DISPATCHING", !.key = NewKey(t)]
DispatchingMutantUnmarked(t, h) == [h EXCEPT !.key = NewKey(t), !.next = "armed"]

(* The first half of dispatch_task, up to its commit.                       *)
Dispatching(t, h) ==
    [h EXCEPT !.status = "DISPATCHING", !.key = NewKey(t), !.next = "armed"]

(* dispatch_task where it returns before the network.                       *)
Undispatched(t, h, status) ==
    IF h.status \notin {"QUEUED", "REVISION"} THEN h
    ELSE IF ~DependenciesReady(t, status) THEN [h EXCEPT !.status = "WAITING_DEPENDENCY"]
    ELSE IF t \notin Configured THEN [h EXCEPT !.status = "BLOCKED"]
    ELSE h     \* only where MaxDispatches is reached

(* The second half of dispatch_task: what the reply makes of the copy.      *)
Dispatched(t, h, outcome) ==
    [h EXCEPT !.status = CASE outcome = "COMPLETED" -> Completed(t)
                           [] outcome = "WAITING_APPROVAL" -> outcome
                           [] outcome = "REFUSED" -> "BLOCKED"
                           [] OTHER -> "RUNNING"]

(* Every change of the stored tasks also records who has been completed.    *)
Commit(rows) ==
    /\ task' = rows
    /\ done' = done \cup {t \in Tasks : rows[t].status = "COMPLETED"}

(* The row of a dispatch gets a status.                                     *)
StoreDispatch(t, k, status) ==
    /\ disp' = [disp EXCEPT ![t][k] = status]
    /\ finished' = IF status = "COMPLETED" THEN finished \cup {t} ELSE finished

--------------------------------------------------------------------------
(* collaboration_tick: the open tasks are loaded.                           *)
StartTick(w) ==
    /\ tick[w].pc = "idle"
    /\ \E t \in Tasks : Open(t)
    /\ tick' = [tick EXCEPT ![w] =
                   [pc |-> "looping", at |-> AnyTask,
                    listed |-> {t \in Tasks : Open(t)},
                    todo |-> {t \in Tasks : Open(t)},
                    held |-> [t \in Tasks |-> IF Open(t) THEN task[t] ELSE NoTask]]]
    /\ UNCHANGED <<task, disp, request, done, finished, approved, ops, crashes>>

(* Mutant: waiting tasks are not released.                                  *)
MirroredMutant(w, t) == MirrorDispatchState(t, tick[w].held[t])

(* The copy of a task after the tick mirrored and, perhaps, released it.    *)
Mirrored(w, t) ==
    LET m == MirrorDispatchState(t, tick[w].held[t])
    IN IF m.status = "WAITING_DEPENDENCY" /\ DependenciesReady(t, SeenStatus(w))
       THEN [m EXCEPT !.status = "QUEUED"]
       ELSE m

(* The session of a tick that is done with task t, holding copy a of it;    *)
(* after the last task the tick ends.                                       *)
TickAfter(w, t, a) ==
    IF tick[w].todo \subseteq {t} THEN NoTick
    ELSE [tick[w] EXCEPT !.pc = "looping", !.todo = @ \ {t}, !.held = [@ EXCEPT ![t] = a]]

(* The tick works on a task that it does not send to a runtime.             *)
TickTask(w, t) ==
    LET m == Mirrored(w, t) IN
    /\ tick[w].pc = "looping"
    /\ t \in tick[w].todo
    /\ ~(m.auto /\ Dispatchable(t, m, SeenStatus(w)))
    /\ \E a \in {FollowUpTask(IF m.auto THEN Undispatched(t, m, SeenStatus(w)) ELSE m)} :
          /\ Commit([task EXCEPT ![t] = Store(@, tick[w].held[t], a)])
          /\ tick' = [tick EXCEPT ![w] = TickAfter(w, t, a)]
    /\ UNCHANGED <<disp, finished, request, approved, ops, crashes>>

(* The tick commits a new dispatch and awaits the runtime.  The new time of *)
(* the follow-up never equals the loaded one and is always written.         *)
TickDispatch(w, t) ==
    LET m == Mirrored(w, t)
        a == Dispatching(t, m)
    IN
    /\ tick[w].pc = "looping"
    /\ t \in tick[w].todo
    /\ m.auto
    /\ Dispatchable(t, m, SeenStatus(w))
    /\ Commit([task EXCEPT ![t] =
                  [Store(@, tick[w].held[t], a) EXCEPT !.next = a.next]])
    /\ StoreDispatch(t, a.key, "DISPATCHING")
    /\ tick' = [tick EXCEPT ![w] = [tick[w] EXCEPT !.pc = "sending", !.at = t,
                                                   !.held = [tick[w].held EXCEPT ![t] = a]]]
    /\ UNCHANGED <<request, approved, ops, crashes>>

(* The reply: the copy held since before the await is completed, followed   *)
(* up and committed, without another look at the stored row.                *)
TickReply(w, outcome) ==
    LET t == tick[w].at
        h == tick[w].held[t]
        a == FollowUpTask(Dispatched(t, h, outcome))
    IN
    /\ tick[w].pc = "sending"
    /\ Commit([task EXCEPT ![t] = Store(@, h, a)])
    /\ StoreDispatch(t, h.key, outcome)
    /\ tick' = [tick EXCEPT ![w] = TickAfter(w, t, a)]
    /\ UNCHANGED <<request, approved, ops, crashes>>

--------------------------------------------------------------------------
(* The first commit of a request.  It goes on to dispatch_task, with the    *)
(* row it refreshed, or it is finished.                                     *)
StoreRow(o, t, h, dispatches) ==
    /\ request[o].pc = "idle"
    /\ Commit([task EXCEPT ![t] = h])
    /\ request' = IF dispatches
                  THEN [request EXCEPT ![o] = [pc |-> "stored", at |-> t, held |-> h]]
                  ELSE request

(* POST /api/missions/{key}/handoffs: dependencies must exist already.      *)
CreateHandoff(o, t, auto) ==
    LET h == [NoTask EXCEPT !.auto = auto,
                 !.status = IF DependsOn[t] = {} THEN "QUEUED" ELSE "WAITING_DEPENDENCY"]
    IN
    /\ task[t].status = "ABSENT"
    /\ \A d \in DependsOn[t] : task[d].status # "ABSENT"
    /\ StoreRow(o, t, h, auto /\ h.status = "QUEUED")
    /\ UNCHANGED <<disp, finished, tick, approved, ops, crashes>>

Actions == {"accept", "block", "resume", "complete", "cancel", "retry"}
Decisions == {"accept", "revise", "reject"}

(* The row that POST .../actions makes of a task, whatever its status.      *)
Commanded(h, action) ==
    CASE action = "accept" -> [h EXCEPT !.status = "QUEUED", !.auto = TRUE, !.next = "armed"]
      [] action = "block" -> [h EXCEPT !.status = "BLOCKED", !.next = "none"]
      [] action = "resume" -> [h EXCEPT !.status = "QUEUED", !.next = "none"]
      [] action = "complete" -> [h EXCEPT !.status = "COMPLETED", !.next = "none"]
      [] action = "cancel" -> [h EXCEPT !.status = "CANCELLED", !.next = "none"]
      [] action = "retry" -> [h EXCEPT !.status = "QUEUED", !.key = 0, !.followUps = 0,
                                       !.next = "none"]

(* The row that POST .../review makes of a task in REVIEW or COMPLETED.     *)
Reviewed(h, decision) ==
    CASE decision = "accept" -> [h EXCEPT !.status = "COMPLETED"]
      [] decision = "revise" -> [h EXCEPT !.status = "REVISION", !.key = 0, !.followUps = 0,
                                          !.next = "none"]
      [] decision = "reject" -> [h EXCEPT !.status = "FAILED", !.next = "none"]

Operate(o, t, h) ==
    /\ ops < MaxOps
    /\ ops' = ops + 1
    /\ StoreRow(o, t, h, h.auto /\ h.status \in {"QUEUED", "REVISION"})
    /\ approved' = IF h.status = "COMPLETED" THEN approved \cup {t} ELSE approved \ {t}
    /\ UNCHANGED <<disp, finished, tick, crashes>>

TaskAction(o, t, action) ==
    /\ task[t].status # "ABSENT"
    /\ Operate(o, t, Commanded(task[t], action))

ReviewTask(o, t, decision) ==
    /\ task[t].status \in {"REVIEW", "COMPLETED"}
    /\ Operate(o, t, Reviewed(task[t], decision))

(* The request calls dispatch_task with its copy of the row.  Where that    *)
(* returns before the network its changes are rolled back with the session. *)
RequestDispatch(o) ==
    LET t == request[o].at
        h == request[o].held
        a == Dispatching(t, h)
    IN
    /\ request[o].pc = "stored"
    /\ IF Dispatchable(t, h, FreshStatus)
       THEN /\ Commit([task EXCEPT ![t] = [Store(@, h, a) EXCEPT !.next = a.next]])
            /\ StoreDispatch(t, a.key, "DISPATCHING")
            /\ request' = [request EXCEPT ![o] = [@ EXCEPT !.pc = "sending", !.held = a]]
       ELSE /\ request' = [request EXCEPT ![o] = NoRequest]
            /\ UNCHANGED <<task, disp, done, finished>>
    /\ UNCHANGED <<tick, approved, ops, crashes>>

(* The reply to a request: as in TickReply, the stored row is not read.     *)
RequestReply(o, outcome) ==
    LET t == request[o].at
        h == request[o].held
        a == Dispatched(t, h, outcome)
    IN
    /\ request[o].pc = "sending"
    /\ Commit([task EXCEPT ![t] = Store(@, h, a)])
    /\ StoreDispatch(t, h.key, outcome)
    /\ request' = [request EXCEPT ![o] = NoRequest]
    /\ UNCHANGED <<tick, approved, ops, crashes>>

--------------------------------------------------------------------------
(* The event worker, a stop or an approval writes the row of a dispatch     *)
(* that a runtime took over (module RuntimeDispatch); a late answer may     *)
(* even reopen one that has ended.                                          *)
DispatchMoves(t, k) ==
    /\ disp[t][k] \in Reports
    /\ \E report \in (Occurring \cap MayFollow(disp[t][k])) \ {disp[t][k]} : StoreDispatch(t, k, report)
    /\ UNCHANGED <<task, tick, request, done, approved, ops, crashes>>

(* Time passes: a follow-up falls due, a deadline is missed.                *)
FollowUpFallsDue(t) ==
    /\ task[t].next = "armed"
    /\ task' = [task EXCEPT ![t].next = "due"]
    /\ UNCHANGED <<disp, tick, request, done, finished, approved, ops, crashes>>

DeadlinePasses(t) ==
    /\ t \in HasDeadline
    /\ Open(t)
    /\ ~task[t].late
    /\ task' = [task EXCEPT ![t].late = TRUE]
    /\ UNCHANGED <<disp, tick, request, done, finished, approved, ops, crashes>>

(* A replica dies in its tick; the process that serves a request dies.      *)
CrashWorker(w) ==
    /\ crashes < MaxCrashes
    /\ tick[w].pc # "idle"
    /\ tick' = [tick EXCEPT ![w] = NoTick]
    /\ crashes' = crashes + 1
    /\ UNCHANGED <<task, disp, request, done, finished, approved, ops>>

CrashRequest(o) ==
    /\ crashes < MaxCrashes
    /\ request[o].pc # "idle"
    /\ request' = [request EXCEPT ![o] = NoRequest]
    /\ crashes' = crashes + 1
    /\ UNCHANGED <<task, disp, tick, done, finished, approved, ops>>

--------------------------------------------------------------------------
Outcomes == Occurring \cup {"REFUSED"}

Next ==
    \/ \E w \in Workers : StartTick(w) \/ CrashWorker(w)
    \/ \E w \in Workers, t \in Tasks : TickTask(w, t) \/ TickDispatch(w, t)
    \/ \E w \in Workers, outcome \in Outcomes : TickReply(w, outcome)
    \/ \E o \in Operators, t \in Tasks :
          \/ \E auto \in BOOLEAN : CreateHandoff(o, t, auto)
          \/ \E action \in Actions : TaskAction(o, t, action)
          \/ \E decision \in Decisions : ReviewTask(o, t, decision)
    \/ \E o \in Operators :
          \/ \E outcome \in Outcomes : RequestReply(o, outcome)
          \/ RequestDispatch(o) \/ CrashRequest(o)
    \/ \E t \in Tasks : FollowUpFallsDue(t) \/ DeadlinePasses(t)
    \/ \E t \in Tasks, k \in 1..MaxDispatches : DispatchMoves(t, k)

Spec == Init /\ [][Next]_vars

(***************************************************************************)
(* Fairness: the worker loop of every replica keeps ticking and a tick     *)
(* works on each task it listed; adapters have timeouts, so a request to a *)
(* runtime is answered or refused; follow-ups fall due.  Neither operators *)
(* nor runs owe anything.                                                  *)
(***************************************************************************)
Fairness ==
    /\ \A w \in Workers :
          /\ WF_vars(StartTick(w))
          /\ \A t \in Tasks : WF_vars(TickTask(w, t) \/ TickDispatch(w, t))
          /\ WF_vars(\E outcome \in Outcomes : TickReply(w, outcome))
    /\ \A o \in Operators :
          /\ WF_vars(RequestDispatch(o))
          /\ WF_vars(\E outcome \in Outcomes : RequestReply(o, outcome))
    /\ \A t \in Tasks : WF_vars(FollowUpFallsDue(t))

FairSpec == Spec /\ Fairness

--------------------------------------------------------------------------
(* Every variable keeps its type.                                           *)
TypeOK ==
    /\ task \in [Tasks -> TaskRows]
    /\ disp \in [Tasks -> [1..MaxDispatches -> DispatchStatuses]]
    /\ tick \in [Workers -> [pc : {"idle", "looping", "sending"}, at : Tasks,
                             listed : SUBSET Tasks, todo : SUBSET Tasks,
                             held : [Tasks -> TaskRows]]]
    /\ request \in [Operators -> [pc : {"idle", "stored", "sending"}, at : Tasks, held : TaskRows]]
    /\ done \in SUBSET Tasks
    /\ finished \in SUBSET Tasks
    /\ approved \in SUBSET Tasks
    /\ ops \in 0..MaxOps
    /\ crashes \in 0..MaxCrashes

(* No task is ever sent to a runtime before every task it depends on has    *)
(* been completed once, although a tick judges readiness by the copies it   *)
(* loaded at its start and operators may command any task at any time.      *)
DependenciesHonoured ==
    \A t \in Tasks, k \in 1..MaxDispatches : disp[t][k] # "NONE" => DependsOn[t] \subseteq done

(* review_policy: a HUMAN task is completed only by an operator, and an     *)
(* AUTO task only by an operator or after one of its dispatches completed,  *)
(* whatever stale copies ticks and requests write back.                     *)
CompletionIsEarned ==
    \A t \in Tasks : task[t].status = "COMPLETED" =>
        t \in approved \/ t \in finished \ HumanReview

(* A terminal task is reopened by an operator's command or by a session     *)
(* that had loaded or changed it before it became terminal: no fresh read   *)
(* of collaboration_tick reopens it.                                        *)
ReopenedOnlyByOperatorOrStaleCopy ==
    [][\A t \in Tasks :
          task[t].status \in TerminalTaskStatuses /\ task'[t].status # task[t].status =>
              \/ ops' # ops
              \/ \E w \in Workers : tick'[w] # tick[w] /\ tick[w].held[t] # task[t]
              \/ \E o \in Operators : request'[o] # request[o] /\ request[o].held # task[t]]_vars

Live(t) == \E k \in 1..MaxDispatches :
              disp[t][k] \in {"DISPATCHING"} \cup OpenReports

(* What keeps a task that is still under way from being started again.      *)
(* Until the first command of an operator it is the commit of DISPATCHING   *)
(* before the await: whoever starts a second run holds a copy of the row    *)
(* that is out of date.  After any commands it is the mirror, which comes   *)
(* before the dispatch in collaboration_tick: a tick that holds the row as  *)
(* it is stored starts no run while the row's own dispatch says RUNNING or  *)
(* WAITING_APPROVAL; and a row forgets its dispatch only by a command of an *)
(* operator, never by the late write of a stale copy.  Commands are left to *)
(* start a task twice: a retry and a review that asks for a revision forget *)
(* the dispatch whatever its run does, the request that accepts, resumes or *)
(* retries a task dispatches it without the mirror, and a tick does so when *)
(* a resumed task's dispatch says DISPATCHING, STOPPING or another word.    *)
SecondRunOnlyFromStaleCopy ==
    /\ [][ops = 0 => \A t \in Tasks : Live(t) /\ FreshKeys(t)' # FreshKeys(t) =>
             \/ \E w \in Workers : tick'[w].pc # tick[w].pc /\ tick[w].held[t] # task[t]
             \/ \E o \in Operators : request'[o].pc # request[o].pc /\ request[o].held # task[t]]_vars
    /\ [][\A w \in Workers, t \in Tasks :
             /\ tick[w].pc = "looping" /\ tick'[w].pc = "sending" /\ tick'[w].at = t
             /\ tick[w].held[t] = task[t]
             => task[t].key = 0 \/ disp[t][task[t].key] \notin {"RUNNING", "WAITING_APPROVAL"}]_vars
    /\ [][\A t \in Tasks : task[t].key # 0 /\ task'[t].key = 0 => ops' = ops + 1]_vars

Ended(t) == task[t].key # 0 /\ disp[t][task[t].key] \in Endings \cup {"REFUSED"}

Unsettled(t) ==
    \/ task[t].status = "DISPATCHING"
    \/ Ended(t) /\ task[t].status \notin TerminalTaskStatuses \cup {"REVIEW"}

(* No task is forgotten: it does not stay DISPATCHING for ever, even when   *)
(* the replica or the request that dispatched it has died, and the end of   *)
(* its dispatch reaches it, so that it is closed or put up for review,      *)
(* unless it gets another dispatch first or the end is hidden again.        *)
TasksMoveOn == \A t \in Tasks : Unsettled(t) ~> ~Unsettled(t)

(* Dependent work is released: a waiting task whose dependencies are all    *)
(* complete does not wait for ever.                                         *)
DependentsAreReleased ==
    \A t \in Tasks :
        (task[t].status = "WAITING_DEPENDENCY" /\ DependenciesReady(t, FreshStatus)) ~>
            (task[t].status # "WAITING_DEPENDENCY" \/ ~DependenciesReady(t, FreshStatus))
==========================================================================
