---------------------- MODULE CollaborationBusProofs ----------------------
(***************************************************************************)
(* Proofs about CollaborationBus, for every set of tasks, replicas and     *)
(* operator requests: the type invariant, the dependency engine and the    *)
(* review gate.                                                            *)
(***************************************************************************)
EXTENDS CollaborationBus, TLAPS

USE DEF Keys, WatchedStatuses, TerminalTaskStatuses

(* An AUTO task one of whose dispatches has been completed.                 *)
Earned(t) == t \notin HumanReview /\ t \in finished

(* The replica, or the request, awaits the reply for dispatch k of task t.  *)
Sends(w, t, k) == tick[w].pc = "sending" /\ tick[w].at = t /\ tick[w].held[t].key = k
Asks(o, t, k) == request[o].pc = "sending" /\ request[o].at = t /\ request[o].held.key = k

DoneIsRecorded == \A t \in Tasks : task[t].status = "COMPLETED" => t \in done

HeldIsRecorded == \A w \in Workers, t \in Tasks : tick[w].held[t].status = "COMPLETED" => t \in done

FinishedIsRecorded == \A t \in Tasks, k \in 1..MaxDispatches : disp[t][k] = "COMPLETED" => t \in finished

SentIsDispatching ==
    \A t \in Tasks, k \in Keys :
        (\/ \E w \in Workers : Sends(w, t, k)
         \/ \E o \in Operators : Asks(o, t, k))
        => k \in 1..MaxDispatches /\ disp[t][k] = "DISPATCHING"

OneSender ==
    \A t \in Tasks, k \in Keys :
        /\ \A w, v \in Workers : Sends(w, t, k) /\ Sends(v, t, k) => w = v
        /\ \A o, p \in Operators : Asks(o, t, k) /\ Asks(p, t, k) => o = p
        /\ \A w \in Workers, o \in Operators : ~(Sends(w, t, k) /\ Asks(o, t, k))

IInv ==
    /\ TypeOK
    /\ DoneIsRecorded
    /\ HeldIsRecorded
    /\ FinishedIsRecorded
    /\ SentIsDispatching
    /\ OneSender
    /\ DependenciesHonoured
    /\ CompletionIsEarned

--------------------------------------------------------------------------
(* The operators on rows return rows, and say COMPLETED only for a reason.  *)
LEMMA NoTaskType == NoTask \in TaskRows /\ NoTask.status = "ABSENT"
BY ConstantsAssumption DEF NoTask, TaskRows, TaskStatuses

(* The task named in an idle session is a task.                            *)
LEMMA AnyTaskType == AnyTask \in Tasks
BY ConstantsAssumption DEF AnyTask

(* An idle tick has the type of a session, and its copies are of no task.  *)
LEMMA NoTickType ==
    /\ NoTick \in [pc : {"idle", "looping", "sending"}, at : Tasks,
                   listed : SUBSET Tasks, todo : SUBSET Tasks, held : [Tasks -> TaskRows]]
    /\ NoTick.pc = "idle"
    /\ \A t \in Tasks : NoTick.held[t].status = "ABSENT"
BY NoTaskType, AnyTaskType DEF NoTick

(* mirror_dispatch_state returns a row, and completes it only by a         *)
(* completed dispatch of an AUTO task.                                     *)
LEMMA MirrorFacts ==
    ASSUME TypeOK, FinishedIsRecorded, NEW t \in Tasks, NEW h \in TaskRows
    PROVE  /\ MirrorDispatchState(t, h) \in TaskRows
           /\ MirrorDispatchState(t, h).status = "COMPLETED" => h.status = "COMPLETED" \/ Earned(t)
<1> DEFINE remote == IF h.key = 0 THEN "NONE" ELSE disp[t][h.key]
<1>1. h.key # 0 => h.key \in 1..MaxDispatches
  BY ConstantsAssumption DEF TaskRows
<1>2. remote = "COMPLETED" /\ Completed(t) = "COMPLETED" => Earned(t)
  BY <1>1 DEF Completed, Earned, FinishedIsRecorded
<1>3. Completed(t) \in {"REVIEW", "COMPLETED"}
  BY DEF Completed
<1>5. MirrorDispatchState(t, h) =
         CASE remote = "RUNNING" /\ h.status # "REVISION" -> [h EXCEPT !.status = "RUNNING"]
           [] remote = "WAITING_APPROVAL" -> [h EXCEPT !.status = remote]
           [] remote = "COMPLETED" -> [h EXCEPT !.status = Completed(t), !.next = "none"]
           [] remote = "CANCELLED" -> [h EXCEPT !.status = remote, !.next = "none"]
           [] remote \in {"FAILED", "REFUSED"} -> [h EXCEPT !.status = "FAILED", !.next = "none"]
           [] OTHER -> h
  BY DEF MirrorDispatchState
<1> HIDE DEF remote
<1>6. CASE remote = "RUNNING" /\ h.status # "REVISION"
  BY <1>5, <1>6 DEF TaskRows, TaskStatuses
<1>7. CASE remote = "WAITING_APPROVAL"
  BY <1>5, <1>7 DEF TaskRows, TaskStatuses
<1>8. CASE remote = "COMPLETED"
  BY <1>2, <1>3, <1>5, <1>8 DEF TaskRows, TaskStatuses
<1>9. CASE remote \in {"FAILED", "REFUSED", "CANCELLED"}
  <2>1. PICK status \in {"FAILED", "CANCELLED"} :
           MirrorDispatchState(t, h) = [h EXCEPT !.status = status, !.next = "none"]
    BY <1>5, <1>9
  <2> QED BY <2>1 DEF TaskRows, TaskStatuses
<1>10. CASE /\ ~(remote = "RUNNING" /\ h.status # "REVISION")
            /\ remote \notin {"WAITING_APPROVAL", "COMPLETED", "FAILED", "REFUSED", "CANCELLED"}
  BY <1>5, <1>10
<1> QED BY <1>6, <1>7, <1>8, <1>9, <1>10

(* follow_up_task returns a row and never completes it.                    *)
LEMMA FollowUpFacts ==
    ASSUME NEW h \in TaskRows
    PROVE  /\ FollowUpTask(h) \in TaskRows
           /\ FollowUpTask(h).status = "COMPLETED" => h.status = "COMPLETED"
<1>1. h.followUps \in 0..MaxFollowUps + 1 /\ MaxFollowUps \in Nat
  BY ConstantsAssumption DEF TaskRows
<1>2. CASE h.status \notin WatchedStatuses
  BY <1>2 DEF FollowUpTask
<1>3. CASE h.status \in WatchedStatuses /\ h.late
  BY <1>3 DEF FollowUpTask, TaskRows, TaskStatuses
<1>4. CASE h.status \in WatchedStatuses /\ ~h.late /\ h.next # "due"
  BY <1>4 DEF FollowUpTask
<1>5. CASE h.status \in WatchedStatuses /\ ~h.late /\ h.next = "due" /\ h.followUps < MaxFollowUps
  <2>1. FollowUpTask(h) = [h EXCEPT !.followUps = h.followUps + 1, !.next = "armed"]
    BY <1>5 DEF FollowUpTask
  <2>2. h.followUps + 1 \in 0..MaxFollowUps + 1
    BY <1>1, <1>5
  <2> QED BY <2>1, <2>2, <1>5 DEF TaskRows, TaskStatuses
<1>6. CASE h.status \in WatchedStatuses /\ ~h.late /\ h.next = "due" /\ ~(h.followUps < MaxFollowUps)
  <2>1. FollowUpTask(h) = [h EXCEPT !.followUps = MaxFollowUps + 1, !.status = "ESCALATED",
                                    !.next = "none"]
    BY <1>6 DEF FollowUpTask
  <2>2. MaxFollowUps + 1 \in 0..MaxFollowUps + 1
    BY <1>1
  <2> QED BY <2>1, <2>2 DEF TaskRows, TaskStatuses
<1> QED BY <1>2, <1>3, <1>4, <1>5, <1>6

(* dispatch_task before the network returns a row and never completes it.  *)
LEMMA UndispatchedFacts ==
    ASSUME NEW t \in Tasks, NEW h \in TaskRows, NEW status
    PROVE  /\ Undispatched(t, h, status) \in TaskRows
           /\ Undispatched(t, h, status).status = "COMPLETED" => h.status = "COMPLETED"
BY DEF Undispatched, TaskRows, TaskStatuses

(* The second half of dispatch_task returns a row, and completes only an   *)
(* AUTO task whose reply says so.                                          *)
LEMMA DispatchedFacts ==
    ASSUME NEW t \in Tasks, NEW h \in TaskRows, NEW outcome \in Outcomes
    PROVE  /\ Dispatched(t, h, outcome) \in TaskRows
           /\ Dispatched(t, h, outcome).status = "COMPLETED" =>
                 outcome = "COMPLETED" /\ t \notin HumanReview
BY DEF Dispatched, Completed, TaskRows, TaskStatuses

(* A new dispatch gets a key that was unused.                              *)
LEMMA NewKeyFacts ==
    ASSUME NEW t \in Tasks, FreshKeys(t) # {}
    PROVE  NewKey(t) \in 1..MaxDispatches /\ disp[t][NewKey(t)] = "NONE"
<1>1. NewKey(t) \in FreshKeys(t)
  BY DEF NewKey
<1> QED BY <1>1 DEF FreshKeys

(* The first half of dispatch_task returns a row that is DISPATCHING       *)
(* under the new key.                                                      *)
LEMMA DispatchingFacts ==
    ASSUME NEW t \in Tasks, NEW h \in TaskRows, FreshKeys(t) # {}
    PROVE  /\ Dispatching(t, h) \in TaskRows
           /\ Dispatching(t, h).status = "DISPATCHING"
           /\ Dispatching(t, h).key = NewKey(t)
           /\ Dispatching(t, h).next = "armed"
<1>1. NewKey(t) \in Keys
  BY NewKeyFacts, ConstantsAssumption
<1> QED BY <1>1 DEF Dispatching, TaskRows, TaskStatuses

(* A commit returns a row, whose status is the stored one or the assigned  *)
(* one.                                                                    *)
LEMMA StoreFacts ==
    ASSUME NEW s \in TaskRows, NEW l \in TaskRows, NEW a \in TaskRows
    PROVE  /\ Store(s, l, a) \in TaskRows
           /\ Store(s, l, a).status \in {s.status, a.status}
           /\ a.status # l.status => Store(s, l, a).status = a.status
BY DEF Store, Flush, TaskRows

(* The follow-up time that dispatch_task sets is always written.            *)
LEMMA ArmedFacts ==
    ASSUME NEW r \in TaskRows
    PROVE  /\ [r EXCEPT !.next = "armed"] \in TaskRows
           /\ [r EXCEPT !.next = "armed"].status = r.status
BY DEF TaskRows

(* The commands and reviews of operators return rows.                      *)
LEMMA CommandedFacts ==
    ASSUME NEW h \in TaskRows
    PROVE  /\ \A action \in Actions : Commanded(h, action) \in TaskRows
           /\ \A decision \in Decisions : Reviewed(h, decision) \in TaskRows
<1>1. 0 \in Keys /\ 0 \in 0..MaxFollowUps + 1
  BY ConstantsAssumption
<1>2. ASSUME NEW action \in Actions PROVE Commanded(h, action) \in TaskRows
  <2>1. CASE action \in {"accept", "block", "resume"}
    BY <2>1 DEF Commanded, TaskRows, TaskStatuses
  <2>2. CASE action \in {"complete", "cancel"}
    BY <2>2 DEF Commanded, TaskRows, TaskStatuses
  <2>3. CASE action = "retry"
    BY <1>1, <2>3 DEF Commanded, TaskRows, TaskStatuses
  <2> QED BY <2>1, <2>2, <2>3 DEF Actions
<1>3. ASSUME NEW decision \in Decisions PROVE Reviewed(h, decision) \in TaskRows
  BY <1>1 DEF Reviewed, Decisions, TaskRows, TaskStatuses
<1> QED BY <1>2, <1>3

(* What the tick makes of its copy before it dispatches: mirrored,         *)
(* perhaps released, completed only if that is earned.                     *)
LEMMA MirroredFacts ==
    ASSUME TypeOK, FinishedIsRecorded, NEW w \in Workers, NEW t \in Tasks
    PROVE  /\ Mirrored(w, t) \in TaskRows
           /\ Mirrored(w, t).status = "COMPLETED" =>
                 tick[w].held[t].status = "COMPLETED" \/ Earned(t)
<1>1. tick[w].held[t] \in TaskRows
  BY DEF TypeOK
<1> DEFINE m == MirrorDispatchState(t, tick[w].held[t])
<1>2. m \in TaskRows /\ (m.status = "COMPLETED" => tick[w].held[t].status = "COMPLETED" \/ Earned(t))
  BY <1>1, MirrorFacts
<1>3. Mirrored(w, t) \in {m, [m EXCEPT !.status = "QUEUED"]}
  BY DEF Mirrored
<1> HIDE DEF m
<1> QED BY <1>2, <1>3 DEF TaskRows, TaskStatuses

(* The session after a task: its type, that it sends nothing, its copies.   *)
LEMMA TickAfterFacts ==
    ASSUME TypeOK, NEW w \in Workers, NEW t \in Tasks, NEW a \in TaskRows
    PROVE  /\ TickAfter(w, t, a) \in [pc : {"idle", "looping", "sending"}, at : Tasks,
                    listed : SUBSET Tasks, todo : SUBSET Tasks, held : [Tasks -> TaskRows]]
           /\ TickAfter(w, t, a).pc # "sending"
<1>1. tick[w] \in [pc : {"idle", "looping", "sending"}, at : Tasks,
                   listed : SUBSET Tasks, todo : SUBSET Tasks, held : [Tasks -> TaskRows]]
  BY DEF TypeOK
<1>2. CASE tick[w].todo \subseteq {t}
  BY <1>2, NoTickType DEF TickAfter
<1>3. CASE ~(tick[w].todo \subseteq {t})
  <2>1. TickAfter(w, t, a) = [pc |-> "looping", at |-> tick[w].at, listed |-> tick[w].listed,
                 todo |-> tick[w].todo \ {t}, held |-> [tick[w].held EXCEPT ![t] = a]]
    BY <1>1, <1>3 DEF TickAfter
  <2> QED BY <1>1, <2>1
<1> QED BY <1>2, <1>3

--------------------------------------------------------------------------
(* The copies of the session after a task are its old copies, the new      *)
(* copy of that task, or copies of nothing.                                *)
LEMMA TickAfterHeld ==
    ASSUME TypeOK, NEW w \in Workers, NEW t \in Tasks, NEW a \in TaskRows, NEW u \in Tasks,
           TickAfter(w, t, a).held[u].status = "COMPLETED"
    PROVE  IF u = t THEN a.status = "COMPLETED" ELSE tick[w].held[u].status = "COMPLETED"
<1>1. tick[w].held \in [Tasks -> TaskRows] /\ tick[w] \in [pc : {"idle", "looping", "sending"}, at : Tasks,
                   listed : SUBSET Tasks, todo : SUBSET Tasks, held : [Tasks -> TaskRows]]
  BY DEF TypeOK
<1>2. CASE tick[w].todo \subseteq {t}
  BY <1>2, NoTickType DEF TickAfter
<1>3. CASE ~(tick[w].todo \subseteq {t})
  <2>1. TickAfter(w, t, a).held = [tick[w].held EXCEPT ![t] = a]
    BY <1>1, <1>3 DEF TickAfter
  <2>2. TickAfter(w, t, a).held[u] = IF u = t THEN a ELSE tick[w].held[u]
    BY <1>1, <2>1
  <2> QED BY <2>2
<1> QED BY <1>2, <1>3

(* What a commit does to the history and to the stored rows.                *)
LEMMA CommitFacts ==
    ASSUME TypeOK, DoneIsRecorded, NEW u \in Tasks, NEW r \in TaskRows,
           Commit([task EXCEPT ![u] = r])
    PROVE  /\ task' \in [Tasks -> TaskRows]
           /\ task' = [task EXCEPT ![u] = r]
           /\ done' \in SUBSET Tasks
           /\ done \subseteq done'
           /\ r.status = "COMPLETED" => u \in done'
           /\ DoneIsRecorded'
BY DEF TypeOK, Commit, DoneIsRecorded

(* The copies of a tick that is done with task t.                           *)
LEMMA HeldKept ==
    ASSUME TypeOK, HeldIsRecorded, NEW w \in Workers, NEW t \in Tasks, NEW a \in TaskRows,
           tick' = [tick EXCEPT ![w] = TickAfter(w, t, a)],
           done \subseteq done', a.status = "COMPLETED" => t \in done'
    PROVE  HeldIsRecorded'
<1> SUFFICES ASSUME NEW v \in Workers, NEW u \in Tasks, tick'[v].held[u].status = "COMPLETED"
             PROVE  u \in done'
  BY DEF HeldIsRecorded
<1>1. tick[v].held[u].status = "COMPLETED" => u \in done'
  BY DEF HeldIsRecorded
<1>2. CASE v # w
  <2>1. tick'[v] = tick[v]
    BY <1>2 DEF TypeOK
  <2> QED BY <1>1, <2>1
<1>3. CASE v = w
  <2>1. TickAfter(w, t, a).held[u].status = "COMPLETED"
    BY <1>3 DEF TypeOK
  <2>2. IF u = t THEN a.status = "COMPLETED" ELSE tick[w].held[u].status = "COMPLETED"
    BY <2>1, TickAfterHeld
  <2> QED BY <1>1, <1>3, <2>2
<1> QED BY <1>2, <1>3

(* A session judges readiness only by completions that were committed.      *)
LEMMA ReadyFacts ==
    ASSUME TypeOK, DoneIsRecorded, HeldIsRecorded, NEW t \in Tasks
    PROVE  /\ DependenciesReady(t, FreshStatus) => DependsOn[t] \subseteq done
           /\ \A w \in Workers : DependenciesReady(t, SeenStatus(w)) => DependsOn[t] \subseteq done
BY ConstantsAssumption
   DEF TypeOK, DoneIsRecorded, HeldIsRecorded, DependenciesReady, FreshStatus, SeenStatus

(* A write of one row keeps the review gate, if what it completes is earned. *)
LEMMA GateKept ==
    ASSUME TypeOK, CompletionIsEarned, NEW u \in Tasks, NEW r \in TaskRows,
           task' = [task EXCEPT ![u] = r], approved' = approved,
           finished \subseteq finished',
           r.status = "COMPLETED" => task[u].status = "COMPLETED" \/ Earned(u)'
    PROVE  CompletionIsEarned'
BY DEF TypeOK, CompletionIsEarned, Earned

(* Senders keep their dispatches if no new sender appears and no dispatch   *)
(* that is still awaited changes.                                           *)
LEMMA SendersKept ==
    ASSUME SentIsDispatching, OneSender,
           \A t \in Tasks, k \in Keys : \A w \in Workers : Sends(w, t, k)' => Sends(w, t, k),
           \A t \in Tasks, k \in Keys : \A o \in Operators : Asks(o, t, k)' => Asks(o, t, k),
           \A t \in Tasks, k \in Keys :
               (\E w \in Workers : Sends(w, t, k)') \/ (\E o \in Operators : Asks(o, t, k)')
               => disp'[t][k] = disp[t][k]
    PROVE  SentIsDispatching' /\ OneSender'
<1>1. SentIsDispatching'
  BY DEF SentIsDispatching
<1>2. OneSender'
  BY DEF OneSender
<1> QED BY <1>1, <1>2

(* A new dispatch is sent under a key that nobody awaits.                   *)
LEMMA FreshKeyIsNotAwaited ==
    ASSUME SentIsDispatching, NEW t \in Tasks, FreshKeys(t) # {}
    PROVE  /\ NewKey(t) \in Keys
           /\ \A w \in Workers : ~Sends(w, t, NewKey(t))
           /\ \A o \in Operators : ~Asks(o, t, NewKey(t))
BY NewKeyFacts, ConstantsAssumption DEF SentIsDispatching

(* A reply says something of the dispatch, which is not under way any more. *)
LEMMA OutcomeFacts ==
    ASSUME NEW outcome \in Outcomes
    PROVE  outcome \in DispatchStatuses /\ outcome # "NONE"
BY ConstantsAssumption DEF Outcomes, DispatchStatuses, Reports, OpenReports, Endings

(* The row of a dispatch gets a status: a completion is recorded for good.  *)
LEMMA StoreDispatchFacts ==
    ASSUME TypeOK, FinishedIsRecorded, NEW u \in Tasks, NEW k \in 1..MaxDispatches,
           NEW s \in DispatchStatuses, StoreDispatch(u, k, s)
    PROVE  /\ disp' \in [Tasks -> [1..MaxDispatches -> DispatchStatuses]]
           /\ disp'[u][k] = s
           /\ \A t \in Tasks, j \in 1..MaxDispatches :
                 t # u \/ j # k => disp'[t][j] = disp[t][j]
           /\ finished' \in SUBSET Tasks /\ finished \subseteq finished'
           /\ s = "COMPLETED" => u \in finished'
           /\ FinishedIsRecorded'
<1>1. disp' = [disp EXCEPT ![u][k] = s]
  BY DEF StoreDispatch
<1>2. finished' = IF s = "COMPLETED" THEN finished \cup {u} ELSE finished
  BY DEF StoreDispatch
<1>3. /\ disp' \in [Tasks -> [1..MaxDispatches -> DispatchStatuses]]
      /\ disp'[u][k] = s
      /\ \A t \in Tasks, j \in 1..MaxDispatches : t # u \/ j # k => disp'[t][j] = disp[t][j]
  BY <1>1 DEF TypeOK
<1>4. /\ finished' \in SUBSET Tasks /\ finished \subseteq finished'
      /\ s = "COMPLETED" => u \in finished'
  BY <1>2 DEF TypeOK
<1>5. FinishedIsRecorded'
  BY <1>3, <1>4 DEF FinishedIsRecorded
<1> QED BY <1>3, <1>4, <1>5

(* The commit of a new dispatch of task u.                                  *)
LEMMA NewDispatchFacts ==
    ASSUME TypeOK, FinishedIsRecorded, NEW u \in Tasks, FreshKeys(u) # {},
           StoreDispatch(u, NewKey(u), "DISPATCHING")
    PROVE  /\ disp' \in [Tasks -> [1..MaxDispatches -> DispatchStatuses]]
           /\ disp'[u][NewKey(u)] = "DISPATCHING"
           /\ \A t \in Tasks, k \in 1..MaxDispatches :
                 t # u \/ k # NewKey(u) => disp'[t][k] = disp[t][k]
           /\ finished' \in SUBSET Tasks /\ finished \subseteq finished'
           /\ FinishedIsRecorded'
<1>1. NewKey(u) \in 1..MaxDispatches /\ "DISPATCHING" \in DispatchStatuses
  BY NewKeyFacts DEF DispatchStatuses
<1> QED BY <1>1, StoreDispatchFacts

--------------------------------------------------------------------------
(* The inductive invariant holds before the first handoff is created.      *)
LEMMA InitIInv == Init => IInv
<1> SUFFICES ASSUME Init PROVE IInv
  OBVIOUS
<1>1. TypeOK
  BY NoTaskType, NoTickType, AnyTaskType, ConstantsAssumption DEF Init, TypeOK, NoRequest, DispatchStatuses
<1>2. DoneIsRecorded /\ HeldIsRecorded /\ FinishedIsRecorded
  BY NoTaskType, NoTickType DEF Init, DoneIsRecorded, HeldIsRecorded, FinishedIsRecorded
<1>3. SentIsDispatching /\ OneSender
  BY NoTickType DEF Init, SentIsDispatching, OneSender, Sends, Asks, NoRequest
<1>4. DependenciesHonoured /\ CompletionIsEarned
  BY NoTaskType DEF Init, DependenciesHonoured, CompletionIsEarned
<1> QED BY <1>1, <1>2, <1>3, <1>4 DEF IInv

(* Loading the open tasks: the copies are the stored rows, nothing is      *)
(* sent.                                                                   *)
LEMMA StartTickStep ==
    ASSUME IInv, NEW w \in Workers, StartTick(w)
    PROVE  IInv'
<1>1. TypeOK'
  <2>1. [t \in Tasks |-> IF Open(t) THEN task[t] ELSE NoTask] \in [Tasks -> TaskRows]
    BY NoTaskType DEF IInv, TypeOK
  <2> QED BY <2>1, AnyTaskType DEF IInv, TypeOK, StartTick
<1>2. \A v \in Workers \ {w} : tick'[v] = tick[v]
  BY DEF IInv, TypeOK, StartTick
<1>3. tick'[w].pc = "looping" /\ tick'[w].held = [t \in Tasks |-> IF Open(t) THEN task[t] ELSE NoTask]
  BY DEF IInv, TypeOK, StartTick
<1>4. UNCHANGED <<task, disp, request, done, finished, approved>>
  BY DEF StartTick
<1>5. DoneIsRecorded' /\ FinishedIsRecorded' /\ DependenciesHonoured' /\ CompletionIsEarned'
  BY <1>4 DEF IInv, DoneIsRecorded, FinishedIsRecorded, DependenciesHonoured, CompletionIsEarned
<1>6. HeldIsRecorded'
  <2>1. \A t \in Tasks : tick'[w].held[t].status # "COMPLETED"
    BY <1>3, NoTaskType DEF Open
  <2> QED BY <1>2, <1>4, <2>1 DEF IInv, HeldIsRecorded
<1>7. SentIsDispatching' /\ OneSender'
  <2>1. \A t \in Tasks, k \in Keys : \A v \in Workers : Sends(v, t, k)' => Sends(v, t, k)
    BY <1>2, <1>3 DEF Sends
  <2>2. \A t \in Tasks, k \in Keys : \A o \in Operators : Asks(o, t, k)' => Asks(o, t, k)
    BY <1>4 DEF Asks
  <2> QED BY <1>4, <2>1, <2>2, SendersKept DEF IInv
<1> QED BY <1>1, <1>5, <1>6, <1>7 DEF IInv

(* A tick that works on a task without sending it changes one row.         *)
LEMMA TickTaskStep ==
    ASSUME IInv, NEW w \in Workers, NEW t \in Tasks, TickTask(w, t)
    PROVE  IInv'
<1> DEFINE m == Mirrored(w, t)
           b == IF m.auto THEN Undispatched(t, m, SeenStatus(w)) ELSE m
           a == FollowUpTask(b)
           h == tick[w].held[t]
           r == Store(task[t], h, a)
<1>1. /\ tick' = [tick EXCEPT ![w] = TickAfter(w, t, a)]
      /\ Commit([task EXCEPT ![t] = r])
      /\ UNCHANGED <<disp, finished, request, approved, ops, crashes>>
  BY DEF TickTask, IInv, TypeOK
<1>2. m \in TaskRows /\ (m.status = "COMPLETED" => h.status = "COMPLETED" \/ Earned(t))
  BY MirroredFacts DEF IInv
<1> HIDE DEF m
<1>3. b \in TaskRows /\ (b.status = "COMPLETED" => m.status = "COMPLETED")
  BY <1>2, UndispatchedFacts
<1> HIDE DEF b
<1>4. a \in TaskRows /\ (a.status = "COMPLETED" => b.status = "COMPLETED")
  BY <1>3, FollowUpFacts
<1>5. h \in TaskRows /\ task[t] \in TaskRows
  BY DEF IInv, TypeOK
<1> HIDE DEF a, h
<1>6. /\ r \in TaskRows
      /\ r.status \in {task[t].status, a.status}
      /\ a.status # h.status => r.status = a.status
  <2>1. Store(task[t], h, a) \in TaskRows /\ Store(task[t], h, a).status \in {task[t].status, a.status}
        /\ (a.status # h.status => Store(task[t], h, a).status = a.status)
    BY <1>4, <1>5, StoreFacts
  <2> QED BY <2>1
<1>7. a.status = "COMPLETED" => h.status = "COMPLETED" \/ (r.status = "COMPLETED" /\ Earned(t))
  BY <1>2, <1>3, <1>4, <1>6
<1> HIDE DEF r
<1>8. /\ task' \in [Tasks -> TaskRows] /\ task' = [task EXCEPT ![t] = r]
      /\ done' \in SUBSET Tasks /\ done \subseteq done'
      /\ r.status = "COMPLETED" => t \in done'
      /\ DoneIsRecorded'
  BY <1>1, <1>6, CommitFacts DEF IInv
<1>9. /\ tick'[w] = TickAfter(w, t, a)
      /\ \A v \in Workers \ {w} : tick'[v] = tick[v]
  BY <1>1 DEF IInv, TypeOK
<1>10. TypeOK'
  BY <1>1, <1>4, <1>8, TickAfterFacts DEF IInv, TypeOK
<1>11. HeldIsRecorded'
  <2>1. h.status = "COMPLETED" => t \in done
    BY DEF h, IInv, HeldIsRecorded
  <2>2. a.status = "COMPLETED" => t \in done'
    BY <1>7, <1>8, <2>1
  <2> QED BY <1>1, <1>4, <1>8, <2>2, HeldKept DEF IInv
<1>12. SentIsDispatching' /\ OneSender'
  <2>1. tick'[w].pc # "sending"
    BY <1>4, <1>9, TickAfterFacts DEF IInv
  <2>2. \A u \in Tasks, k \in Keys : \A v \in Workers : Sends(v, u, k)' => Sends(v, u, k)
    BY <1>9, <2>1 DEF Sends
  <2>3. \A u \in Tasks, k \in Keys : \A o \in Operators : Asks(o, u, k)' => Asks(o, u, k)
    BY <1>1 DEF Asks
  <2> QED BY <1>1, <2>2, <2>3, SendersKept DEF IInv
<1>13. DependenciesHonoured' /\ FinishedIsRecorded'
  BY <1>1, <1>8 DEF IInv, DependenciesHonoured, FinishedIsRecorded
<1>14. CompletionIsEarned'
  <2>1. r.status = "COMPLETED" => task[t].status = "COMPLETED" \/ Earned(t)
    <3>1. CASE a.status # h.status
      BY <1>2, <1>3, <1>4, <1>6, <3>1
    <3>2. CASE a.status = h.status
      BY <3>2 DEF r, Store, Flush
    <3> QED BY <3>1, <3>2
  <2>2. Earned(t) => Earned(t)'
    BY <1>1 DEF Earned
  <2> QED BY <1>1, <1>6, <1>8, <2>1, <2>2, GateKept DEF IInv
<1> QED BY <1>8, <1>10, <1>11, <1>12, <1>13, <1>14 DEF IInv

(* A tick that sends a task takes a key nobody awaits, after it judged     *)
(* readiness by copies of committed completions.                           *)
LEMMA TickDispatchStep ==
    ASSUME IInv, NEW w \in Workers, NEW t \in Tasks, TickDispatch(w, t)
    PROVE  IInv'
<1> DEFINE m == Mirrored(w, t)
           a == Dispatching(t, m)
           h == tick[w].held[t]
           s == Store(task[t], h, a)
           r == [s EXCEPT !.next = "armed"]
           k == NewKey(t)
           x == [tick[w] EXCEPT !.pc = "sending", !.at = t,
                                !.held = [tick[w].held EXCEPT ![t] = a]]
<1>1. /\ tick[w].pc = "looping" /\ FreshKeys(t) # {} /\ DependenciesReady(t, SeenStatus(w))
      /\ m \in TaskRows
  BY MirroredFacts DEF TickDispatch, Dispatchable, IInv
<1> HIDE DEF m
<1>2. a \in TaskRows /\ a.status = "DISPATCHING" /\ a.key = k /\ a.next = "armed"
  BY <1>1, DispatchingFacts
<1>3. /\ Commit([task EXCEPT ![t] = r])
      /\ StoreDispatch(t, k, "DISPATCHING")
      /\ tick' = [tick EXCEPT ![w] = x]
      /\ UNCHANGED <<request, approved, ops, crashes>>
  <2>1. Commit([task EXCEPT ![t] = [Store(task[t], h, a) EXCEPT !.next = a.next]])
    BY DEF TickDispatch, IInv, TypeOK, m
  <2>2. /\ StoreDispatch(t, a.key, "DISPATCHING")
        /\ tick' = [tick EXCEPT ![w] = x]
        /\ UNCHANGED <<request, approved, ops, crashes>>
    BY DEF TickDispatch, m
  <2> HIDE DEF a, x
  <2> QED BY <1>2, <2>1, <2>2
<1> HIDE DEF a
<1>4. h \in TaskRows /\ task[t] \in TaskRows
  BY DEF IInv, TypeOK
<1>5. s \in TaskRows /\ s.status \in {task[t].status, a.status}
  BY <1>2, <1>4, StoreFacts
<1> HIDE DEF s
<1>6. r \in TaskRows /\ r.status \in {task[t].status, "DISPATCHING"}
  BY <1>2, <1>5, ArmedFacts
<1> HIDE DEF r
<1>7. /\ task' \in [Tasks -> TaskRows] /\ task' = [task EXCEPT ![t] = r]
      /\ done' \in SUBSET Tasks /\ done \subseteq done' /\ DoneIsRecorded'
  BY <1>3, <1>6, CommitFacts DEF IInv
<1>8. /\ disp' \in [Tasks -> [1..MaxDispatches -> DispatchStatuses]]
      /\ disp'[t][k] = "DISPATCHING"
      /\ \A u \in Tasks, j \in 1..MaxDispatches : u # t \/ j # k => disp'[u][j] = disp[u][j]
      /\ finished' \in SUBSET Tasks /\ finished \subseteq finished'
      /\ FinishedIsRecorded'
  BY <1>1, <1>3, NewDispatchFacts DEF IInv
<1>9. k \in 1..MaxDispatches
  BY <1>1, NewKeyFacts
<1>10. /\ tick'[w].pc = "sending" /\ tick'[w].at = t /\ tick'[w].held = [tick[w].held EXCEPT ![t] = a]
       /\ \A v \in Workers \ {w} : tick'[v] = tick[v]
       /\ tick' \in [Workers -> [pc : {"idle", "looping", "sending"}, at : Tasks,
                             listed : SUBSET Tasks, todo : SUBSET Tasks, held : [Tasks -> TaskRows]]]
  <2>1. tick[w] \in [pc : {"idle", "looping", "sending"}, at : Tasks,
                     listed : SUBSET Tasks, todo : SUBSET Tasks, held : [Tasks -> TaskRows]]
    BY DEF IInv, TypeOK
  <2>2. [tick[w].held EXCEPT ![t] = a] \in [Tasks -> TaskRows]
    BY <1>2, <2>1
  <2>3. x \in [pc : {"idle", "looping", "sending"}, at : Tasks,
               listed : SUBSET Tasks, todo : SUBSET Tasks, held : [Tasks -> TaskRows]]
    BY <2>1, <2>2
  <2>4. x.pc = "sending" /\ x.at = t /\ x.held = [tick[w].held EXCEPT ![t] = a]
    BY <2>1
  <2> HIDE DEF x
  <2> QED BY <1>3, <2>3, <2>4 DEF IInv, TypeOK
<1>11. tick'[w].held[t] = a /\ \A u \in Tasks \ {t} : tick'[w].held[u] = tick[w].held[u]
  BY <1>10 DEF IInv, TypeOK
<1>12. TypeOK'
  BY <1>3, <1>7, <1>8, <1>10 DEF IInv, TypeOK
<1>13. HeldIsRecorded'
  BY <1>2, <1>7, <1>10, <1>11 DEF IInv, HeldIsRecorded
<1>14. ASSUME NEW u \in Tasks, NEW j \in Keys
       PROVE  /\ Sends(w, u, j)' <=> u = t /\ j = k
              /\ \A v \in Workers \ {w} : Sends(v, u, j)' <=> Sends(v, u, j)
              /\ \A o \in Operators : Asks(o, u, j)' <=> Asks(o, u, j)
              /\ ~Sends(w, u, j)
  BY <1>1, <1>2, <1>3, <1>10, <1>11 DEF Sends, Asks
<1>15. /\ \A v \in Workers : ~Sends(v, t, k)
       /\ \A o \in Operators : ~Asks(o, t, k)
  BY <1>1, FreshKeyIsNotAwaited DEF IInv
<1>16. SentIsDispatching'
  BY <1>8, <1>9, <1>14, <1>15 DEF IInv, SentIsDispatching
<1>17. OneSender'
  BY <1>14, <1>15 DEF IInv, OneSender
<1>18. DependenciesHonoured'
  <2>1. DependsOn[t] \subseteq done
    BY <1>1, ReadyFacts DEF IInv
  <2> QED BY <1>7, <1>8, <2>1 DEF IInv, DependenciesHonoured
<1>19. CompletionIsEarned'
  BY ZenonT(30), <1>3, <1>6, <1>7, <1>8, GateKept DEF IInv
<1> QED BY <1>7, <1>8, <1>12, <1>13, <1>16, <1>17, <1>18, <1>19 DEF IInv

(* The reply to a tick settles the dispatch that only this tick awaits.    *)
LEMMA TickReplyStep ==
    ASSUME IInv, NEW w \in Workers, NEW outcome \in Outcomes, TickReply(w, outcome)
    PROVE  IInv'
<1>0. PICK t \in Tasks : t = tick[w].at
  BY DEF IInv, TypeOK
<1> DEFINE h == tick[w].held[t]
           d == Dispatched(t, h, outcome)
           a == FollowUpTask(d)
           r == Store(task[t], h, a)
           k == h.key
<1>1. /\ t \in Tasks /\ h \in TaskRows /\ task[t] \in TaskRows
      /\ tick[w].pc = "sending"
  BY <1>0 DEF TickReply, IInv, TypeOK
<1>2. /\ Commit([task EXCEPT ![t] = r])
      /\ StoreDispatch(t, k, outcome)
      /\ tick' = [tick EXCEPT ![w] = TickAfter(w, t, a)]
      /\ UNCHANGED <<request, approved, ops, crashes>>
  BY <1>0 DEF TickReply, IInv, TypeOK
<1>3. k \in Keys /\ Sends(w, t, k)
  BY <1>0, <1>1 DEF Sends, TaskRows
<1>4. k \in 1..MaxDispatches /\ disp[t][k] = "DISPATCHING"
  BY <1>1, <1>3 DEF IInv, SentIsDispatching
<1>5. h.status = "COMPLETED" => t \in done
  BY <1>1 DEF IInv, HeldIsRecorded
<1>6. /\ \A v \in Workers : Sends(v, t, k) => v = w
      /\ \A o \in Operators : ~Asks(o, t, k)
  BY <1>1, <1>3 DEF IInv, OneSender
<1> HIDE DEF h, k
<1>7. d \in TaskRows /\ (d.status = "COMPLETED" => outcome = "COMPLETED" /\ t \notin HumanReview)
  BY <1>1, DispatchedFacts
<1> HIDE DEF d
<1>8. a \in TaskRows /\ (a.status = "COMPLETED" => d.status = "COMPLETED")
  BY <1>7, FollowUpFacts
<1> HIDE DEF a
<1>9. /\ r \in TaskRows
      /\ r.status \in {task[t].status, a.status}
      /\ a.status # h.status => r.status = a.status
  <2>1. /\ Store(task[t], h, a) \in TaskRows
        /\ Store(task[t], h, a).status \in {task[t].status, a.status}
        /\ a.status # h.status => Store(task[t], h, a).status = a.status
    BY <1>1, <1>8, StoreFacts
  <2> QED BY <2>1
<1> HIDE DEF r
<1>10. /\ task' \in [Tasks -> TaskRows] /\ task' = [task EXCEPT ![t] = r]
       /\ done' \in SUBSET Tasks /\ done \subseteq done'
       /\ r.status = "COMPLETED" => t \in done'
       /\ DoneIsRecorded'
  BY <1>1, <1>2, <1>9, CommitFacts DEF IInv
<1>11. /\ disp' \in [Tasks -> [1..MaxDispatches -> DispatchStatuses]]
       /\ disp'[t][k] = outcome
       /\ \A u \in Tasks, j \in 1..MaxDispatches : u # t \/ j # k => disp'[u][j] = disp[u][j]
       /\ finished' \in SUBSET Tasks /\ finished \subseteq finished'
       /\ outcome = "COMPLETED" => t \in finished'
       /\ FinishedIsRecorded'
  BY ZenonT(30), <1>1, <1>2, <1>4, OutcomeFacts, StoreDispatchFacts DEF IInv
<1>12. tick'[w] = TickAfter(w, t, a) /\ \A v \in Workers \ {w} : tick'[v] = tick[v]
  BY <1>2 DEF IInv, TypeOK
<1>13. TypeOK'
  BY <1>1, <1>2, <1>8, <1>10, <1>11, TickAfterFacts DEF IInv, TypeOK
<1>14. HeldIsRecorded'
  <2>1. a.status = "COMPLETED" => t \in done'
    BY <1>5, <1>9, <1>10
  <2> QED BY <1>1, <1>2, <1>8, <1>10, <2>1, HeldKept DEF IInv
<1>15. SentIsDispatching' /\ OneSender'
  <2>1. tick'[w].pc # "sending"
    BY <1>1, <1>8, <1>12, TickAfterFacts DEF IInv
  <2>2. ASSUME NEW u \in Tasks, NEW j \in Keys
        PROVE  /\ \A v \in Workers : Sends(v, u, j)' => v # w /\ Sends(v, u, j)
               /\ \A o \in Operators : Asks(o, u, j)' => Asks(o, u, j)
    BY <1>2, <1>12, <2>1 DEF Sends, Asks
  <2>3. ASSUME NEW u \in Tasks, NEW j \in Keys,
               (\E v \in Workers : Sends(v, u, j)') \/ (\E o \in Operators : Asks(o, u, j)')
        PROVE  disp'[u][j] = disp[u][j]
    <3>1. u # t \/ j # k
      BY <1>6, <2>2, <2>3
    <3>2. j \in 1..MaxDispatches
      BY <2>2, <2>3 DEF IInv, SentIsDispatching
    <3> QED BY <1>11, <3>1, <3>2
  <2> QED BY <2>2, <2>3, SendersKept DEF IInv
<1>16. DependenciesHonoured'
  <2>1. DependsOn[t] \subseteq done
    BY <1>1, <1>4 DEF IInv, DependenciesHonoured
  <2> QED BY <1>4, <1>10, <1>11, <2>1 DEF IInv, DependenciesHonoured
<1>17. CompletionIsEarned'
  <2>1. a.status = "COMPLETED" => Earned(t)'
    <3> SUFFICES ASSUME a.status = "COMPLETED" PROVE Earned(t)'
      OBVIOUS
    <3>1. outcome = "COMPLETED" /\ t \notin HumanReview
      BY <1>7, <1>8
    <3>2. t \in finished'
      BY <1>11, <3>1
    <3> QED BY <3>1, <3>2 DEF Earned
  <2>2. r.status = "COMPLETED" => task[t].status = "COMPLETED" \/ Earned(t)'
    BY <1>9, <2>1
  <2> QED BY <1>1, <1>2, <1>9, <1>10, <1>11, <2>2, GateKept DEF IInv
<1> QED BY <1>10, <1>11, <1>13, <1>14, <1>15, <1>16, <1>17 DEF IInv

(* The first commit of a request, whatever row h it stores.                 *)
LEMMA StoreRowStep ==
    ASSUME IInv, NEW o \in Operators, NEW t \in Tasks, NEW h \in TaskRows, NEW dispatches,
           StoreRow(o, t, h, dispatches), UNCHANGED <<disp, finished, tick, crashes>>,
           approved' \in SUBSET Tasks, ops' \in 0..MaxOps,
           CompletionIsEarned'
    PROVE  IInv'
<1>1. /\ task' \in [Tasks -> TaskRows] /\ task' = [task EXCEPT ![t] = h]
      /\ done' \in SUBSET Tasks /\ done \subseteq done' /\ DoneIsRecorded'
  BY CommitFacts DEF IInv, StoreRow
<1>2. request' \in [Operators -> [pc : {"idle", "stored", "sending"}, at : Tasks, held : TaskRows]]
  BY DEF IInv, TypeOK, StoreRow
<1>3. TypeOK'
  BY <1>1, <1>2 DEF IInv, TypeOK
<1>4. HeldIsRecorded'
  BY <1>1 DEF IInv, HeldIsRecorded
<1>5. SentIsDispatching' /\ OneSender'
  <2>1. \A u \in Tasks, k \in Keys : \A v \in Workers : Sends(v, u, k)' => Sends(v, u, k)
    BY DEF Sends
  <2>2. \A u \in Tasks, k \in Keys : \A p \in Operators : Asks(p, u, k)' => Asks(p, u, k)
    BY DEF IInv, TypeOK, Asks, StoreRow
  <2> QED BY <2>1, <2>2, SendersKept DEF IInv
<1>6. DependenciesHonoured' /\ FinishedIsRecorded'
  BY <1>1 DEF IInv, DependenciesHonoured, FinishedIsRecorded
<1> QED BY <1>1, <1>3, <1>4, <1>5, <1>6 DEF IInv

(* A new handoff is a row that is not complete.                            *)
LEMMA CreateHandoffStep ==
    ASSUME IInv, NEW o \in Operators, NEW t \in Tasks, NEW auto \in BOOLEAN,
           CreateHandoff(o, t, auto)
    PROVE  IInv'
<1> DEFINE h == [NoTask EXCEPT !.auto = auto,
                    !.status = IF DependsOn[t] = {} THEN "QUEUED" ELSE "WAITING_DEPENDENCY"]
<1>1. h \in TaskRows /\ h.status # "COMPLETED"
  BY NoTaskType DEF TaskRows, TaskStatuses
<1>2. /\ StoreRow(o, t, h, auto /\ h.status = "QUEUED")
      /\ UNCHANGED <<disp, finished, tick, approved, ops, crashes>>
  BY DEF CreateHandoff
<1> HIDE DEF h
<1>3. task' = [task EXCEPT ![t] = h]
  BY <1>1, <1>2, CommitFacts DEF StoreRow, IInv
<1>4. CompletionIsEarned'
  BY <1>1, <1>2, <1>3, GateKept DEF IInv
<1>5. approved' \in SUBSET Tasks /\ ops' \in 0..MaxOps
  BY <1>2 DEF IInv, TypeOK
<1> QED BY <1>1, <1>2, <1>4, <1>5, StoreRowStep

(* An operator's command stores a row, and approves what it completes.     *)
LEMMA OperateStep ==
    ASSUME IInv, NEW o \in Operators, NEW t \in Tasks, NEW h \in TaskRows, Operate(o, t, h)
    PROVE  IInv'
<1>1. task' = [task EXCEPT ![t] = h]
  BY CommitFacts DEF Operate, StoreRow, IInv
<1>2. approved' = IF h.status = "COMPLETED" THEN approved \cup {t} ELSE approved \ {t}
  BY DEF Operate
<1>3. CompletionIsEarned'
  <2>1. finished' = finished
    BY DEF Operate
  <2> QED BY <1>1, <1>2, <2>1 DEF IInv, TypeOK, CompletionIsEarned
<1>4. approved' \in SUBSET Tasks
  BY <1>2 DEF IInv, TypeOK
<1>5. ops' \in 0..MaxOps
  BY ConstantsAssumption DEF Operate, IInv, TypeOK
<1>6. /\ StoreRow(o, t, h, h.auto /\ h.status \in {"QUEUED", "REVISION"})
      /\ UNCHANGED <<disp, finished, tick, crashes>>
  BY DEF Operate
<1> QED BY <1>3, <1>4, <1>5, <1>6, StoreRowStep

(* A request that sends a task takes a key nobody awaits, after it judged  *)
(* readiness by the stored rows.                                           *)
LEMMA RequestDispatchStep ==
    ASSUME IInv, NEW o \in Operators, RequestDispatch(o)
    PROVE  IInv'
<1>0. PICK t \in Tasks : t = request[o].at
  BY DEF IInv, TypeOK
<1> DEFINE h == request[o].held
           a == Dispatching(t, h)
           s == Store(task[t], h, a)
           r == [s EXCEPT !.next = "armed"]
           k == NewKey(t)
           x == [request[o] EXCEPT !.pc = "sending", !.held = a]
<1>1. h \in TaskRows /\ task[t] \in TaskRows /\ request[o].pc = "stored"
  BY <1>0 DEF IInv, TypeOK, RequestDispatch
<1>2. CASE Dispatchable(t, h, FreshStatus)
  <2>1. FreshKeys(t) # {} /\ DependenciesReady(t, FreshStatus)
    BY <1>2 DEF Dispatchable
  <2>2. a \in TaskRows /\ a.status = "DISPATCHING" /\ a.key = k /\ a.next = "armed"
    BY <1>1, <2>1, DispatchingFacts
  <2>3. /\ Commit([task EXCEPT ![t] = r])
        /\ StoreDispatch(t, k, "DISPATCHING")
        /\ request' = [request EXCEPT ![o] = x]
        /\ UNCHANGED <<tick, approved, ops, crashes>>
    <3>1. /\ Commit([task EXCEPT ![t] = [Store(task[t], h, a) EXCEPT !.next = a.next]])
          /\ StoreDispatch(t, a.key, "DISPATCHING")
          /\ request' = [request EXCEPT ![o] = x]
          /\ UNCHANGED <<tick, approved, ops, crashes>>
      BY <1>0, <1>2 DEF RequestDispatch, IInv, TypeOK
    <3> HIDE DEF a, x
    <3> QED BY <2>2, <3>1
  <2> HIDE DEF a
  <2>4. s \in TaskRows /\ s.status \in {task[t].status, a.status}
    BY <1>1, <2>2, StoreFacts
  <2> HIDE DEF s
  <2>5. r \in TaskRows /\ r.status \in {task[t].status, "DISPATCHING"}
    BY <2>2, <2>4, ArmedFacts
  <2> HIDE DEF r
  <2>6. /\ task' \in [Tasks -> TaskRows] /\ task' = [task EXCEPT ![t] = r]
        /\ done' \in SUBSET Tasks /\ done \subseteq done' /\ DoneIsRecorded'
    BY <2>3, <2>5, CommitFacts DEF IInv
  <2>7. /\ disp' \in [Tasks -> [1..MaxDispatches -> DispatchStatuses]]
        /\ disp'[t][k] = "DISPATCHING"
        /\ \A u \in Tasks, j \in 1..MaxDispatches : u # t \/ j # k => disp'[u][j] = disp[u][j]
        /\ finished' \in SUBSET Tasks /\ finished \subseteq finished'
        /\ FinishedIsRecorded'
    BY <2>1, <2>3, NewDispatchFacts DEF IInv
  <2>8. k \in 1..MaxDispatches
    BY <2>1, NewKeyFacts
  <2>9. /\ x \in [pc : {"idle", "stored", "sending"}, at : Tasks, held : TaskRows]
        /\ x.pc = "sending" /\ x.at = t /\ x.held = a
    <3>1. request[o] \in [pc : {"idle", "stored", "sending"}, at : Tasks, held : TaskRows]
      BY DEF IInv, TypeOK
    <3> QED BY <1>0, <2>2, <3>1
  <2> HIDE DEF x
  <2>10. /\ request' \in [Operators -> [pc : {"idle", "stored", "sending"}, at : Tasks, held : TaskRows]]
         /\ request'[o] = x /\ \A p \in Operators \ {o} : request'[p] = request[p]
    BY <2>3, <2>9 DEF IInv, TypeOK
  <2>11. TypeOK'
    BY <2>3, <2>6, <2>7, <2>10 DEF IInv, TypeOK
  <2>12. HeldIsRecorded'
    BY <2>3, <2>6 DEF IInv, HeldIsRecorded
  <2>13. ASSUME NEW u \in Tasks, NEW j \in Keys
         PROVE  /\ Asks(o, u, j)' <=> u = t /\ j = k
                /\ \A p \in Operators \ {o} : Asks(p, u, j)' <=> Asks(p, u, j)
                /\ \A w \in Workers : Sends(w, u, j)' <=> Sends(w, u, j)
                /\ ~Asks(o, u, j)
    BY <1>1, <2>2, <2>3, <2>9, <2>10 DEF Sends, Asks
  <2>14. /\ \A v \in Workers : ~Sends(v, t, k)
         /\ \A p \in Operators : ~Asks(p, t, k)
    BY <2>1, FreshKeyIsNotAwaited DEF IInv
  <2>15. SentIsDispatching'
    BY <2>7, <2>8, <2>13, <2>14 DEF IInv, SentIsDispatching
  <2>16. OneSender'
    BY <2>13, <2>14 DEF IInv, OneSender
  <2>17. DependenciesHonoured'
    <3>1. DependsOn[t] \subseteq done
      BY <2>1, ReadyFacts DEF IInv
    <3> QED BY <2>6, <2>7, <3>1 DEF IInv, DependenciesHonoured
  <2>18. CompletionIsEarned'
    BY ZenonT(30), <2>3, <2>5, <2>6, <2>7, GateKept DEF IInv
  <2> QED BY <2>6, <2>7, <2>11, <2>12, <2>15, <2>16, <2>17, <2>18 DEF IInv
<1>3. CASE ~Dispatchable(t, h, FreshStatus)
  <2>1. /\ request' = [request EXCEPT ![o] = NoRequest]
        /\ UNCHANGED <<task, disp, done, finished, tick, approved, ops, crashes>>
    BY <1>0, <1>3 DEF RequestDispatch
  <2>2. TypeOK'
    BY <2>1, AnyTaskType, NoTaskType DEF IInv, TypeOK, NoRequest
  <2>3. /\ DoneIsRecorded' /\ HeldIsRecorded' /\ FinishedIsRecorded'
        /\ DependenciesHonoured' /\ CompletionIsEarned'
    BY <2>1 DEF IInv, DoneIsRecorded, HeldIsRecorded, FinishedIsRecorded, DependenciesHonoured,
                CompletionIsEarned
  <2>4. \A u \in Tasks, j \in Keys : \A w \in Workers : Sends(w, u, j)' => Sends(w, u, j)
    BY <2>1 DEF Sends
  <2>5. \A u \in Tasks, j \in Keys : \A p \in Operators : Asks(p, u, j)' => Asks(p, u, j)
    BY <2>1 DEF Asks, NoRequest, IInv, TypeOK
  <2>6. SentIsDispatching' /\ OneSender'
    BY <2>1, <2>4, <2>5, SendersKept DEF IInv
  <2> QED BY <2>2, <2>3, <2>6 DEF IInv
<1> QED BY <1>2, <1>3

(* The reply to a request settles the dispatch that only it awaits.        *)
LEMMA RequestReplyStep ==
    ASSUME IInv, NEW o \in Operators, NEW outcome \in Outcomes, RequestReply(o, outcome)
    PROVE  IInv'
<1>0. PICK t \in Tasks : t = request[o].at
  BY DEF IInv, TypeOK
<1> DEFINE h == request[o].held
           a == Dispatched(t, h, outcome)
           r == Store(task[t], h, a)
           k == h.key
<1>1. h \in TaskRows /\ task[t] \in TaskRows /\ request[o].pc = "sending"
  BY <1>0 DEF RequestReply, IInv, TypeOK
<1>2. /\ Commit([task EXCEPT ![t] = r])
      /\ StoreDispatch(t, k, outcome)
      /\ request' = [request EXCEPT ![o] = NoRequest]
      /\ UNCHANGED <<tick, approved, ops, crashes>>
  BY <1>0 DEF RequestReply, IInv, TypeOK
<1>3. k \in Keys /\ Asks(o, t, k)
  BY <1>0, <1>1 DEF Asks, TaskRows
<1>4. k \in 1..MaxDispatches /\ disp[t][k] = "DISPATCHING"
  BY <1>3 DEF IInv, SentIsDispatching
<1>5. /\ \A p \in Operators : Asks(p, t, k) => p = o
      /\ \A v \in Workers : ~Sends(v, t, k)
  BY <1>3 DEF IInv, OneSender
<1> HIDE DEF h, k
<1>6. a \in TaskRows /\ (a.status = "COMPLETED" => outcome = "COMPLETED" /\ t \notin HumanReview)
  BY <1>1, DispatchedFacts
<1> HIDE DEF a
<1>7. r \in TaskRows /\ r.status \in {task[t].status, a.status}
  BY <1>1, <1>6, StoreFacts
<1> HIDE DEF r
<1>8. /\ task' \in [Tasks -> TaskRows] /\ task' = [task EXCEPT ![t] = r]
      /\ done' \in SUBSET Tasks /\ done \subseteq done' /\ DoneIsRecorded'
  BY <1>2, <1>7, CommitFacts DEF IInv
<1>9. /\ disp' \in [Tasks -> [1..MaxDispatches -> DispatchStatuses]]
      /\ disp'[t][k] = outcome
      /\ \A u \in Tasks, j \in 1..MaxDispatches : u # t \/ j # k => disp'[u][j] = disp[u][j]
      /\ finished' \in SUBSET Tasks /\ finished \subseteq finished'
      /\ outcome = "COMPLETED" => t \in finished'
      /\ FinishedIsRecorded'
  BY ZenonT(30), <1>2, <1>4, OutcomeFacts, StoreDispatchFacts DEF IInv
<1>10. TypeOK'
  <2>1. NoRequest \in [pc : {"idle", "stored", "sending"}, at : Tasks, held : TaskRows]
    BY AnyTaskType, NoTaskType DEF NoRequest
  <2>2. request' \in [Operators -> [pc : {"idle", "stored", "sending"}, at : Tasks, held : TaskRows]]
    BY <1>2, <2>1 DEF IInv, TypeOK
  <2> QED BY <1>2, <1>8, <1>9, <2>2 DEF IInv, TypeOK
<1>11. HeldIsRecorded'
  BY <1>2, <1>8 DEF IInv, HeldIsRecorded
<1>12. SentIsDispatching' /\ OneSender'
  <2>1. request'[o].pc # "sending" /\ \A p \in Operators \ {o} : request'[p] = request[p]
    BY <1>2 DEF IInv, TypeOK, NoRequest
  <2>2. ASSUME NEW u \in Tasks, NEW j \in Keys
        PROVE  /\ \A v \in Workers : Sends(v, u, j)' => Sends(v, u, j)
               /\ \A p \in Operators : Asks(p, u, j)' => p # o /\ Asks(p, u, j)
    BY <1>2, <2>1 DEF Sends, Asks
  <2>3. ASSUME NEW u \in Tasks, NEW j \in Keys,
               (\E v \in Workers : Sends(v, u, j)') \/ (\E p \in Operators : Asks(p, u, j)')
        PROVE  disp'[u][j] = disp[u][j]
    <3>1. u # t \/ j # k
      BY <1>5, <2>2, <2>3
    <3>2. j \in 1..MaxDispatches
      BY <2>2, <2>3 DEF IInv, SentIsDispatching
    <3> QED BY <1>9, <3>1, <3>2
  <2> QED BY <2>2, <2>3, SendersKept DEF IInv
<1>13. DependenciesHonoured'
  <2>1. DependsOn[t] \subseteq done
    BY <1>4 DEF IInv, DependenciesHonoured
  <2> QED BY <1>4, <1>8, <1>9, <2>1 DEF IInv, DependenciesHonoured
<1>14. CompletionIsEarned'
  <2>1. ASSUME a.status = "COMPLETED" PROVE Earned(t)'
    <3>1. outcome = "COMPLETED" /\ t \notin HumanReview
      BY <1>6, <2>1
    <3>2. t \in finished'
      BY <1>9, <3>1
    <3> QED BY <3>1, <3>2 DEF Earned
  <2>2. r.status = "COMPLETED" => task[t].status = "COMPLETED" \/ Earned(t)'
    BY <1>7, <2>1
  <2> QED BY <1>2, <1>7, <1>8, <1>9, <2>2, GateKept DEF IInv
<1> QED BY <1>8, <1>9, <1>10, <1>11, <1>12, <1>13, <1>14 DEF IInv

(* A row that is under way, or a clock, moves: no session is touched.       *)
LEMMA OutsideStep ==
    ASSUME IInv, NEW t \in Tasks,
           \/ \E k \in 1..MaxDispatches : DispatchMoves(t, k)
           \/ FollowUpFallsDue(t)
           \/ DeadlinePasses(t)
    PROVE  IInv'
<1>1. /\ UNCHANGED <<tick, request, done, approved, ops, crashes>>
      /\ task' \in [Tasks -> TaskRows]
      /\ \A u \in Tasks : task'[u].status = task[u].status
  <2>1. CASE \E k \in 1..MaxDispatches : DispatchMoves(t, k)
    BY <2>1 DEF DispatchMoves, IInv, TypeOK
  <2>2. CASE FollowUpFallsDue(t)
    <3>0. task[t] \in TaskRows
      BY DEF IInv, TypeOK
    <3>1. [task[t] EXCEPT !.next = "due"] \in TaskRows
      BY <3>0 DEF TaskRows
    <3>2. task' = [task EXCEPT ![t] = [task[t] EXCEPT !.next = "due"]]
      BY <2>2 DEF FollowUpFallsDue
    <3> QED BY <2>2, <3>1, <3>2 DEF FollowUpFallsDue, IInv, TypeOK, TaskRows
  <2>3. CASE DeadlinePasses(t)
    <3>0. task[t] \in TaskRows
      BY DEF IInv, TypeOK
    <3>1. [task[t] EXCEPT !.late = TRUE] \in TaskRows
      BY <3>0 DEF TaskRows
    <3>2. task' = [task EXCEPT ![t] = [task[t] EXCEPT !.late = TRUE]]
      BY <2>3 DEF DeadlinePasses
    <3> QED BY <2>3, <3>1, <3>2 DEF DeadlinePasses, IInv, TypeOK, TaskRows
  <2> QED BY <2>1, <2>2, <2>3
<1>2. /\ disp' \in [Tasks -> [1..MaxDispatches -> DispatchStatuses]]
      /\ \A u \in Tasks, j \in 1..MaxDispatches :
            /\ disp[u][j] \in {"NONE", "DISPATCHING"} => disp'[u][j] = disp[u][j]
            /\ disp'[u][j] # "NONE" => disp[u][j] # "NONE"
      /\ finished' \in SUBSET Tasks /\ finished \subseteq finished'
      /\ FinishedIsRecorded'
  <2>1. CASE \E k \in 1..MaxDispatches : DispatchMoves(t, k)
    <3>1. PICK k \in 1..MaxDispatches : DispatchMoves(t, k)
      BY <2>1
    <3>2. PICK s \in Occurring : StoreDispatch(t, k, s)
      BY <3>1 DEF DispatchMoves
    <3>3. /\ s \in DispatchStatuses
          /\ disp[t][k] \notin {"NONE", "DISPATCHING"}
      BY <3>1, ConstantsAssumption
         DEF DispatchMoves, DispatchStatuses, Reports, OpenReports, Endings
    <3>4. /\ disp' \in [Tasks -> [1..MaxDispatches -> DispatchStatuses]]
          /\ \A u \in Tasks, j \in 1..MaxDispatches : u # t \/ j # k => disp'[u][j] = disp[u][j]
          /\ finished' \in SUBSET Tasks /\ finished \subseteq finished'
          /\ FinishedIsRecorded'
      BY <3>2, <3>3, StoreDispatchFacts DEF IInv
    <3> QED BY <3>3, <3>4
  <2>2. CASE FollowUpFallsDue(t) \/ DeadlinePasses(t)
    <3>1. disp' = disp /\ finished' = finished
      BY <2>2 DEF FollowUpFallsDue, DeadlinePasses
    <3> QED BY <3>1 DEF IInv, TypeOK, FinishedIsRecorded
  <2> QED BY <2>1, <2>2
<1>3. TypeOK'
  BY <1>1, <1>2 DEF IInv, TypeOK
<1>4. DoneIsRecorded' /\ HeldIsRecorded'
  BY <1>1 DEF IInv, DoneIsRecorded, HeldIsRecorded
<1>5. DependenciesHonoured'
  BY <1>1, <1>2 DEF IInv, DependenciesHonoured
<1>6. CompletionIsEarned'
  BY <1>1, <1>2 DEF IInv, CompletionIsEarned
<1>7. SentIsDispatching' /\ OneSender'
  <2>1. \A u \in Tasks, j \in Keys : \A v \in Workers : Sends(v, u, j)' => Sends(v, u, j)
    BY <1>1 DEF Sends
  <2>2. \A u \in Tasks, j \in Keys : \A p \in Operators : Asks(p, u, j)' => Asks(p, u, j)
    BY <1>1 DEF Asks
  <2>3. ASSUME NEW u \in Tasks, NEW j \in Keys,
               (\E v \in Workers : Sends(v, u, j)') \/ (\E p \in Operators : Asks(p, u, j)')
        PROVE  disp'[u][j] = disp[u][j]
    <3>1. j \in 1..MaxDispatches /\ disp[u][j] = "DISPATCHING"
      BY <2>1, <2>2, <2>3 DEF IInv, SentIsDispatching
    <3> QED BY <1>2, <3>1
  <2> QED BY <2>1, <2>2, <2>3, SendersKept DEF IInv
<1> QED BY <1>2, <1>3, <1>4, <1>5, <1>6, <1>7 DEF IInv

(* A crash ends one session and changes no row.                            *)
LEMMA CrashStep ==
    ASSUME IInv,
           (\E w \in Workers : CrashWorker(w)) \/ (\E o \in Operators : CrashRequest(o))
    PROVE  IInv'
<1>1. /\ UNCHANGED <<task, disp, done, finished, approved, ops>>
      /\ crashes' \in 0..MaxCrashes
  BY ConstantsAssumption DEF CrashWorker, CrashRequest, IInv, TypeOK
<1>2. /\ tick' \in [Workers -> [pc : {"idle", "looping", "sending"}, at : Tasks,
                             listed : SUBSET Tasks, todo : SUBSET Tasks, held : [Tasks -> TaskRows]]]
      /\ \A v \in Workers : tick'[v] = tick[v] \/ tick'[v] = NoTick
  BY SMTT(30), NoTickType DEF CrashWorker, CrashRequest, IInv, TypeOK
<1>3. /\ request' \in [Operators -> [pc : {"idle", "stored", "sending"}, at : Tasks, held : TaskRows]]
      /\ \A p \in Operators : request'[p] = request[p] \/ request'[p] = NoRequest
  <2>1. NoRequest \in [pc : {"idle", "stored", "sending"}, at : Tasks, held : TaskRows]
    BY NoTaskType, AnyTaskType DEF NoRequest
  <2> QED BY <2>1 DEF CrashWorker, CrashRequest, IInv, TypeOK
<1>4. TypeOK'
  BY <1>1, <1>2, <1>3 DEF IInv, TypeOK
<1>5. DoneIsRecorded' /\ FinishedIsRecorded' /\ DependenciesHonoured' /\ CompletionIsEarned'
  BY <1>1 DEF IInv, DoneIsRecorded, FinishedIsRecorded, DependenciesHonoured, CompletionIsEarned
<1>6. HeldIsRecorded'
  BY <1>1, <1>2, NoTickType DEF IInv, HeldIsRecorded
<1>7. SentIsDispatching' /\ OneSender'
  <2>1. \A u \in Tasks, j \in Keys : \A v \in Workers : Sends(v, u, j)' => Sends(v, u, j)
    BY <1>2, NoTickType DEF Sends
  <2>2. \A u \in Tasks, j \in Keys : \A p \in Operators : Asks(p, u, j)' => Asks(p, u, j)
    BY <1>3 DEF Asks, NoRequest
  <2> QED BY <1>1, <2>1, <2>2, SendersKept DEF IInv
<1> QED BY <1>4, <1>5, <1>6, <1>7 DEF IInv

(* A step that changes nothing keeps the invariant.                        *)
LEMMA StutterStep == IInv /\ UNCHANGED vars => IInv'
<1> SUFFICES ASSUME IInv, UNCHANGED vars PROVE IInv'
  OBVIOUS
<1>1. UNCHANGED <<task, disp, tick, request, done, finished, approved, ops, crashes>>
  BY DEF vars
<1>2. TypeOK'
  BY <1>1 DEF IInv, TypeOK
<1>3. DoneIsRecorded' /\ FinishedIsRecorded' /\ DependenciesHonoured' /\ CompletionIsEarned'
  BY <1>1 DEF IInv, DoneIsRecorded, FinishedIsRecorded, DependenciesHonoured, CompletionIsEarned
<1>4. HeldIsRecorded'
  BY <1>1 DEF IInv, HeldIsRecorded
<1>5. SentIsDispatching'
  BY <1>1 DEF IInv, SentIsDispatching, Sends, Asks
<1>6. OneSender'
  BY <1>1 DEF IInv, OneSender, Sends, Asks
<1> QED BY <1>2, <1>3, <1>4, <1>5, <1>6 DEF IInv

(* Every step of the bus keeps the inductive invariant.                    *)
LEMMA NextStep == IInv /\ [Next]_vars => IInv'
<1> SUFFICES ASSUME IInv, [Next]_vars PROVE IInv'
  OBVIOUS
<1>1. CASE \E w \in Workers : StartTick(w)
  BY <1>1, StartTickStep
<1>2. CASE (\E w \in Workers : CrashWorker(w)) \/ (\E o \in Operators : CrashRequest(o))
  BY <1>2, CrashStep
<1>3. CASE \E w \in Workers, t \in Tasks : TickTask(w, t)
  BY <1>3, TickTaskStep
<1>4. CASE \E w \in Workers, t \in Tasks : TickDispatch(w, t)
  BY <1>4, TickDispatchStep
<1>5. CASE \E w \in Workers, outcome \in Outcomes : TickReply(w, outcome)
  BY <1>5, TickReplyStep
<1>6. CASE \E o \in Operators, t \in Tasks : \E auto \in BOOLEAN : CreateHandoff(o, t, auto)
  BY <1>6, CreateHandoffStep
<1>7. CASE \E o \in Operators, t \in Tasks : \E action \in Actions : TaskAction(o, t, action)
  <2>1. PICK o \in Operators, t \in Tasks : \E action \in Actions : TaskAction(o, t, action)
    BY <1>7
  <2>2. PICK action \in Actions : TaskAction(o, t, action)
    BY <2>1
  <2>3. Commanded(task[t], action) \in TaskRows
    BY CommandedFacts DEF IInv, TypeOK
  <2> QED BY <2>2, <2>3, OperateStep DEF TaskAction
<1>8. CASE \E o \in Operators, t \in Tasks : \E decision \in Decisions : ReviewTask(o, t, decision)
  <2>1. PICK o \in Operators, t \in Tasks : \E decision \in Decisions : ReviewTask(o, t, decision)
    BY <1>8
  <2>2. PICK decision \in Decisions : ReviewTask(o, t, decision)
    BY <2>1
  <2>3. Reviewed(task[t], decision) \in TaskRows
    BY CommandedFacts DEF IInv, TypeOK
  <2> QED BY <2>2, <2>3, OperateStep DEF ReviewTask
<1>9. CASE \E o \in Operators : RequestDispatch(o)
  BY <1>9, RequestDispatchStep
<1>10. CASE \E o \in Operators, outcome \in Outcomes : RequestReply(o, outcome)
  BY <1>10, RequestReplyStep
<1>11. CASE \E t \in Tasks : \/ \E k \in 1..MaxDispatches : DispatchMoves(t, k)
                             \/ FollowUpFallsDue(t)
                             \/ DeadlinePasses(t)
  BY <1>11, OutsideStep
<1>12. CASE UNCHANGED vars
  BY <1>12, StutterStep
<1> QED BY <1>1, <1>2, <1>3, <1>4, <1>5, <1>6, <1>7, <1>8, <1>9, <1>10, <1>11, <1>12 DEF Next

--------------------------------------------------------------------------
(* The inductive invariant holds in every reachable state.                  *)
THEOREM Invariance == Spec => []IInv
<1> QED BY InitIInv, NextStep, PTL DEF Spec

(* Every variable of the collaboration bus keeps its type.                  *)
THEOREM TypeCorrect == Spec => []TypeOK
<1>1. IInv => TypeOK
  BY DEF IInv
<1> QED BY <1>1, Invariance, PTL

(* collaboration_service.dependencies_ready: for any number of replicas and *)
(* operators, with any stale copies and crashes, no task is sent to a       *)
(* runtime before each task it depends on has been completed once.          *)
THEOREM DependenciesAreHonoured == Spec => []DependenciesHonoured
<1>1. IInv => DependenciesHonoured
  BY DEF IInv
<1> QED BY <1>1, Invariance, PTL

(* The review gate: a task with review_policy HUMAN is completed by an      *)
(* operator only, an AUTO task by an operator or by a completed dispatch.   *)
THEOREM CompletionIsAlwaysEarned == Spec => []CompletionIsEarned
<1>1. IInv => CompletionIsEarned
  BY DEF IInv
<1> QED BY <1>1, Invariance, PTL

(* At most one session awaits the reply for a dispatch row, and the row is  *)
(* DISPATCHING until that session writes it.                                *)
THEOREM OneSessionPerDispatch == Spec => [](SentIsDispatching /\ OneSender)
<1>1. IInv => SentIsDispatching /\ OneSender
  BY DEF IInv
<1> QED BY <1>1, Invariance, PTL

--------------------------------------------------------------------------
(***************************************************************************)
(* The action properties.  They need to know what the copies that ticks    *)
(* and requests still have to work on may say, and what a row says that    *)
(* has been sent; before the first operator command, a task that was sent  *)
(* once is never unsent again, and a queued one waits for nobody.          *)
(***************************************************************************)
Started(t) == \E k \in 1..MaxDispatches : disp[t][k] # "NONE"
Unsent == {"ABSENT", "WAITING_DEPENDENCY", "QUEUED", "REVISION"}

(* A task is queued before the first command only if it depends on nothing, *)
(* is not dispatched automatically, or has used up its dispatches.          *)
QueuedAlone(t, r) ==
    r.status = "QUEUED" /\ r.auto /\ FreshKeys(t) # {} => DependsOn[t] = {}

RowOK(t) ==
    /\ task[t].status \in {"ABSENT", "REVISION"} => task[t].key = 0
    /\ Started(t) => task[t].status # "ABSENT"
    /\ ops = 0 =>
          /\ task[t].status # "REVISION"
          /\ Started(t) => task[t].auto
          /\ Started(t) /\ FreshKeys(t) # {} => task[t].status \notin Unsent
          /\ QueuedAlone(t, task[t])

CopyOK(w, t) ==
    /\ tick[w].pc = "sending" /\ tick[w].at = t =>
          t \in tick[w].todo /\ tick[w].held[t].status = "DISPATCHING"
    /\ t \in tick[w].todo =>
          /\ tick[w].held[t].status \notin TerminalTaskStatuses \cup {"ABSENT"}
          /\ task[t].status # "ABSENT"
          /\ ops = 0 =>
                /\ tick[w].held[t].status # "REVISION"
                /\ tick[w].held[t].auto = task[t].auto
                /\ QueuedAlone(t, tick[w].held[t])

RequestOK(o, t) ==
    request[o].at = t =>
        /\ request[o].pc = "sending" => request[o].held.status = "DISPATCHING"
        /\ request[o].pc # "idle" => task[t].status # "ABSENT" /\ (ops = 0 => task[t].auto)

CopyInv ==
    /\ \A t \in Tasks : RowOK(t)
    /\ \A w \in Workers, t \in Tasks : CopyOK(w, t)
    /\ \A o \in Operators, t \in Tasks : RequestOK(o, t)

--------------------------------------------------------------------------
(* What the operators on rows do to the status, and that only a new        *)
(* dispatch changes the key and only an operator auto_dispatch.            *)
MirrorMoves(t, h) ==
    LET m == MirrorDispatchState(t, h) IN
    /\ m.auto = h.auto /\ m.key = h.key
    /\ m.status \in {h.status, "RUNNING", "WAITING_APPROVAL", "COMPLETED", "REVIEW", "FAILED",
                     "CANCELLED"}
    /\ h.key # 0 /\ disp[t][h.key] = "WAITING_APPROVAL" => m.status = "WAITING_APPROVAL"
    /\ h.key # 0 /\ disp[t][h.key] = "RUNNING" /\ h.status # "REVISION" => m.status = "RUNNING"

LEMMA MirrorMovesFacts ==
    ASSUME NEW t \in Tasks, NEW h \in TaskRows PROVE MirrorMoves(t, h)
<1> DEFINE remote == IF h.key = 0 THEN "NONE" ELSE disp[t][h.key]
           m == MirrorDispatchState(t, h)
<1>1. Completed(t) \in {"REVIEW", "COMPLETED"}
  BY DEF Completed
<1>2. m = CASE remote = "RUNNING" /\ h.status # "REVISION" -> [h EXCEPT !.status = "RUNNING"]
            [] remote = "WAITING_APPROVAL" -> [h EXCEPT !.status = remote]
            [] remote = "COMPLETED" -> [h EXCEPT !.status = Completed(t), !.next = "none"]
            [] remote = "CANCELLED" -> [h EXCEPT !.status = remote, !.next = "none"]
            [] remote \in {"FAILED", "REFUSED"} -> [h EXCEPT !.status = "FAILED", !.next = "none"]
            [] OTHER -> h
  BY DEF MirrorDispatchState
<1>3. h.key # 0 => remote = disp[t][h.key]
  OBVIOUS
<1> HIDE DEF remote, m
<1>4. /\ m.auto = h.auto /\ m.key = h.key
      /\ m.status \in {h.status, "RUNNING", "WAITING_APPROVAL", "COMPLETED", "REVIEW", "FAILED",
                       "CANCELLED"}
      /\ remote = "WAITING_APPROVAL" => m.status = "WAITING_APPROVAL"
      /\ remote = "RUNNING" /\ h.status # "REVISION" => m.status = "RUNNING"
  <2>1. CASE remote = "RUNNING" /\ h.status # "REVISION"
    BY <1>2, <2>1 DEF TaskRows
  <2>2. CASE remote = "WAITING_APPROVAL"
    BY <1>2, <2>2 DEF TaskRows
  <2>3. CASE remote = "COMPLETED"
    BY <1>1, <1>2, <2>3 DEF TaskRows
  <2>4. CASE remote \in {"FAILED", "REFUSED", "CANCELLED"}
    BY <1>2, <2>4 DEF TaskRows
  <2>5. CASE /\ ~(remote = "RUNNING" /\ h.status # "REVISION")
             /\ remote \notin {"WAITING_APPROVAL", "COMPLETED", "FAILED", "REFUSED", "CANCELLED"}
    BY <1>2, <2>5
  <2> QED BY <2>1, <2>2, <2>3, <2>4, <2>5
<1> QED BY <1>3, <1>4 DEF MirrorMoves, m

(* A tick's copy after the mirror: it is queued only if it was, or if it    *)
(* waited for dependencies that are ready.                                  *)
LEMMA MirroredMoves ==
    ASSUME TypeOK, FinishedIsRecorded, NEW w \in Workers, NEW t \in Tasks
    PROVE  /\ Mirrored(w, t).auto = tick[w].held[t].auto
           /\ Mirrored(w, t).key = tick[w].held[t].key
           /\ \/ Mirrored(w, t).status \in {"RUNNING", "WAITING_APPROVAL", "COMPLETED", "REVIEW",
                                            "FAILED", "CANCELLED"}
              \/ Mirrored(w, t).status = tick[w].held[t].status
              \/ /\ Mirrored(w, t).status = "QUEUED"
                 /\ tick[w].held[t].status = "WAITING_DEPENDENCY"
                 /\ DependenciesReady(t, SeenStatus(w))
           /\ Mirrored(w, t).status \in {"QUEUED", "REVISION"} /\ tick[w].held[t].key # 0 =>
                 /\ disp[t][tick[w].held[t].key] # "WAITING_APPROVAL"
                 /\ disp[t][tick[w].held[t].key] = "RUNNING" => tick[w].held[t].status = "REVISION"
<1> DEFINE h == tick[w].held[t]
           m == MirrorDispatchState(t, h)
           ready == DependenciesReady(t, SeenStatus(w))
<1>1. h \in TaskRows
  BY DEF TypeOK
<1>2. m \in TaskRows
  BY <1>1, MirrorFacts
<1>3. MirrorMoves(t, h)
  BY <1>1, MirrorMovesFacts
<1>4. /\ m.auto = h.auto /\ m.key = h.key
      /\ m.status \in {h.status, "RUNNING", "WAITING_APPROVAL", "COMPLETED", "REVIEW", "FAILED",
                       "CANCELLED"}
      /\ h.key # 0 /\ disp[t][h.key] = "WAITING_APPROVAL" => m.status = "WAITING_APPROVAL"
      /\ h.key # 0 /\ disp[t][h.key] = "RUNNING" /\ h.status # "REVISION" => m.status = "RUNNING"
  BY <1>3 DEF MirrorMoves
<1>5. Mirrored(w, t) = IF m.status = "WAITING_DEPENDENCY" /\ ready
                       THEN [m EXCEPT !.status = "QUEUED"] ELSE m
  BY DEF Mirrored
<1> HIDE DEF m, h, ready
<1>6. CASE m.status = "WAITING_DEPENDENCY" /\ ready
  <2>1. Mirrored(w, t) = [m EXCEPT !.status = "QUEUED"]
    BY <1>5, <1>6
  <2>2. /\ Mirrored(w, t).auto = h.auto /\ Mirrored(w, t).key = h.key
        /\ Mirrored(w, t).status = "QUEUED" /\ h.status = "WAITING_DEPENDENCY"
    BY <1>2, <1>4, <1>6, <2>1 DEF TaskRows
  <2> QED BY <1>4, <1>6, <2>2 DEF h, ready
<1>7. CASE ~(m.status = "WAITING_DEPENDENCY" /\ ready)
  <2>1. Mirrored(w, t) = m
    BY <1>5, <1>7
  <2> QED BY <1>4, <2>1 DEF h
<1> QED BY <1>6, <1>7

(* The other operators leave key and auto_dispatch alone, too.              *)
LEMMA WorkMoves ==
    ASSUME NEW t \in Tasks, NEW h \in TaskRows
    PROVE  /\ FollowUpTask(h).auto = h.auto /\ FollowUpTask(h).key = h.key
           /\ FollowUpTask(h).status \in {h.status, "ESCALATED"}
           /\ \A status :
                 /\ Undispatched(t, h, status).auto = h.auto
                 /\ Undispatched(t, h, status).key = h.key
                 /\ \/ Undispatched(t, h, status).status = h.status
                    \/ Undispatched(t, h, status).status = "BLOCKED"
                    \/ /\ Undispatched(t, h, status).status = "WAITING_DEPENDENCY"
                       /\ h.status \in {"QUEUED", "REVISION"}
                       /\ ~DependenciesReady(t, status)
           /\ \A outcome \in Outcomes :
                 /\ Dispatched(t, h, outcome).auto = h.auto
                 /\ Dispatched(t, h, outcome).key = h.key
                 /\ Dispatched(t, h, outcome).status \in
                       {"COMPLETED", "REVIEW", "WAITING_APPROVAL", "BLOCKED", "RUNNING"}
<1>1. /\ FollowUpTask(h).auto = h.auto /\ FollowUpTask(h).key = h.key
      /\ FollowUpTask(h).status \in {h.status, "ESCALATED"}
  BY DEF FollowUpTask, TaskRows
<1>2. ASSUME NEW status
      PROVE  /\ Undispatched(t, h, status).auto = h.auto
             /\ Undispatched(t, h, status).key = h.key
             /\ \/ Undispatched(t, h, status).status = h.status
                \/ Undispatched(t, h, status).status = "BLOCKED"
                \/ /\ Undispatched(t, h, status).status = "WAITING_DEPENDENCY"
                   /\ h.status \in {"QUEUED", "REVISION"}
                   /\ ~DependenciesReady(t, status)
  BY DEF Undispatched, TaskRows
<1>3. ASSUME NEW outcome \in Outcomes
      PROVE  /\ Dispatched(t, h, outcome).auto = h.auto
             /\ Dispatched(t, h, outcome).key = h.key
             /\ Dispatched(t, h, outcome).status \in
                   {"COMPLETED", "REVIEW", "WAITING_APPROVAL", "BLOCKED", "RUNNING"}
  BY DEF Dispatched, Completed, TaskRows
<1> QED BY <1>1, <1>2, <1>3

(* A commit writes the status and the key only where they were changed, and *)
(* never auto_dispatch.                                                     *)
LEMMA StoreMoves ==
    ASSUME NEW s \in TaskRows, NEW l \in TaskRows, NEW a \in TaskRows
    PROVE  /\ Store(s, l, a).auto = s.auto
           /\ Store(s, l, a).status = IF a.status = l.status THEN s.status ELSE a.status
           /\ Store(s, l, a).key = IF a.key = l.key THEN s.key ELSE a.key
BY DEF Store, Flush

(* The session after a task: it has less to do, and its other copies are   *)
(* the same; it has changed.                                               *)
LEMMA TickAfterMoves ==
    ASSUME TypeOK, NEW w \in Workers, NEW t \in tick[w].todo, NEW a \in TaskRows,
           tick[w].pc # "idle"
    PROVE  /\ t \notin TickAfter(w, t, a).todo
           /\ \A u \in TickAfter(w, t, a).todo :
                 u \in tick[w].todo /\ TickAfter(w, t, a).held[u] = tick[w].held[u]
           /\ TickAfter(w, t, a) # tick[w]
<1>1. /\ tick[w].held \in [Tasks -> TaskRows] /\ t \in Tasks
      /\ tick[w] \in [pc : {"idle", "looping", "sending"}, at : Tasks,
                      listed : SUBSET Tasks, todo : SUBSET Tasks, held : [Tasks -> TaskRows]]
  BY DEF TypeOK
<1>2. CASE tick[w].todo \subseteq {t}
  BY <1>2 DEF TickAfter, NoTick
<1>3. CASE ~(tick[w].todo \subseteq {t})
  <2>1. /\ TickAfter(w, t, a).todo = tick[w].todo \ {t}
        /\ TickAfter(w, t, a).held = [tick[w].held EXCEPT ![t] = a]
    BY <1>1, <1>3 DEF TickAfter
  <2> QED BY <1>1, <2>1
<1> QED BY <1>2, <1>3

--------------------------------------------------------------------------
(* A step keeps every task that exists, and, before the first operator     *)
(* command, its auto_dispatch.                                             *)
RowsStay ==
    /\ ops' = 0 => ops = 0
    /\ \A u \in Tasks : task[u].status # "ABSENT" =>
          task'[u].status # "ABSENT" /\ (ops' = 0 => task'[u].auto = task[u].auto)

(* A step gives task u no dispatch.                                         *)
KeysStay(u) == FreshKeys(u)' = FreshKeys(u) /\ (Started(u)' <=> Started(u))

LEMMA KeysStayFacts ==
    ASSUME NEW u \in Tasks,
           \A k \in 1..MaxDispatches : disp'[u][k] = "NONE" <=> disp[u][k] = "NONE"
    PROVE  KeysStay(u)
BY DEF KeysStay, FreshKeys, Started

(* What a step leaves of a row, a copy and a request alone stays as it was. *)
LEMMA RowKept ==
    ASSUME NEW u \in Tasks, RowOK(u), KeysStay(u), RowsStay,
           task'[u].status = task[u].status, task'[u].key = task[u].key,
           task'[u].auto = task[u].auto
    PROVE  RowOK(u)'
BY DEF RowOK, KeysStay, RowsStay, QueuedAlone

LEMMA CopyKept ==
    ASSUME NEW w \in Workers, NEW u \in Tasks, CopyOK(w, u), RowsStay,
           FreshKeys(u)' \subseteq FreshKeys(u),
           tick'[w].pc = "sending" /\ tick'[w].at = u => tick[w].pc = "sending" /\ tick[w].at = u
                                                        /\ u \in tick'[w].todo,
           u \in tick'[w].todo => u \in tick[w].todo /\ tick'[w].held[u] = tick[w].held[u]
    PROVE  CopyOK(w, u)'
BY DEF CopyOK, RowsStay, QueuedAlone

LEMMA RequestKept ==
    ASSUME NEW o \in Operators, NEW u \in Tasks, RequestOK(o, u), RowsStay,
           request'[o] = request[o] \/ request'[o].pc = "idle"
    PROVE  RequestOK(o, u)'
BY DEF RequestOK, RowsStay

--------------------------------------------------------------------------
(* Nothing is known to start with, and nothing is needed.                   *)
LEMMA InitCopyInv == Init => CopyInv
<1> SUFFICES ASSUME Init PROVE CopyInv
  OBVIOUS
<1>1. \A t \in Tasks : RowOK(t)
  BY NoTaskType DEF Init, RowOK, Started, QueuedAlone, NoTask
<1>2. \A w \in Workers, t \in Tasks : CopyOK(w, t)
  BY DEF Init, CopyOK, NoTick
<1>3. \A o \in Operators, t \in Tasks : RequestOK(o, t)
  BY DEF Init, RequestOK, NoRequest
<1> QED BY <1>1, <1>2, <1>3 DEF CopyInv

(* A step that changes no row, no dispatch and no counter of commands.      *)
LEMMA QuietCopies ==
    ASSUME CopyInv, UNCHANGED <<task, disp, ops>>,
           \A w \in Workers, t \in Tasks : CopyOK(w, t)',
           \A o \in Operators : request'[o] = request[o] \/ request'[o].pc = "idle"
    PROVE  CopyInv'
<1>1. RowsStay /\ \A t \in Tasks : KeysStay(t)
  BY DEF RowsStay, KeysStay, FreshKeys, Started
<1>2. \A t \in Tasks : RowOK(t)'
  BY <1>1, RowKept DEF CopyInv
<1>3. \A o \in Operators, t \in Tasks : RequestOK(o, t)'
  BY <1>1, RequestKept DEF CopyInv
<1> QED BY <1>2, <1>3 DEF CopyInv

(* A tick copies only the rows that are open, as they are stored.           *)
LEMMA StartTickCopies ==
    ASSUME IInv, CopyInv, NEW w \in Workers, StartTick(w) PROVE CopyInv'
<1>1. UNCHANGED <<task, disp, ops, request>>
  BY DEF StartTick
<1>2. RowsStay /\ \A t \in Tasks : KeysStay(t)
  BY <1>1 DEF RowsStay, KeysStay, FreshKeys, Started
<1>3. /\ tick'[w].pc = "looping" /\ tick'[w].todo = {t \in Tasks : Open(t)}
      /\ tick'[w].held = [t \in Tasks |-> IF Open(t) THEN task[t] ELSE NoTask]
      /\ \A v \in Workers : v # w => tick'[v] = tick[v]
  BY DEF IInv, TypeOK, StartTick
<1>4. ASSUME NEW v \in Workers, NEW t \in Tasks PROVE CopyOK(v, t)'
  <2>1. CASE v # w
    <3>1. tick'[v] = tick[v]
      BY <1>3, <2>1
    <3>2. CopyOK(v, t)
      BY DEF CopyInv
    <3> QED BY <1>1, <3>1, <3>2 DEF CopyOK, QueuedAlone, FreshKeys
  <2>2. CASE v = w
    <3>1. RowOK(t)
      BY DEF CopyInv
    <3> QED BY <1>1, <1>3, <2>2, <3>1 DEF CopyOK, QueuedAlone, FreshKeys, Open, RowOK
  <2> QED BY <2>1, <2>2
<1> QED BY <1>1, <1>4, QuietCopies

(* A session that is gone has no copies.                                    *)
LEMMA CrashCopies ==
    ASSUME IInv, CopyInv,
           (\E w \in Workers : CrashWorker(w)) \/ (\E o \in Operators : CrashRequest(o))
    PROVE  CopyInv'
<1>1. UNCHANGED <<task, disp, ops>>
  BY DEF CrashWorker, CrashRequest
<1>2. \A w \in Workers : tick'[w] = tick[w] \/ tick'[w] = NoTick
  BY DEF CrashWorker, CrashRequest, IInv, TypeOK
<1>3. \A o \in Operators : request'[o] = request[o] \/ request'[o].pc = "idle"
  BY DEF CrashWorker, CrashRequest, IInv, TypeOK, NoRequest
<1>4. ASSUME NEW w \in Workers, NEW t \in Tasks PROVE CopyOK(w, t)'
  <2>1. CopyOK(w, t)
    BY DEF CopyInv
  <2> QED BY <1>1, <1>2, <2>1 DEF CopyOK, QueuedAlone, FreshKeys, NoTick
<1> QED BY <1>1, <1>3, <1>4, QuietCopies

(* What the tick makes of a copy that it does not send: the status it       *)
(* writes is unsent only where the task cannot be sent, or has to wait.     *)
LEMMA TickTaskAssigns ==
    ASSUME IInv, CopyInv, NEW w \in Workers, NEW t \in Tasks, TickTask(w, t)
    PROVE  \E a \in TaskRows :
              /\ task' = [task EXCEPT ![t] = Store(task[t], tick[w].held[t], a)]
              /\ tick' = [tick EXCEPT ![w] = TickAfter(w, t, a)]
              /\ a.auto = tick[w].held[t].auto /\ a.key = tick[w].held[t].key
              /\ a.status # "ABSENT"
              /\ \/ a.status \notin Unsent
                 \/ a.status = tick[w].held[t].status
                 \/ a.status = "QUEUED" /\ (~a.auto \/ FreshKeys(t) = {})
                 \/ /\ a.status = "WAITING_DEPENDENCY"
                    /\ tick[w].held[t].status \in {"QUEUED", "REVISION"}
                    /\ a.auto
                    /\ DependsOn[t] # {}
<1> DEFINE h == tick[w].held[t]
           m == Mirrored(w, t)
           s == SeenStatus(w)
           b == IF m.auto THEN Undispatched(t, m, s) ELSE m
           a == FollowUpTask(b)
<1>1. h \in TaskRows /\ h.status \notin TerminalTaskStatuses \cup {"ABSENT"}
  BY DEF IInv, TypeOK, TickTask, CopyInv, CopyOK
<1>2. m \in TaskRows
  BY MirroredFacts DEF IInv
<1>3. /\ m.auto = h.auto /\ m.key = h.key
      /\ \/ m.status \in {"RUNNING", "WAITING_APPROVAL", "COMPLETED", "REVIEW", "FAILED",
                          "CANCELLED"}
         \/ m.status = h.status
         \/ m.status = "QUEUED" /\ h.status = "WAITING_DEPENDENCY" /\ DependenciesReady(t, s)
  BY MirroredMoves DEF IInv
<1>4. /\ ~(m.auto /\ Dispatchable(t, m, s))
      /\ task' = [task EXCEPT ![t] = Store(task[t], h, a)]
      /\ tick' = [tick EXCEPT ![w] = TickAfter(w, t, a)]
  BY DEF TickTask, Commit, IInv, TypeOK
<1> HIDE DEF h, m, s
<1>5. b \in TaskRows
  BY <1>2, UndispatchedFacts
<1>6. /\ b.auto = m.auto /\ b.key = m.key
      /\ \/ b.status = m.status /\ (m.auto => b = Undispatched(t, m, s))
         \/ b.status = "BLOCKED"
         \/ /\ b.status = "WAITING_DEPENDENCY" /\ m.status \in {"QUEUED", "REVISION"}
            /\ ~DependenciesReady(t, s) /\ m.auto
  BY <1>2, WorkMoves
<1>7. m.auto /\ b.status = m.status /\ m.status = "QUEUED" => FreshKeys(t) = {}
  <2> SUFFICES ASSUME m.auto, m.status = "QUEUED", b.status = "QUEUED" PROVE FreshKeys(t) = {}
    OBVIOUS
  <2>1. Undispatched(t, m, s).status = "QUEUED"
    OBVIOUS
  <2>2. DependenciesReady(t, s) /\ t \in Configured
    BY <1>2, <2>1 DEF Undispatched, TaskRows
  <2> QED BY <1>4, <2>2 DEF Dispatchable
<1>8. ~DependenciesReady(t, s) => DependsOn[t] # {}
  BY DEF DependenciesReady
<1> HIDE DEF b
<1>9. a \in TaskRows /\ a.auto = b.auto /\ a.key = b.key /\ a.status \in {b.status, "ESCALATED"}
  BY <1>5, FollowUpFacts, WorkMoves
<1> HIDE DEF a
<1>10. a.status # "ABSENT"
  BY <1>1, <1>3, <1>6, <1>9
<1>11. \/ a.status \notin Unsent
       \/ a.status = h.status
       \/ a.status = "QUEUED" /\ (~a.auto \/ FreshKeys(t) = {})
       \/ /\ a.status = "WAITING_DEPENDENCY"
          /\ h.status \in {"QUEUED", "REVISION"}
          /\ a.auto
          /\ DependsOn[t] # {}
  BY <1>3, <1>6, <1>7, <1>8, <1>9 DEF Unsent
<1> QED BY <1>3, <1>4, <1>6, <1>9, <1>10, <1>11 DEF h

(* A tick that works on a task without sending it.                          *)
LEMMA TickTaskCopies ==
    ASSUME IInv, CopyInv, NEW w \in Workers, NEW t \in Tasks, TickTask(w, t) PROVE CopyInv'
<1> DEFINE h == tick[w].held[t]
           old == task[t]
<1>1. PICK a \in TaskRows :
         /\ task' = [task EXCEPT ![t] = Store(task[t], tick[w].held[t], a)]
         /\ tick' = [tick EXCEPT ![w] = TickAfter(w, t, a)]
         /\ a.auto = tick[w].held[t].auto /\ a.key = tick[w].held[t].key
         /\ a.status # "ABSENT"
         /\ \/ a.status \notin Unsent
            \/ a.status = tick[w].held[t].status
            \/ a.status = "QUEUED" /\ (~a.auto \/ FreshKeys(t) = {})
            \/ /\ a.status = "WAITING_DEPENDENCY"
               /\ tick[w].held[t].status \in {"QUEUED", "REVISION"}
               /\ a.auto
               /\ DependsOn[t] # {}
  BY TickTaskAssigns
<1>2. /\ tick[w].pc = "looping" /\ t \in tick[w].todo
      /\ UNCHANGED <<disp, request, ops>>
  BY DEF TickTask
<1>3. h \in TaskRows /\ old \in TaskRows
  BY DEF IInv, TypeOK
<1>4. CopyOK(w, t) /\ RowOK(t)
  BY DEF CopyInv
<1>5. /\ task'[t].status = IF a.status = h.status THEN old.status ELSE a.status
      /\ task'[t].key = old.key
      /\ task'[t].auto = old.auto
      /\ \A u \in Tasks : u # t => task'[u] = task[u]
  BY <1>1, <1>3, StoreMoves DEF IInv, TypeOK
<1>6. \A u \in Tasks : KeysStay(u)
  BY <1>2 DEF KeysStay, FreshKeys, Started
<1>7. RowsStay
  BY <1>1, <1>2, <1>4, <1>5 DEF RowsStay, CopyOK
<1>8. RowOK(t)'
  <2>1. task'[t].status \in {"ABSENT", "REVISION"} => task'[t].key = 0
    BY <1>1, <1>4, <1>5 DEF RowOK, Unsent
  <2>2. Started(t)' => task'[t].status # "ABSENT"
    BY <1>1, <1>4, <1>5, <1>6 DEF RowOK, KeysStay
  <2>3. ASSUME ops = 0
        PROVE  /\ task'[t].status # "REVISION"
               /\ Started(t)' => task'[t].auto
               /\ Started(t)' /\ FreshKeys(t)' # {} => task'[t].status \notin Unsent
               /\ QueuedAlone(t, task[t])'
    <3>1. /\ h.status # "REVISION" /\ h.auto = old.auto
          /\ h.status = "QUEUED" /\ h.auto /\ FreshKeys(t) # {} => DependsOn[t] = {}
      BY <1>2, <1>4, <2>3 DEF CopyOK, QueuedAlone
    <3>2. /\ old.status # "REVISION"
          /\ Started(t) => old.auto
          /\ Started(t) /\ FreshKeys(t) # {} => old.status \notin Unsent
          /\ old.status = "QUEUED" /\ old.auto /\ FreshKeys(t) # {} => DependsOn[t] = {}
      BY <1>4, <2>3 DEF RowOK, QueuedAlone
    <3>3. FreshKeys(t)' = FreshKeys(t) /\ (Started(t)' <=> Started(t))
      BY <1>6 DEF KeysStay
    <3> HIDE DEF h, old
    <3>4. task'[t].status # "REVISION" /\ (Started(t)' => task'[t].auto)
      BY <1>1, <1>5, <3>1, <3>2, <3>3 DEF Unsent, h
    <3>5. Started(t)' /\ FreshKeys(t)' # {} => task'[t].status \notin Unsent
      BY <1>1, <1>5, <3>1, <3>2, <3>3 DEF Unsent, h
    <3>6. task'[t].status = "QUEUED" /\ task'[t].auto /\ FreshKeys(t)' # {} => DependsOn[t] = {}
      BY <1>1, <1>5, <3>1, <3>2, <3>3 DEF Unsent, h
    <3> QED BY <3>4, <3>5, <3>6 DEF QueuedAlone
  <2> QED BY <1>2, <2>1, <2>2, <2>3 DEF RowOK
<1>9. ASSUME NEW u \in Tasks PROVE RowOK(u)'
  <2>1. CASE u = t
    BY <1>8, <2>1
  <2>2. CASE u # t
    BY <1>5, <1>6, <1>7, <2>2, RowKept DEF CopyInv
  <2> QED BY <2>1, <2>2
<1>10. /\ tick'[w] = TickAfter(w, t, a) /\ \A v \in Workers : v # w => tick'[v] = tick[v]
       /\ tick'[w].pc # "sending"
       /\ t \notin tick'[w].todo
       /\ \A u \in tick'[w].todo : u \in tick[w].todo /\ tick'[w].held[u] = tick[w].held[u]
  <2>1. TypeOK /\ tick[w].pc # "idle"
    BY <1>2 DEF IInv
  <2>2. tick'[w] = TickAfter(w, t, a) /\ \A v \in Workers : v # w => tick'[v] = tick[v]
    BY <1>1 DEF IInv, TypeOK
  <2>3. TickAfter(w, t, a).pc # "sending"
    BY <2>1, TickAfterFacts
  <2>4. /\ t \notin TickAfter(w, t, a).todo
        /\ \A u \in TickAfter(w, t, a).todo :
              u \in tick[w].todo /\ TickAfter(w, t, a).held[u] = tick[w].held[u]
    BY <1>2, <2>1, TickAfterMoves
  <2> QED BY <2>2, <2>3, <2>4
<1>11. ASSUME NEW v \in Workers, NEW u \in Tasks PROVE CopyOK(v, u)'
  <2>1. CopyOK(v, u) /\ FreshKeys(u)' \subseteq FreshKeys(u)
    BY <1>6 DEF CopyInv, KeysStay
  <2>2. CASE v = w
    BY <1>7, <1>10, <2>1, <2>2, CopyKept
  <2>3. CASE v # w
    <3>1. tick'[v] = tick[v]
      BY <1>10, <2>3
    <3> QED BY <1>7, <2>1, <3>1, CopyKept DEF CopyOK
  <2> QED BY <2>2, <2>3
<1>12. \A o \in Operators, u \in Tasks : RequestOK(o, u)'
  BY <1>2, <1>7, RequestKept DEF CopyInv
<1> QED BY <1>9, <1>11, <1>12 DEF CopyInv

(* A tick that commits a new dispatch marks the row before it awaits.       *)
LEMMA TickDispatchCopies ==
    ASSUME IInv, CopyInv, NEW w \in Workers, NEW t \in Tasks, TickDispatch(w, t) PROVE CopyInv'
<1> DEFINE m == Mirrored(w, t)
           a == Dispatching(t, m)
           h == tick[w].held[t]
           r == [Store(task[t], h, a) EXCEPT !.next = a.next]
           k == NewKey(t)
           x == [tick[w] EXCEPT !.pc = "sending", !.at = t,
                                !.held = [tick[w].held EXCEPT ![t] = a]]
<1>1. /\ tick[w].pc = "looping" /\ t \in tick[w].todo /\ m.auto /\ FreshKeys(t) # {}
      /\ m.status \in {"QUEUED", "REVISION"} /\ m \in TaskRows
  BY MirroredFacts DEF TickDispatch, Dispatchable, IInv
<1>2. task' = [task EXCEPT ![t] = r]
  BY DEF TickDispatch, Commit, IInv, TypeOK
<1>3. /\ disp' = [disp EXCEPT ![t][a.key] = "DISPATCHING"]
      /\ tick' = [tick EXCEPT ![w] = x]
      /\ UNCHANGED <<request, ops>>
  BY DEF TickDispatch, StoreDispatch
<1>4. m.auto = h.auto /\ (m.status = h.status \/ h.status = "WAITING_DEPENDENCY")
  BY <1>1, MirroredMoves DEF IInv
<1>5. h \in TaskRows /\ task[t] \in TaskRows
  BY DEF IInv, TypeOK
<1>6. CopyOK(w, t) /\ RowOK(t)
  BY DEF CopyInv
<1> HIDE DEF m, x
<1>7. a \in TaskRows /\ a.status = "DISPATCHING" /\ a.key = k /\ a.next = "armed"
  BY <1>1, DispatchingFacts
<1>8. k \in 1..MaxDispatches /\ disp[t][k] = "NONE"
  BY <1>1, NewKeyFacts
<1> HIDE DEF a, k
<1>9. r.status = "DISPATCHING" /\ r.key \in {k, task[t].key} /\ r.auto = task[t].auto
  <2>1. /\ Store(task[t], h, a).auto = task[t].auto
        /\ Store(task[t], h, a).status = "DISPATCHING"
        /\ Store(task[t], h, a).key \in {k, task[t].key}
    BY SMTT(30), <1>1, <1>4, <1>5, <1>7, StoreMoves
  <2>2. Store(task[t], h, a) \in TaskRows
    BY <1>5, <1>7, StoreFacts
  <2> QED BY <2>1, <2>2 DEF TaskRows
<1> HIDE DEF r
<1>10. task'[t] = r /\ \A u \in Tasks : u # t => task'[u] = task[u]
  BY <1>2 DEF IInv, TypeOK
<1>11. /\ \A j \in 1..MaxDispatches : disp'[t][j] = "NONE" => disp[t][j] = "NONE"
       /\ \A u \in Tasks : u # t => disp'[u] = disp[u]
  BY <1>3, <1>7, <1>8 DEF IInv, TypeOK
<1>12. \A u \in Tasks : u # t => KeysStay(u)
  BY <1>11 DEF KeysStay, FreshKeys, Started
<1>13. RowsStay
  BY <1>3, <1>9, <1>10 DEF RowsStay
<1>14. RowOK(t)'
  <2>1. ops = 0 => task[t].auto
    BY <1>1, <1>4, <1>6 DEF CopyOK
  <2> QED BY <1>3, <1>9, <1>10, <2>1 DEF RowOK, QueuedAlone, Unsent
<1>15. ASSUME NEW u \in Tasks PROVE RowOK(u)'
  <2>1. CASE u = t
    BY <1>14, <2>1
  <2>2. CASE u # t
    BY <1>10, <1>12, <1>13, <2>2, RowKept DEF CopyInv
  <2> QED BY <2>1, <2>2
<1>16. /\ tick'[w].pc = "sending" /\ tick'[w].at = t /\ tick'[w].todo = tick[w].todo
       /\ tick'[w].held[t] = a
       /\ \A u \in Tasks : u # t => tick'[w].held[u] = tick[w].held[u]
       /\ \A v \in Workers : v # w => tick'[v] = tick[v]
  BY <1>3 DEF IInv, TypeOK, x
<1>17. ASSUME NEW v \in Workers, NEW u \in Tasks PROVE CopyOK(v, u)'
  <2>1. CopyOK(v, u) /\ FreshKeys(u)' \subseteq FreshKeys(u)
    BY <1>11 DEF CopyInv, FreshKeys
  <2>2. CASE v # w
    <3>1. tick'[v] = tick[v]
      BY <1>16, <2>2
    <3> QED BY <1>13, <2>1, <3>1, CopyKept DEF CopyOK
  <2>3. CASE v = w /\ u # t
    BY <1>13, <1>16, <2>1, <2>3, CopyKept
  <2>4. CASE v = w /\ u = t
    <3>1. a.auto = m.auto
      BY <1>1 DEF a, Dispatching, TaskRows
    <3> HIDE DEF h
    <3>2. t \in tick'[w].todo /\ tick'[w].held[t].status = "DISPATCHING"
      BY <1>1, <1>7, <1>16
    <3>3. task'[t].status # "ABSENT"
      BY <1>9, <1>10
    <3>4. ops' = 0 => h.auto = task[t].auto
      BY <1>1, <1>3, <1>6 DEF CopyOK, h
    <3>5. ops' = 0 => tick'[w].held[t].auto = task'[t].auto
      BY <1>4, <1>9, <1>10, <1>16, <3>1, <3>4
    <3>6. QueuedAlone(t, tick[w].held[t])'
      BY <3>2 DEF QueuedAlone
    <3> QED
      BY <2>4, <3>2, <3>3, <3>5, <3>6 DEF CopyOK, TerminalTaskStatuses
  <2> QED BY <2>2, <2>3, <2>4
<1>18. \A o \in Operators, u \in Tasks : RequestOK(o, u)'
  BY <1>3, <1>13, RequestKept DEF CopyInv
<1> QED BY <1>15, <1>17, <1>18 DEF CopyInv

(* A reply writes a status that is not unsent, if any.                      *)
LEMMA ReplyRows ==
    ASSUME IInv, CopyInv, NEW t \in Tasks, NEW h \in TaskRows, NEW a \in TaskRows,
           NEW k \in 1..MaxDispatches, NEW s, s # "NONE", disp[t][k] # "NONE",
           a.status \notin Unsent, a.key = h.key,
           task' = [task EXCEPT ![t] = Store(task[t], h, a)],
           disp' = [disp EXCEPT ![t][k] = s], ops' = ops
    PROVE  /\ RowsStay
           /\ \A u \in Tasks : KeysStay(u) /\ RowOK(u)'
<1>1. task[t] \in TaskRows /\ RowOK(t)
  BY DEF IInv, TypeOK, CopyInv
<1>2. /\ task'[t].status = task[t].status \/ task'[t].status \notin Unsent
      /\ task'[t].key = task[t].key
      /\ task'[t].auto = task[t].auto
      /\ \A u \in Tasks : u # t => task'[u] = task[u]
  BY <1>1, StoreMoves DEF IInv, TypeOK
<1>3. \A u \in Tasks, j \in 1..MaxDispatches : disp'[u][j] = "NONE" <=> disp[u][j] = "NONE"
  BY DEF IInv, TypeOK
<1>4. \A u \in Tasks : KeysStay(u)
  BY <1>3, KeysStayFacts
<1>5. RowsStay
  BY <1>2 DEF RowsStay, Unsent
<1>6. RowOK(t)'
  <2>1. FreshKeys(t)' = FreshKeys(t) /\ (Started(t)' <=> Started(t))
    BY <1>4 DEF KeysStay
  <2>2. CASE task'[t].status = task[t].status
    BY <1>1, <1>2, <1>4, <1>5, <2>2, RowKept
  <2>3. CASE task'[t].status \notin Unsent
    BY <1>1, <1>2, <2>1, <2>3 DEF RowOK, QueuedAlone, Unsent
  <2> QED BY <1>2, <2>2, <2>3
<1>7. ASSUME NEW u \in Tasks PROVE RowOK(u)'
  <2>1. CASE u = t
    BY <1>6, <2>1
  <2>2. CASE u # t
    BY <1>2, <1>4, <1>5, <2>2, RowKept DEF CopyInv
  <2> QED BY <2>1, <2>2
<1> QED BY <1>4, <1>5, <1>7

(* The reply to a tick.                                                     *)
LEMMA TickReplyCopies ==
    ASSUME IInv, CopyInv, NEW w \in Workers, NEW outcome \in Outcomes, TickReply(w, outcome)
    PROVE  CopyInv'
<1>0. PICK t \in Tasks : t = tick[w].at
  BY DEF IInv, TypeOK
<1> DEFINE h == tick[w].held[t]
           d == Dispatched(t, h, outcome)
           a == FollowUpTask(d)
<1>1. /\ h \in TaskRows /\ tick[w].pc = "sending" /\ t \in tick[w].todo
      /\ task' = [task EXCEPT ![t] = Store(task[t], h, a)]
      /\ disp' = [disp EXCEPT ![t][h.key] = outcome]
      /\ tick' = [tick EXCEPT ![w] = TickAfter(w, t, a)]
      /\ UNCHANGED <<request, ops>>
  BY <1>0 DEF TickReply, StoreDispatch, IInv, TypeOK, Commit, CopyInv, CopyOK
<1>2. h.key \in 1..MaxDispatches /\ disp[t][h.key] = "DISPATCHING"
  <2>1. h.key \in Keys /\ Sends(w, t, h.key)
    BY <1>0, <1>1 DEF Sends, TaskRows
  <2> QED BY <2>1 DEF IInv, SentIsDispatching
<1>3. outcome # "NONE"
  BY OutcomeFacts
<1> HIDE DEF h
<1>4. /\ d \in TaskRows /\ d.key = h.key
      /\ d.status \in {"COMPLETED", "REVIEW", "WAITING_APPROVAL", "BLOCKED", "RUNNING"}
  BY <1>1, DispatchedFacts, WorkMoves
<1> HIDE DEF d
<1>5. /\ a \in TaskRows /\ a.key = h.key
      /\ a.status \notin Unsent
  BY <1>4, FollowUpFacts, WorkMoves DEF Unsent
<1> HIDE DEF a
<1>6. RowsStay /\ \A u \in Tasks : KeysStay(u) /\ RowOK(u)'
  BY <1>1, <1>2, <1>3, <1>5, ReplyRows
<1>7. /\ tick'[w].pc # "sending"
      /\ \A u \in tick'[w].todo : u \in tick[w].todo /\ tick'[w].held[u] = tick[w].held[u]
      /\ \A v \in Workers : v # w => tick'[v] = tick[v]
  <2>1. TypeOK /\ tick[w].pc # "idle"
    BY <1>1 DEF IInv
  <2>2. tick'[w] = TickAfter(w, t, a) /\ \A v \in Workers : v # w => tick'[v] = tick[v]
    BY <1>1 DEF IInv, TypeOK
  <2>3. TickAfter(w, t, a).pc # "sending"
    BY <1>5, <2>1, TickAfterFacts
  <2>4. \A u \in TickAfter(w, t, a).todo :
           u \in tick[w].todo /\ TickAfter(w, t, a).held[u] = tick[w].held[u]
    BY <1>1, <1>5, <2>1, TickAfterMoves
  <2> QED BY <2>2, <2>3, <2>4
<1>8. ASSUME NEW v \in Workers, NEW u \in Tasks PROVE CopyOK(v, u)'
  <2>1. CopyOK(v, u) /\ FreshKeys(u)' \subseteq FreshKeys(u)
    BY <1>6 DEF CopyInv, KeysStay
  <2>2. CASE v = w
    BY <1>6, <1>7, <2>1, <2>2, CopyKept
  <2>3. CASE v # w
    <3>1. tick'[v] = tick[v]
      BY <1>7, <2>3
    <3> QED BY <1>6, <2>1, <3>1, CopyKept DEF CopyOK
  <2> QED BY <2>2, <2>3
<1>9. \A o \in Operators, u \in Tasks : RequestOK(o, u)'
  BY <1>1, <1>6, RequestKept DEF CopyInv
<1> QED BY <1>6, <1>8, <1>9 DEF CopyInv

(* A new handoff has no dispatch, and is queued only if it waits for nobody. *)
LEMMA CreateHandoffCopies ==
    ASSUME IInv, CopyInv, NEW o \in Operators, NEW t \in Tasks, NEW auto \in BOOLEAN,
           CreateHandoff(o, t, auto)
    PROVE  CopyInv'
<1> DEFINE h == [NoTask EXCEPT !.auto = auto,
                    !.status = IF DependsOn[t] = {} THEN "QUEUED" ELSE "WAITING_DEPENDENCY"]
<1>1. /\ h.status = IF DependsOn[t] = {} THEN "QUEUED" ELSE "WAITING_DEPENDENCY"
      /\ h.auto = auto /\ h.key = 0
  BY DEF NoTask
<1>2. /\ task[t].status = "ABSENT"
      /\ task' = [task EXCEPT ![t] = h]
      /\ request[o].pc = "idle"
      /\ \/ request' = request
         \/ auto /\ request' = [request EXCEPT ![o] = [pc |-> "stored", at |-> t, held |-> h]]
      /\ UNCHANGED <<disp, tick, ops>>
  BY DEF CreateHandoff, StoreRow, Commit
<1> HIDE DEF h
<1>3. task'[t] = h /\ \A u \in Tasks : u # t => task'[u] = task[u]
  BY <1>2 DEF IInv, TypeOK
<1>4. RowsStay /\ \A u \in Tasks : KeysStay(u)
  BY <1>2, <1>3 DEF RowsStay, KeysStay, FreshKeys, Started
<1>5. RowOK(t)'
  <2>1. ~Started(t) /\ ~Started(t)'
    BY <1>2 DEF CopyInv, RowOK, Started
  <2> QED BY <1>1, <1>3, <2>1 DEF RowOK, QueuedAlone
<1>6. ASSUME NEW u \in Tasks PROVE RowOK(u)'
  <2>1. CASE u = t
    BY <1>5, <2>1
  <2>2. CASE u # t
    BY <1>3, <1>4, <2>2, RowKept DEF CopyInv
  <2> QED BY <2>1, <2>2
<1>7. ASSUME NEW v \in Workers, NEW u \in Tasks PROVE CopyOK(v, u)'
  <2>1. CopyOK(v, u) /\ FreshKeys(u)' \subseteq FreshKeys(u) /\ tick'[v] = tick[v]
    BY <1>2, <1>4 DEF CopyInv, KeysStay
  <2> QED BY <1>4, <2>1, CopyKept DEF CopyOK
<1>8. ASSUME NEW p \in Operators, NEW u \in Tasks PROVE RequestOK(p, u)'
  <2>1. RequestOK(p, u)
    BY DEF CopyInv
  <2>2. CASE request'[p] = request[p]
    BY <1>4, <2>1, <2>2, RequestKept
  <2>3. CASE request'[p] # request[p]
    <3>1. auto /\ request'[p].pc = "stored" /\ request'[p].at = t
      BY <1>2, <2>3 DEF IInv, TypeOK
    <3> QED BY <1>1, <1>3, <3>1 DEF RequestOK
  <2> QED BY <2>2, <2>3
<1> QED BY <1>6, <1>7, <1>8 DEF CopyInv

(* A command leaves a task that exists, and one that is to be revised has   *)
(* lost its dispatch.                                                       *)
LEMMA CommandMoves ==
    ASSUME NEW h \in TaskRows, h.status # "ABSENT"
    PROVE  /\ \A action \in Actions :
                 Commanded(h, action).status \notin {"ABSENT", "REVISION"}
           /\ \A decision \in Decisions :
                 /\ Reviewed(h, decision).status # "ABSENT"
                 /\ Reviewed(h, decision).status = "REVISION" => Reviewed(h, decision).key = 0
<1>1. ASSUME NEW action \in Actions
      PROVE  Commanded(h, action).status \notin {"ABSENT", "REVISION"}
  BY DEF Commanded, Actions, TaskRows
<1>2. ASSUME NEW decision \in Decisions
      PROVE  /\ Reviewed(h, decision).status # "ABSENT"
             /\ Reviewed(h, decision).status = "REVISION" => Reviewed(h, decision).key = 0
  BY DEF Reviewed, Decisions, TaskRows
<1> QED BY <1>1, <1>2

(* After a command nothing is claimed that holds only before the first.     *)
LEMMA OperateCopies ==
    ASSUME IInv, CopyInv, NEW o \in Operators, NEW t \in Tasks, NEW h \in TaskRows,
           h.status # "ABSENT", h.status = "REVISION" => h.key = 0, Operate(o, t, h)
    PROVE  CopyInv'
<1>1. /\ task' = [task EXCEPT ![t] = h]
      /\ \/ request' = request
         \/ request' = [request EXCEPT ![o] = [pc |-> "stored", at |-> t, held |-> h]]
      /\ ops' # 0
      /\ UNCHANGED <<disp, tick>>
  BY ConstantsAssumption DEF Operate, StoreRow, Commit, IInv, TypeOK
<1>2. task'[t] = h /\ \A u \in Tasks : u # t => task'[u] = task[u]
  BY <1>1 DEF IInv, TypeOK
<1>3. RowsStay /\ \A u \in Tasks : KeysStay(u)
  BY <1>1, <1>2 DEF RowsStay, KeysStay, FreshKeys, Started
<1>4. ASSUME NEW u \in Tasks PROVE RowOK(u)'
  <2>1. CASE u = t
    BY <1>1, <1>2, <2>1 DEF RowOK
  <2>2. CASE u # t
    BY <1>2, <1>3, <2>2, RowKept DEF CopyInv
  <2> QED BY <2>1, <2>2
<1>5. ASSUME NEW v \in Workers, NEW u \in Tasks PROVE CopyOK(v, u)'
  <2>1. CopyOK(v, u) /\ FreshKeys(u)' \subseteq FreshKeys(u) /\ tick'[v] = tick[v]
    BY <1>1, <1>3 DEF CopyInv, KeysStay
  <2> QED BY <1>3, <2>1, CopyKept DEF CopyOK
<1>6. ASSUME NEW p \in Operators, NEW u \in Tasks PROVE RequestOK(p, u)'
  <2>1. RequestOK(p, u)
    BY DEF CopyInv
  <2>2. CASE request'[p] = request[p]
    BY <1>3, <2>1, <2>2, RequestKept
  <2>3. CASE request'[p] # request[p]
    <3>1. request'[p].pc = "stored" /\ request'[p].at = t
      BY <1>1, <2>3 DEF IInv, TypeOK
    <3> QED BY <1>1, <1>2, <3>1 DEF RequestOK
  <2> QED BY <2>2, <2>3
<1> QED BY <1>4, <1>5, <1>6 DEF CopyInv

(* A request that commits a new dispatch marks the row before it awaits.    *)
LEMMA RequestDispatchCopies ==
    ASSUME IInv, CopyInv, NEW o \in Operators, RequestDispatch(o) PROVE CopyInv'
<1>0. PICK t \in Tasks : t = request[o].at
  BY DEF IInv, TypeOK
<1> DEFINE h == request[o].held
           a == Dispatching(t, h)
           r == [Store(task[t], h, a) EXCEPT !.next = a.next]
           k == NewKey(t)
<1>1. h \in TaskRows /\ task[t] \in TaskRows /\ RowOK(t) /\ RequestOK(o, t)
  BY DEF IInv, TypeOK, CopyInv
<1>2. CASE ~Dispatchable(t, h, FreshStatus)
  <2>1. UNCHANGED <<task, disp, tick, ops>> /\ request' = [request EXCEPT ![o] = NoRequest]
    BY <1>0, <1>2 DEF RequestDispatch
  <2>2. \A p \in Operators : request'[p] = request[p] \/ request'[p].pc = "idle"
    BY <2>1 DEF IInv, TypeOK, NoRequest
  <2>3. \A w \in Workers, u \in Tasks : CopyOK(w, u)'
    BY <2>1 DEF CopyInv, CopyOK, QueuedAlone, FreshKeys
  <2> QED BY <2>1, <2>2, <2>3, QuietCopies
<1>3. CASE Dispatchable(t, h, FreshStatus)
  <2>1. FreshKeys(t) # {} /\ h.status \in {"QUEUED", "REVISION"}
    BY <1>3 DEF Dispatchable
  <2>2. /\ task' = [task EXCEPT ![t] = r]
        /\ disp' = [disp EXCEPT ![t][a.key] = "DISPATCHING"]
        /\ request' = [request EXCEPT ![o] = [request[o] EXCEPT !.pc = "sending", !.held = a]]
        /\ request[o].pc = "stored"
        /\ UNCHANGED <<tick, ops>>
    BY <1>0, <1>3 DEF RequestDispatch, StoreDispatch, Commit, IInv, TypeOK
  <2> HIDE DEF h
  <2>3. a \in TaskRows /\ a.status = "DISPATCHING" /\ a.key = k /\ a.next = "armed"
    BY <1>1, <2>1, DispatchingFacts
  <2>4. k \in 1..MaxDispatches /\ disp[t][k] = "NONE"
    BY <2>1, NewKeyFacts
  <2> HIDE DEF a, k
  <2>5. r.status = "DISPATCHING" /\ r.auto = task[t].auto
    <3>1. /\ Store(task[t], h, a).auto = task[t].auto
          /\ Store(task[t], h, a).status = "DISPATCHING"
      BY <1>1, <2>1, <2>3, StoreMoves
    <3>2. Store(task[t], h, a) \in TaskRows
      BY <1>1, <2>3, StoreFacts
    <3> QED BY <3>1, <3>2 DEF TaskRows
  <2> HIDE DEF r
  <2>6. task'[t] = r /\ \A u \in Tasks : u # t => task'[u] = task[u]
    BY <2>2 DEF IInv, TypeOK
  <2>7. /\ \A j \in 1..MaxDispatches : disp'[t][j] = "NONE" => disp[t][j] = "NONE"
        /\ \A u \in Tasks : u # t => disp'[u] = disp[u]
    BY <2>2, <2>3, <2>4 DEF IInv, TypeOK
  <2>8. \A u \in Tasks : u # t => KeysStay(u)
    BY <2>7 DEF KeysStay, FreshKeys, Started
  <2>9. RowsStay
    BY <2>2, <2>5, <2>6 DEF RowsStay
  <2>10. task[t].status # "ABSENT" /\ (ops = 0 => task[t].auto)
    BY <1>0, <1>1, <2>2 DEF RequestOK
  <2>11. RowOK(t)'
    BY <2>2, <2>5, <2>6, <2>10 DEF RowOK, QueuedAlone, Unsent
  <2>12. ASSUME NEW u \in Tasks PROVE RowOK(u)'
    <3>1. CASE u = t
      BY <2>11, <3>1
    <3>2. CASE u # t
      BY <2>6, <2>8, <2>9, <3>2, RowKept DEF CopyInv
    <3> QED BY <3>1, <3>2
  <2>13. ASSUME NEW v \in Workers, NEW u \in Tasks PROVE CopyOK(v, u)'
    <3>1. CopyOK(v, u) /\ FreshKeys(u)' \subseteq FreshKeys(u) /\ tick'[v] = tick[v]
      BY <2>2, <2>7 DEF CopyInv, FreshKeys
    <3> QED BY <2>9, <3>1, CopyKept DEF CopyOK
  <2>14. ASSUME NEW p \in Operators, NEW u \in Tasks PROVE RequestOK(p, u)'
    <3>1. RequestOK(p, u)
      BY DEF CopyInv
    <3>2. CASE request'[p] = request[p]
      BY <2>9, <3>1, <3>2, RequestKept
    <3>3. CASE request'[p] # request[p]
      <4>1. p = o /\ request'[p].at = t /\ request'[p].held = a
        BY <1>0, <2>2, <3>3 DEF IInv, TypeOK
      <4> QED BY <2>2, <2>3, <2>5, <2>6, <2>10, <4>1 DEF RequestOK
    <3> QED BY <3>2, <3>3
  <2> QED BY <2>12, <2>13, <2>14 DEF CopyInv
<1> QED BY <1>2, <1>3

(* The reply to a request.                                                  *)
LEMMA RequestReplyCopies ==
    ASSUME IInv, CopyInv, NEW o \in Operators, NEW outcome \in Outcomes, RequestReply(o, outcome)
    PROVE  CopyInv'
<1>0. PICK t \in Tasks : t = request[o].at
  BY DEF IInv, TypeOK
<1> DEFINE h == request[o].held
           a == Dispatched(t, h, outcome)
<1>1. /\ h \in TaskRows /\ request[o].pc = "sending"
      /\ task' = [task EXCEPT ![t] = Store(task[t], h, a)]
      /\ disp' = [disp EXCEPT ![t][h.key] = outcome]
      /\ request' = [request EXCEPT ![o] = NoRequest]
      /\ UNCHANGED <<tick, ops>>
  BY <1>0 DEF RequestReply, StoreDispatch, IInv, TypeOK, Commit
<1>2. h.key \in 1..MaxDispatches /\ disp[t][h.key] = "DISPATCHING"
  <2>1. h.key \in Keys /\ Asks(o, t, h.key)
    BY <1>0, <1>1 DEF Asks, TaskRows
  <2> QED BY <2>1 DEF IInv, SentIsDispatching
<1>3. outcome # "NONE"
  BY OutcomeFacts
<1> HIDE DEF h
<1>4. /\ a \in TaskRows /\ a.key = h.key
      /\ a.status \notin Unsent
  BY <1>1, DispatchedFacts, WorkMoves DEF Unsent
<1> HIDE DEF a
<1>5. RowsStay /\ \A u \in Tasks : KeysStay(u) /\ RowOK(u)'
  BY <1>1, <1>2, <1>3, <1>4, ReplyRows
<1>6. ASSUME NEW v \in Workers, NEW u \in Tasks PROVE CopyOK(v, u)'
  <2>1. CopyOK(v, u) /\ FreshKeys(u)' \subseteq FreshKeys(u) /\ tick'[v] = tick[v]
    BY <1>1, <1>5 DEF CopyInv, KeysStay
  <2> QED BY <1>5, <2>1, CopyKept DEF CopyOK
<1>7. \A p \in Operators : request'[p] = request[p] \/ request'[p].pc = "idle"
  BY <1>1 DEF IInv, TypeOK, NoRequest
<1>8. \A p \in Operators, u \in Tasks : RequestOK(p, u)'
  BY <1>5, <1>7, RequestKept DEF CopyInv
<1> QED BY <1>5, <1>6, <1>8 DEF CopyInv

(* Time and runs change neither the status of a task nor its dispatch.      *)
LEMMA OutsideRows ==
    ASSUME IInv, NEW t \in Tasks,
           \/ \E k \in 1..MaxDispatches : DispatchMoves(t, k)
           \/ FollowUpFallsDue(t)
           \/ DeadlinePasses(t)
    PROVE  \A u \in Tasks : /\ task'[u].status = task[u].status
                            /\ task'[u].key = task[u].key
                            /\ task'[u].auto = task[u].auto
<1>1. \/ task' = task
      \/ task' = [task EXCEPT ![t].next = "due"]
      \/ task' = [task EXCEPT ![t].late = TRUE]
  BY DEF DispatchMoves, FollowUpFallsDue, DeadlinePasses
<1>2. \A u \in Tasks : task[u] \in TaskRows /\ task \in [Tasks -> TaskRows]
  BY DEF IInv, TypeOK
<1>3. ASSUME NEW r \in TaskRows
      PROVE  /\ [r EXCEPT !.next = "due"].status = r.status
             /\ [r EXCEPT !.next = "due"].key = r.key
             /\ [r EXCEPT !.next = "due"].auto = r.auto
             /\ [r EXCEPT !.late = TRUE].status = r.status
             /\ [r EXCEPT !.late = TRUE].key = r.key
             /\ [r EXCEPT !.late = TRUE].auto = r.auto
  BY DEF TaskRows
<1>4. ASSUME NEW u \in Tasks
      PROVE  task'[u] \in {task[u], [task[u] EXCEPT !.next = "due"], [task[u] EXCEPT !.late = TRUE]}
  BY <1>1, <1>2
<1> QED BY <1>2, <1>3, <1>4

(* A report takes the place of a report, so the keys in use stay in use.    *)
LEMMA MovesFacts ==
    ASSUME IInv, NEW t \in Tasks, NEW k \in 1..MaxDispatches, DispatchMoves(t, k)
    PROVE  \A u \in Tasks, j \in 1..MaxDispatches : disp'[u][j] = "NONE" <=> disp[u][j] = "NONE"
<1>1. PICK s \in Occurring : disp' = [disp EXCEPT ![t][k] = s]
  BY DEF DispatchMoves, StoreDispatch
<1>2. disp[t][k] # "NONE" /\ s # "NONE"
  BY ConstantsAssumption DEF DispatchMoves, Reports, OpenReports, Endings
<1> QED BY <1>1, <1>2 DEF IInv, TypeOK

(* Runs that move and time that passes.                                     *)
LEMMA OutsideCopies ==
    ASSUME IInv, CopyInv, NEW t \in Tasks,
           \/ \E k \in 1..MaxDispatches : DispatchMoves(t, k)
           \/ FollowUpFallsDue(t)
           \/ DeadlinePasses(t)
    PROVE  CopyInv'
<1>1. UNCHANGED <<tick, request, ops>>
  BY DEF DispatchMoves, FollowUpFallsDue, DeadlinePasses
<1>2. \A u \in Tasks : /\ task'[u].status = task[u].status
                       /\ task'[u].key = task[u].key
                       /\ task'[u].auto = task[u].auto
  BY OutsideRows
<1>3. \A u \in Tasks, j \in 1..MaxDispatches : disp'[u][j] = "NONE" <=> disp[u][j] = "NONE"
  <2>1. CASE disp' = disp
    BY <2>1
  <2>2. ASSUME NEW k \in 1..MaxDispatches, DispatchMoves(t, k)
        PROVE  \A u \in Tasks, j \in 1..MaxDispatches : disp'[u][j] = "NONE" <=> disp[u][j] = "NONE"
    BY <2>2, MovesFacts
  <2> QED BY <2>1, <2>2 DEF FollowUpFallsDue, DeadlinePasses
<1>4. RowsStay /\ \A u \in Tasks : KeysStay(u)
  BY <1>1, <1>2, <1>3, KeysStayFacts DEF RowsStay
<1>5. \A u \in Tasks : RowOK(u)'
  BY <1>2, <1>4, RowKept DEF CopyInv
<1>6. ASSUME NEW v \in Workers, NEW u \in Tasks PROVE CopyOK(v, u)'
  <2>1. CopyOK(v, u) /\ FreshKeys(u)' \subseteq FreshKeys(u) /\ tick'[v] = tick[v]
    BY <1>1, <1>4 DEF CopyInv, KeysStay
  <2> QED BY <1>4, <2>1, CopyKept DEF CopyOK
<1>7. \A p \in Operators, u \in Tasks : RequestOK(p, u)'
  BY <1>1, <1>4, RequestKept DEF CopyInv
<1> QED BY <1>5, <1>6, <1>7 DEF CopyInv

(* Every step keeps what is known of copies.                                *)
LEMMA CopyStep == ASSUME IInv, CopyInv, [Next]_vars PROVE CopyInv'
<1>1. CASE \E w \in Workers : StartTick(w)
  BY <1>1, StartTickCopies
<1>2. CASE (\E w \in Workers : CrashWorker(w)) \/ (\E o \in Operators : CrashRequest(o))
  BY <1>2, CrashCopies
<1>3. CASE \E w \in Workers, t \in Tasks : TickTask(w, t)
  BY <1>3, TickTaskCopies
<1>4. CASE \E w \in Workers, t \in Tasks : TickDispatch(w, t)
  BY <1>4, TickDispatchCopies
<1>5. CASE \E w \in Workers, outcome \in Outcomes : TickReply(w, outcome)
  BY <1>5, TickReplyCopies
<1>6. CASE \E o \in Operators, t \in Tasks : \E auto \in BOOLEAN : CreateHandoff(o, t, auto)
  BY <1>6, CreateHandoffCopies
<1>7. ASSUME NEW o \in Operators, NEW t \in Tasks, NEW action \in Actions, TaskAction(o, t, action)
      PROVE  CopyInv'
  <2>1. task[t] \in TaskRows /\ task[t].status # "ABSENT"
    BY <1>7 DEF IInv, TypeOK, TaskAction
  <2>2. /\ Commanded(task[t], action) \in TaskRows
        /\ Commanded(task[t], action).status \notin {"ABSENT", "REVISION"}
    BY <2>1, CommandedFacts, CommandMoves
  <2> QED BY <1>7, <2>2, OperateCopies DEF TaskAction
<1>8. ASSUME NEW o \in Operators, NEW t \in Tasks, NEW decision \in Decisions,
             ReviewTask(o, t, decision)
      PROVE  CopyInv'
  <2>1. task[t] \in TaskRows /\ task[t].status # "ABSENT"
    BY <1>8 DEF IInv, TypeOK, ReviewTask
  <2>2. /\ Reviewed(task[t], decision) \in TaskRows
        /\ Reviewed(task[t], decision).status # "ABSENT"
        /\ Reviewed(task[t], decision).status = "REVISION" => Reviewed(task[t], decision).key = 0
    BY <2>1, CommandedFacts, CommandMoves
  <2> QED BY <1>8, <2>2, OperateCopies DEF ReviewTask
<1>9. CASE \E o \in Operators : RequestDispatch(o)
  BY <1>9, RequestDispatchCopies
<1>10. CASE \E o \in Operators, outcome \in Outcomes : RequestReply(o, outcome)
  BY <1>10, RequestReplyCopies
<1>11. CASE \E t \in Tasks : \/ \E k \in 1..MaxDispatches : DispatchMoves(t, k)
                             \/ FollowUpFallsDue(t)
                             \/ DeadlinePasses(t)
  BY <1>11, OutsideCopies
<1>12. CASE UNCHANGED vars
  BY <1>12 DEF vars, CopyInv, RowOK, CopyOK, RequestOK, Started, QueuedAlone, FreshKeys
<1> QED BY <1>1, <1>2, <1>3, <1>4, <1>5, <1>6, <1>7, <1>8, <1>9, <1>10, <1>11, <1>12 DEF Next

(* What is known of copies holds in every reachable state.                  *)
THEOREM CopiesInvariance == Spec => []CopyInv
BY InitCopyInv, CopyStep, Invariance, PTL DEF Spec

--------------------------------------------------------------------------
(* A request that dispatches its task goes on to await the runtime.         *)
LEMMA RequestSends ==
    ASSUME IInv, NEW o \in Operators, RequestDispatch(o),
           Dispatchable(request[o].at, request[o].held, FreshStatus)
    PROVE  request[o].pc = "stored" /\ request'[o].pc = "sending"
<1>1. request[o].pc = "stored"
  BY DEF RequestDispatch
<1>2. PICK x : request' = [request EXCEPT ![o] = [request[o] EXCEPT !.pc = "sending", !.held = x]]
  BY DEF RequestDispatch
<1>3. request[o] \in [pc : {"idle", "stored", "sending"}, at : Tasks, held : TaskRows]
  BY DEF IInv, TypeOK
<1>4. request'[o] = [request[o] EXCEPT !.pc = "sending", !.held = x]
  BY <1>2 DEF IInv, TypeOK
<1> QED BY <1>1, <1>3, <1>4

(* Only a tick or a request that changes writes a status, or an operator.   *)
LEMMA ReopenedStep ==
    ASSUME IInv, CopyInv, [Next]_vars, NEW t \in Tasks,
           task[t].status \in TerminalTaskStatuses, task'[t].status # task[t].status
    PROVE  \/ ops' # ops
           \/ \E w \in Workers : tick'[w] # tick[w] /\ tick[w].held[t] # task[t]
           \/ \E o \in Operators : request'[o] # request[o] /\ request[o].held # task[t]
<1>9. task' # task
  OBVIOUS
<1>1. ASSUME NEW w \in Workers, NEW u \in Tasks, TickTask(w, u)
      PROVE  tick'[w] # tick[w] /\ tick[w].held[t] # task[t]
  <2>1. PICK a \in TaskRows :
           /\ task' = [task EXCEPT ![u] = Store(task[u], tick[w].held[u], a)]
           /\ tick' = [tick EXCEPT ![w] = TickAfter(w, u, a)]
    BY <1>1, TickTaskAssigns
  <2>2. u = t
    BY <2>1 DEF IInv, TypeOK
  <2>3. u \in tick[w].todo /\ tick[w].pc # "idle" /\ TypeOK
    BY <1>1 DEF TickTask, IInv
  <2>4. TickAfter(w, u, a) # tick[w]
    BY <2>3, TickAfterMoves
  <2>5. tick'[w] = TickAfter(w, u, a)
    BY <2>1 DEF IInv, TypeOK
  <2> QED BY <2>2, <2>3, <2>4, <2>5 DEF CopyInv, CopyOK
<1>2. ASSUME NEW w \in Workers, NEW u \in Tasks, TickDispatch(w, u)
      PROVE  tick'[w] # tick[w] /\ tick[w].held[t] # task[t]
  <2>1. u \in tick[w].todo /\ tick[w].pc = "looping" /\ tick'[w].pc = "sending"
    BY <1>2 DEF TickDispatch, IInv, TypeOK
  <2>2. u = t
    BY <1>2 DEF TickDispatch, Commit, IInv, TypeOK
  <2> QED BY <2>1, <2>2 DEF CopyInv, CopyOK
<1>3. ASSUME NEW w \in Workers, NEW outcome \in Outcomes, TickReply(w, outcome)
      PROVE  tick'[w] # tick[w] /\ tick[w].held[t] # task[t]
  <2>1. PICK u \in Tasks : u = tick[w].at
    BY DEF IInv, TypeOK
  <2>2. /\ u \in tick[w].todo /\ tick[w].held[u].status = "DISPATCHING"
        /\ tick[w].pc = "sending"
    BY <1>3, <2>1 DEF TickReply, CopyInv, CopyOK
  <2>3. u = t
    BY <1>3, <2>1 DEF TickReply, Commit, IInv, TypeOK
  <2>4. tick'[w] # tick[w]
    <3> DEFINE a == FollowUpTask(Dispatched(u, tick[w].held[u], outcome))
    <3>1. a \in TaskRows
      BY DispatchedFacts, FollowUpFacts DEF IInv, TypeOK
    <3>2. tick'[w] = TickAfter(w, u, a)
      BY <1>3, <2>1 DEF TickReply, IInv, TypeOK
    <3> HIDE DEF a
    <3> QED BY <2>2, <3>1, <3>2, TickAfterMoves DEF IInv
  <2> QED BY <2>2, <2>3, <2>4
<1>4. ASSUME NEW o \in Operators, RequestDispatch(o)
      PROVE  request'[o] # request[o] /\ request[o].held # task[t]
  <2>1. request[o].at \in Tasks /\ Dispatchable(request[o].at, request[o].held, FreshStatus)
    BY <1>4, <1>9 DEF RequestDispatch, IInv, TypeOK
  <2>2. request[o].held.status \in {"QUEUED", "REVISION"}
    BY <2>1 DEF Dispatchable
  <2>3. request[o].pc = "stored" /\ request'[o].pc = "sending"
    BY <1>4, <2>1, RequestSends
  <2> QED BY <2>2, <2>3
<1>5. ASSUME NEW o \in Operators, NEW outcome \in Outcomes, RequestReply(o, outcome)
      PROVE  request'[o] # request[o] /\ request[o].held # task[t]
  <2>1. request[o].at \in Tasks /\ request[o].pc = "sending" /\ request'[o].pc = "idle"
    BY <1>5 DEF RequestReply, IInv, TypeOK, NoRequest
  <2>2. request[o].held.status = "DISPATCHING"
    BY <2>1 DEF CopyInv, RequestOK
  <2> QED BY <2>1, <2>2
<1>6. ASSUME NEW o \in Operators, NEW u \in Tasks, NEW auto \in BOOLEAN,
             CreateHandoff(o, u, auto)
      PROVE  FALSE
  <2>1. task[u].status = "ABSENT" /\ u # t
    BY <1>6 DEF CreateHandoff
  <2> QED BY <1>6, <2>1 DEF CreateHandoff, StoreRow, Commit, IInv, TypeOK
<1>7. ASSUME NEW o \in Operators, NEW u \in Tasks, NEW h, Operate(o, u, h)
      PROVE  ops' # ops
  BY <1>7 DEF Operate, IInv, TypeOK
<1>8. ASSUME NEW u \in Tasks, FollowUpFallsDue(u) \/ DeadlinePasses(u) PROVE FALSE
  BY <1>8, OutsideRows
<1> QED
  BY <1>1, <1>2, <1>3, <1>4, <1>5, <1>6, <1>7, <1>8, <1>9
     DEF Next, vars, StartTick, CrashWorker, CrashRequest, TaskAction, ReviewTask, DispatchMoves

(* A terminal task is reopened only by an operator's command or by a        *)
(* session whose copy of it is out of date, for any number of replicas,     *)
(* requests and crashes.                                                    *)
THEOREM ReopenedOnlySo == Spec => ReopenedOnlyByOperatorOrStaleCopy
<1>1. IInv /\ CopyInv /\ [Next]_vars =>
         [\A t \in Tasks :
             task[t].status \in TerminalTaskStatuses /\ task'[t].status # task[t].status =>
                \/ ops' # ops
                \/ \E w \in Workers : tick'[w] # tick[w] /\ tick[w].held[t] # task[t]
                \/ \E o \in Operators : request'[o] # request[o] /\ request[o].held # task[t]]_vars
  BY ReopenedStep
<1>2. Spec => [][Next]_vars
  BY DEF Spec
<1>3. QED
  BY <1>1, <1>2, Invariance, CopiesInvariance, PTL DEF ReopenedOnlyByOperatorOrStaleCopy

--------------------------------------------------------------------------
(* A task gets a new dispatch only from a tick or a request that starts to  *)
(* send it.                                                                 *)
LEMMA SecondRunStep ==
    ASSUME IInv, CopyInv, [Next]_vars, ops = 0, NEW t \in Tasks, Live(t),
           FreshKeys(t)' # FreshKeys(t)
    PROVE  \/ \E w \in Workers : tick'[w].pc # tick[w].pc /\ tick[w].held[t] # task[t]
           \/ \E o \in Operators : request'[o].pc # request[o].pc /\ request[o].held # task[t]
<1>1. Started(t) /\ (FreshKeys(t) # {} => task[t].status \notin Unsent)
  BY DEF Live, OpenReports, Started, CopyInv, RowOK
<1>2. ASSUME \A k \in 1..MaxDispatches : disp'[t][k] = "NONE" <=> disp[t][k] = "NONE"
      PROVE  FALSE
  BY <1>2 DEF FreshKeys
<1>3. ASSUME NEW w \in Workers, NEW u \in Tasks, TickDispatch(w, u)
      PROVE  tick'[w].pc # tick[w].pc /\ tick[w].held[t] # task[t]
  <2>1. tick[w].pc = "looping" /\ tick'[w].pc = "sending"
    BY <1>3 DEF TickDispatch, IInv, TypeOK
  <2>2. u = t
    BY <1>2, <1>3 DEF TickDispatch, StoreDispatch, IInv, TypeOK
  <2>3. FreshKeys(u) # {} /\ Mirrored(w, u).status \in {"QUEUED", "REVISION"}
    BY <1>3 DEF TickDispatch, Dispatchable
  <2>4. tick[w].held[u].status \in Unsent
    BY <2>3, MirroredMoves DEF Unsent, IInv
  <2> QED BY <1>1, <2>1, <2>2, <2>3, <2>4
<1>4. ASSUME NEW o \in Operators, RequestDispatch(o)
      PROVE  request'[o].pc # request[o].pc /\ request[o].held # task[t]
  <2>1. PICK u \in Tasks : u = request[o].at
    BY DEF IInv, TypeOK
  <2>2. Dispatchable(u, request[o].held, FreshStatus)
    BY <1>2, <1>4, <2>1 DEF RequestDispatch
  <2>3. u = t
    BY <1>2, <1>4, <2>1 DEF RequestDispatch, StoreDispatch, IInv, TypeOK
  <2>4. request[o].pc = "stored" /\ request'[o].pc = "sending"
    BY <1>4, <2>1, <2>2, RequestSends
  <2> QED BY <1>1, <2>2, <2>3, <2>4 DEF Dispatchable, Unsent
<1>5. ASSUME NEW w \in Workers, NEW outcome \in Outcomes, TickReply(w, outcome) PROVE FALSE
  <2>1. PICK u \in Tasks : u = tick[w].at
    BY DEF IInv, TypeOK
  <2>2. PICK k \in Keys : k = tick[w].held[u].key
    BY DEF IInv, TypeOK, TaskRows
  <2>3. k \in 1..MaxDispatches /\ disp[u][k] = "DISPATCHING"
    BY <1>5, <2>1, <2>2 DEF TickReply, IInv, SentIsDispatching, Sends
  <2>4. outcome # "NONE"
    BY OutcomeFacts
  <2>5. disp' = [disp EXCEPT ![u][k] = outcome]
    BY <1>5, <2>1, <2>2 DEF TickReply, StoreDispatch
  <2> QED BY <1>2, <2>3, <2>4, <2>5 DEF IInv, TypeOK
<1>6. ASSUME NEW o \in Operators, NEW outcome \in Outcomes, RequestReply(o, outcome) PROVE FALSE
  <2>1. PICK u \in Tasks : u = request[o].at
    BY DEF IInv, TypeOK
  <2>2. PICK k \in Keys : k = request[o].held.key
    BY DEF IInv, TypeOK, TaskRows
  <2>3. k \in 1..MaxDispatches /\ disp[u][k] = "DISPATCHING"
    BY <1>6, <2>1, <2>2 DEF RequestReply, IInv, SentIsDispatching, Asks
  <2>4. outcome # "NONE"
    BY OutcomeFacts
  <2>5. disp' = [disp EXCEPT ![u][k] = outcome]
    BY <1>6, <2>1, <2>2 DEF RequestReply, StoreDispatch
  <2> QED BY <1>2, <2>3, <2>4, <2>5 DEF IInv, TypeOK
<1>7. ASSUME NEW u \in Tasks, NEW k \in 1..MaxDispatches, DispatchMoves(u, k) PROVE FALSE
  BY <1>2, <1>7, MovesFacts
<1>8. disp' # disp
  BY <1>2
<1> QED
  BY <1>3, <1>4, <1>5, <1>6, <1>7, <1>8
     DEF Next, vars, StartTick, CrashWorker, CrashRequest, TickTask, CreateHandoff, TaskAction,
         ReviewTask, Operate, FollowUpFallsDue, DeadlinePasses

(* A tick that starts to send a task whose row it holds as it is stored has *)
(* mirrored the row's dispatch: that does not run.                          *)
LEMMA MirrorFirstStep ==
    ASSUME IInv, CopyInv, [Next]_vars, NEW w \in Workers, NEW t \in Tasks,
           tick[w].pc = "looping", tick'[w].pc = "sending", tick'[w].at = t,
           tick[w].held[t] = task[t]
    PROVE  task[t].key = 0 \/ disp[t][task[t].key] \notin {"RUNNING", "WAITING_APPROVAL"}
<1>1. PICK u \in Tasks : TickDispatch(w, u)
  <2>1. tick' # tick
    OBVIOUS
  <2>2. ASSUME NEW v \in Workers, NEW u \in Tasks, TickTask(v, u) PROVE FALSE
    <3>1. PICK a \in TaskRows : tick' = [tick EXCEPT ![v] = TickAfter(v, u, a)]
      BY <2>2, TickTaskAssigns
    <3>2. TickAfter(v, u, a).pc # "sending"
      BY TickAfterFacts DEF IInv
    <3> QED BY <3>1, <3>2 DEF IInv, TypeOK
  <2>3. ASSUME NEW v \in Workers, NEW outcome \in Outcomes, TickReply(v, outcome) PROVE FALSE
    <3>1. tick[v].pc = "sending" /\ \E x : tick' = [tick EXCEPT ![v] = x]
      BY <2>3 DEF TickReply
    <3> QED BY <3>1 DEF IInv, TypeOK
  <2>4. ASSUME NEW v \in Workers, StartTick(v) \/ CrashWorker(v) PROVE FALSE
    <3>1. \E x : x.pc \in {"idle", "looping"} /\ tick' = [tick EXCEPT ![v] = x]
      BY <2>4, NoTickType DEF StartTick, CrashWorker
    <3> QED BY <3>1 DEF IInv, TypeOK
  <2>5. ASSUME NEW v \in Workers, NEW u \in Tasks, TickDispatch(v, u) PROVE v = w
    BY <2>5 DEF TickDispatch, IInv, TypeOK
  <2> QED
    BY <2>1, <2>2, <2>3, <2>4, <2>5
       DEF Next, vars, CrashRequest, CreateHandoff, TaskAction, ReviewTask, Operate,
           RequestDispatch, RequestReply, FollowUpFallsDue, DeadlinePasses, DispatchMoves
<1>2. u = t
  BY <1>1 DEF TickDispatch, IInv, TypeOK
<1>3. Mirrored(w, t).status \in {"QUEUED", "REVISION"}
  BY <1>1, <1>2 DEF TickDispatch, Dispatchable
<1>4. RowOK(t)
  BY DEF CopyInv
<1> QED BY <1>3, <1>4, MirroredMoves DEF RowOK, IInv

(* A commit takes a key away only where the session has taken it away.      *)
LEMMA KeyNotTaken ==
    ASSUME NEW s \in TaskRows, NEW l \in TaskRows, NEW a \in TaskRows,
           a.key = l.key \/ a.key # 0, s.key # 0
    PROVE  /\ Store(s, l, a).key # 0
           /\ [Store(s, l, a) EXCEPT !.next = a.next].key # 0
<1>1. Store(s, l, a).key # 0
  BY StoreMoves
<1>2. Store(s, l, a) \in TaskRows
  BY StoreFacts
<1> QED BY <1>1, <1>2 DEF TaskRows

(* Only a command of an operator makes a row forget its dispatch.           *)
LEMMA ForgottenStep ==
    ASSUME IInv, CopyInv, [Next]_vars, NEW t \in Tasks, task[t].key # 0, task'[t].key = 0
    PROVE  ops' = ops + 1
<1>9. task' # task
  OBVIOUS
<1>0. task \in [Tasks -> TaskRows] /\ task[t] \in TaskRows
  BY DEF IInv, TypeOK
<1>1. ASSUME NEW w \in Workers, NEW u \in Tasks, TickTask(w, u) PROVE FALSE
  <2>1. PICK a \in TaskRows :
           /\ task' = [task EXCEPT ![u] = Store(task[u], tick[w].held[u], a)]
           /\ a.key = tick[w].held[u].key
    BY <1>1, TickTaskAssigns
  <2>2. tick[w].held[u] \in TaskRows
    BY DEF IInv, TypeOK
  <2>3. u = t /\ task'[t] = Store(task[t], tick[w].held[t], a)
    BY <1>0, <2>1
  <2> QED BY <1>0, <2>1, <2>2, <2>3, KeyNotTaken
<1>2. ASSUME NEW w \in Workers, NEW u \in Tasks, TickDispatch(w, u) PROVE FALSE
  <2>1. PICK m \in TaskRows : m = Mirrored(w, u)
    BY <1>2, MirroredFacts DEF TickDispatch, IInv
  <2>2. FreshKeys(u) # {}
    BY <1>2 DEF TickDispatch, Dispatchable
  <2>3. PICK a \in TaskRows : a = Dispatching(u, m) /\ a.key # 0
    BY <2>1, <2>2, DispatchingFacts, NewKeyFacts
  <2>4. task' = [task EXCEPT ![u] = [Store(task[u], tick[w].held[u], a) EXCEPT !.next = a.next]]
    BY <1>2, <2>1, <2>3 DEF TickDispatch, Commit, IInv, TypeOK
  <2>5. tick[w].held[u] \in TaskRows
    BY DEF IInv, TypeOK
  <2>6. u = t /\ task'[t] = [Store(task[t], tick[w].held[t], a) EXCEPT !.next = a.next]
    BY <1>0, <2>4
  <2> QED BY <1>0, <2>3, <2>5, <2>6, KeyNotTaken
<1>3. ASSUME NEW w \in Workers, NEW outcome \in Outcomes, TickReply(w, outcome) PROVE FALSE
  <2>1. PICK u \in Tasks : u = tick[w].at
    BY DEF IInv, TypeOK
  <2>2. PICK h \in TaskRows : h = tick[w].held[u]
    BY DEF IInv, TypeOK
  <2>3. PICK d \in TaskRows : d = Dispatched(u, h, outcome) /\ d.key = h.key
    BY DispatchedFacts, WorkMoves
  <2>4. PICK a \in TaskRows : a = FollowUpTask(d) /\ a.key = h.key
    BY <2>3, FollowUpFacts, WorkMoves
  <2>5. task' = [task EXCEPT ![u] = Store(task[u], h, a)]
    BY <1>3, <2>1, <2>2, <2>3, <2>4 DEF TickReply, Commit, IInv, TypeOK
  <2>6. u = t /\ task'[t] = Store(task[t], h, a)
    BY <1>0, <2>5
  <2> QED BY <1>0, <2>4, <2>6, KeyNotTaken
<1>4. ASSUME NEW o \in Operators, RequestDispatch(o) PROVE FALSE
  <2>1. PICK u \in Tasks : u = request[o].at
    BY DEF IInv, TypeOK
  <2>2. PICK h \in TaskRows : h = request[o].held
    BY DEF IInv, TypeOK
  <2>3. Dispatchable(u, h, FreshStatus)
    BY <1>4, <1>9, <2>1, <2>2 DEF RequestDispatch
  <2>4. PICK a \in TaskRows : a = Dispatching(u, h) /\ a.key # 0
    BY <2>3, DispatchingFacts, NewKeyFacts DEF Dispatchable
  <2>5. task' = [task EXCEPT ![u] = [Store(task[u], h, a) EXCEPT !.next = a.next]]
    BY <1>4, <2>1, <2>2, <2>3, <2>4 DEF RequestDispatch, Commit, IInv, TypeOK
  <2>6. u = t /\ task'[t] = [Store(task[t], h, a) EXCEPT !.next = a.next]
    BY <1>0, <2>5
  <2> QED BY <1>0, <2>4, <2>6, KeyNotTaken
<1>5. ASSUME NEW o \in Operators, NEW outcome \in Outcomes, RequestReply(o, outcome) PROVE FALSE
  <2>1. PICK u \in Tasks : u = request[o].at
    BY DEF IInv, TypeOK
  <2>2. PICK h \in TaskRows : h = request[o].held
    BY DEF IInv, TypeOK
  <2>3. PICK a \in TaskRows : a = Dispatched(u, h, outcome) /\ a.key = h.key
    BY DispatchedFacts, WorkMoves
  <2>4. task' = [task EXCEPT ![u] = Store(task[u], h, a)]
    BY <1>5, <2>1, <2>2, <2>3 DEF RequestReply, Commit, IInv, TypeOK
  <2>5. u = t /\ task'[t] = Store(task[t], h, a)
    BY <1>0, <2>4
  <2> QED BY <1>0, <2>3, <2>5, KeyNotTaken
<1>6. ASSUME NEW o \in Operators, NEW u \in Tasks, NEW auto \in BOOLEAN,
             CreateHandoff(o, u, auto)
      PROVE  FALSE
  <2>1. RowOK(u) /\ task[u].status = "ABSENT"
    BY <1>6 DEF CreateHandoff, CopyInv
  <2>2. u # t
    BY <2>1 DEF RowOK
  <2> QED BY <1>0, <1>6, <2>2 DEF CreateHandoff, StoreRow, Commit
<1>7. ASSUME NEW o \in Operators, NEW u \in Tasks, NEW h, Operate(o, u, h)
      PROVE  ops' = ops + 1
  BY <1>7 DEF Operate
<1>8. ASSUME NEW u \in Tasks, FollowUpFallsDue(u) \/ DeadlinePasses(u) PROVE FALSE
  BY <1>8, OutsideRows
<1> QED
  BY <1>1, <1>2, <1>3, <1>4, <1>5, <1>6, <1>7, <1>8, <1>9
     DEF Next, vars, StartTick, CrashWorker, CrashRequest, TaskAction, ReviewTask, DispatchMoves

(* Until an operator intervenes, a second run of a task under way is        *)
(* started only from a copy that is out of date; a tick that holds the row  *)
(* as it is stored never starts one while the row's dispatch says RUNNING   *)
(* or WAITING_APPROVAL; and only an operator's command makes a row forget   *)
(* its dispatch.                                                            *)
THEOREM SecondRunOnlySo == Spec => SecondRunOnlyFromStaleCopy
<1>1. IInv /\ CopyInv /\ [Next]_vars =>
         [ops = 0 => \A t \in Tasks : Live(t) /\ FreshKeys(t)' # FreshKeys(t) =>
             \/ \E w \in Workers : tick'[w].pc # tick[w].pc /\ tick[w].held[t] # task[t]
             \/ \E o \in Operators : request'[o].pc # request[o].pc /\ request[o].held # task[t]]_vars
  BY SecondRunStep
<1>2. IInv /\ CopyInv /\ [Next]_vars =>
         [\A w \in Workers, t \in Tasks :
             /\ tick[w].pc = "looping" /\ tick'[w].pc = "sending" /\ tick'[w].at = t
             /\ tick[w].held[t] = task[t]
             => task[t].key = 0 \/ disp[t][task[t].key] \notin {"RUNNING", "WAITING_APPROVAL"}]_vars
  BY MirrorFirstStep
<1>3. IInv /\ CopyInv /\ [Next]_vars =>
         [\A t \in Tasks : task[t].key # 0 /\ task'[t].key = 0 => ops' = ops + 1]_vars
  BY ForgottenStep
<1>4. Spec => [][Next]_vars
  BY DEF Spec
<1>5. QED
  BY <1>1, <1>2, <1>3, <1>4, Invariance, CopiesInvariance, PTL DEF SecondRunOnlyFromStaleCopy
==========================================================================
