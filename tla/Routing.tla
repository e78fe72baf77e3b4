--------------------------- MODULE Routing ---------------------------
(***************************************************************************)
(* The scheduler (phase 8) on the agents of the registry: routing of tasks *)
(* addressed to agent:auto, back-off, failover and the operators' reroute. *)
(*                                                                         *)
(* Ticks, dispatches and reroutes are database sessions: they load rows    *)
(* first and decide and commit on those copies later.  The Redis lock of a *)
(* task is released before the commit and so orders no two sessions; calls *)
(* that meet it held return without effect and are left out.              *)
(*                                                                         *)
(* The weighted score is left out: any eligible agent may be selected, and *)
(* none when all score below the minimum.  Dependencies, follow-ups and    *)
(* reviews belong to CollaborationBus.                                     *)
(***************************************************************************)
EXTENDS Registry, Sequences

CONSTANTS
    Tasks,             \* collaboration tasks made by create_routed_task
    Sessions,          \* database sessions of workers and requests
    Runtimes,
    RuntimeOf,         \* preferred_runtime_key of each agent
    Configured,        \* runtimes with a base_url
    Slots,             \* capacity limit of each runtime
    Suitable,          \* agents with the skills, clearance and cost for a task
    Overflow,          \* tasks with allow_overflow
    Scenarios,         \* the tasks and patches an instance starts with
    MaxRouteAttempts,
    MaxFailovers,
    MaxMoves           \* bound: commands of operators and crashes

ASSUME RoutingAssumption ==
    /\ IsFiniteSet(Tasks)
    /\ None \notin Runtimes
    /\ "auto" \notin Agents
    /\ RuntimeOf \in [Agents -> Runtimes]
    /\ Configured \subseteq Runtimes
    /\ Slots \in [Runtimes -> Nat \ {0}]
    /\ Suitable \in [Tasks -> SUBSET Agents]
    /\ Overflow \subseteq Tasks
    /\ Scenarios \subseteq [tasks : SUBSET Tasks, patches : SUBSET Patches,
                      agents : SUBSET Agents, delegates : SUBSET Agents,
                      sessions : SUBSET Sessions, moves : 0..MaxMoves, beats : 0..MaxBeats]
    /\ MaxRouteAttempts \in Nat \ {0}
    /\ MaxFailovers \in Nat \ {0}
    /\ MaxMoves \in Nat

VARIABLES
    task,      \* collaboration_tasks
    active,    \* the agents at which a dispatch of the task is active
    session,   \* the open sessions
    failed,    \* the agents a task was failed over from, in order
    stale,     \* tasks on whose row a session wrote over somebody else's commit
    moves

schedulerVars == <<task, active, session, failed, stale, moves>>
routingVars == <<registryVars, schedulerVars>>

(* Statuses that the scheduler treats alike are one: REVISION is QUEUED,   *)
(* REVIEW is RUNNING, ESCALATED is BLOCKED, and what has ended, COMPLETED. *)
TaskStatuses == {"ABSENT", "QUEUED", "DISPATCHING", "RUNNING", "WAITING_APPROVAL", "BLOCKED", "COMPLETED"}
Busy == {"DISPATCHING", "RUNNING", "WAITING_APPROVAL"}
(* WAITING_APPROVAL is not among the statuses that count as workload.      *)
ActiveTaskStatuses == {"QUEUED", "DISPATCHING", "RUNNING", "BLOCKED"}

Contexts ==
    [status : {"QUEUED", "SELECTED", "WAITING", "NO_ROUTE"}, selected : Agents \cup {None},
     attempts : 0..MaxRouteAttempts, failovers : 0..MaxFailovers, force : BOOLEAN, wait : BOOLEAN,
     agents : SUBSET Agents, runtimes : SUBSET Runtimes]
TaskRows == [status : TaskStatuses, target : Agents \cup {"auto"}, key : BOOLEAN, context : Contexts]
NoTask == [status |-> "ABSENT", target |-> "auto", key |-> FALSE,
           context |-> [status |-> "QUEUED", selected |-> None, attempts |-> 0, failovers |-> 0,
                        force |-> FALSE, wait |-> FALSE, agents |-> {}, runtimes |-> {}]]

Closed == [pc |-> "closed", rows |-> <<>>, agents |-> <<>>, late |-> {}, behind |-> FALSE]

Present == {t \in Tasks : task[t].status # "ABSENT"}
Workload(a) == Cardinality({t \in Tasks : task[t].target = a /\ task[t].status \in ActiveTaskStatuses})
SlotsOf(r) ==
    Slots[r] - Cardinality({d \in Tasks \X Agents : d[2] \in active[d[1]] /\ RuntimeOf[d[2]] = r})

RoutingInit ==
    /\ RegistryInit
    /\ \E s \in Scenarios :
          /\ {a \in Agents : agent[a].status = "ACTIVE"} = s.agents
          /\ {q \in Patches : patch[q].pc = "new"} = s.patches
          /\ {a \in Agents : delegation[a] = "NONE"} = s.delegates
          /\ moves = MaxMoves - s.moves
          /\ beats = MaxBeats - s.beats
          /\ session = [r \in Sessions |-> [Closed EXCEPT !.pc = IF r \in s.sessions THEN "closed" ELSE "unused"]]
          /\ task = [t \in Tasks |-> IF t \in s.tasks THEN [NoTask EXCEPT !.status = "QUEUED"] ELSE NoTask]
    /\ active = [t \in Tasks |-> {}]
    /\ failed = [t \in Tasks |-> <<>>]
    /\ stale = {}

-----------------------------------------------------------------------------
NeedsRoute(row) ==
    row.target = "auto" \/ row.context.force \/ row.context.status # "SELECTED"

(* The hard filters of score_candidates, on the session's copies of task   *)
(* and agents; the running dispatches are counted afresh.                  *)
Eligible(t, row, agents) ==
    {a \in Suitable[t] :
        /\ agents[a].status = "ACTIVE"
        /\ agents[a].availability \notin {"OFFLINE", "MAINTENANCE"}
        /\ a \notin row.context.agents
        /\ RuntimeOf[a] \in Configured \ row.context.runtimes
        /\ t \in Overflow \/ (SlotsOf(RuntimeOf[a]) > 0 /\ agents[a].workload < Capacity[a])}

(* Attempts are only ever compared with the maximum.                       *)
Raised(n) == IF n < MaxRouteAttempts THEN n + 1 ELSE n

(* The row route_task makes without a candidate, and with one.             *)
Unrouted(row) ==
    LET over == row.context.attempts + 1 >= MaxRouteAttempts IN
    [row EXCEPT !.status = IF over THEN "BLOCKED" ELSE row.status,
                !.context.status = IF over THEN "NO_ROUTE" ELSE "WAITING",
                !.context.attempts = Raised(row.context.attempts),
                !.context.selected = None, !.context.force = FALSE, !.context.wait = TRUE]

Selected(row, a) ==
    [row EXCEPT !.target = a, !.context.status = "SELECTED", !.context.selected = a,
                !.context.attempts = Raised(row.context.attempts),
                !.context.force = FALSE, !.context.wait = FALSE]

Routed(row, a) == IF a = None THEN Unrouted(row) ELSE Selected(row, a)

Excluding(row) ==
    LET a == row.context.selected IN
    IF a = None THEN row
    ELSE [row EXCEPT !.context.agents = row.context.agents \cup {a},
                     !.context.runtimes = row.context.runtimes \cup {RuntimeOf[a]}]

(* Mutant: what failed is not excluded.                                    *)
FailedOverMutant(row) ==
    [row EXCEPT !.status = "QUEUED", !.target = "auto", !.key = FALSE,
                !.context.status = "WAITING", !.context.failovers = row.context.failovers + 1,
                !.context.selected = None, !.context.force = TRUE, !.context.wait = FALSE]

(* prepare_failover                                                        *)
FailedOver(row) ==
    [Excluding(row) EXCEPT
        !.status = "QUEUED", !.target = "auto", !.key = FALSE,
        !.context.status = "WAITING", !.context.failovers = row.context.failovers + 1,
        !.context.selected = None, !.context.force = TRUE, !.context.wait = FALSE]

(* What POST .../route makes of the row before it routes it.               *)
Requeued(row) ==
    [Excluding(row) EXCEPT !.status = "QUEUED", !.target = "auto", !.key = FALSE,
                           !.context.status = "WAITING", !.context.force = TRUE,
                           !.context.wait = FALSE]

-----------------------------------------------------------------------------
Only(t, value) == [u \in {t} |-> value]

Stored(t, loaded, assigned) ==
    [c \in DOMAIN assigned |-> Flushed(task[t][c], loaded[c], assigned[c])]

(* Of the tasks of f those that had no agent; for the others route_task    *)
(* raises nobody's workload.                                               *)
FromAuto(rows, f) == [t \in {t \in DOMAIN f : rows[t].target = "auto"} |-> f[t]]

(* Agents as a session stores them that assigned the tasks of f, an agent  *)
(* or None for each.                                                       *)
Assigned(s, f) ==
    [a \in Agents |->
        LET copy == session[s].agents[a]
            n == Cardinality({t \in DOMAIN f : f[t] = a})
        IN IF n = 0 THEN agent[a]
           ELSE [agent[a] EXCEPT !.workload = copy.workload + n,
                                 !.availability = Flushed(@, copy.availability, "BUSY")]]

(* The other sessions' copies of the rows in S are out of date from now on.*)
Outdate(next, S) ==
    [r \in Sessions |-> [next[r] EXCEPT !.late = next[r].late \cup (S \cap DOMAIN next[r].rows),
                                        !.behind = next[r].pc \notin {"closed", "unused"}]]

(* Session s commits the rows made of its copies, and goes on as next.     *)
Commit(s, made, f, next) ==
    /\ task' = [t \in Tasks |-> IF t \in DOMAIN made
                                THEN Stored(t, session[s].rows[t], made[t]) ELSE task[t]]
    /\ agent' = Assigned(s, f)
    /\ stale' = stale \cup (DOMAIN made \cap session[s].late)
    /\ session' = [Outdate(session, DOMAIN made) EXCEPT ![s] = next]
    /\ UNCHANGED <<patch, delegation, beats, raced>>

Open(s, pc, S, agents) ==
    session' = [session EXCEPT ![s] = [pc |-> pc, rows |-> [t \in S |-> task[t]],
                                       agents |-> agents, late |-> {}, behind |-> FALSE]]

(* reconcile_workloads, with the heartbeats of the agents in late overdue. *)
Reconciliation(late) ==
    [a \in Agents |-> IF a \in Registered THEN Reconciled(a, Workload(a), a \in late) ELSE agent[a]]

(* scheduler_tick commits the reconciliation before it loads its batch; the*)
(* agents stay in the session as they were left.                           *)
TickLoad(s) ==
    /\ session[s].pc = "closed"
    /\ LET batch == {t \in Tasks : task[t].status = "QUEUED"} IN
       \E late \in SUBSET HeartbeatRequired :
          /\ IF late = {} THEN UNCHANGED beats ELSE beats < MaxBeats /\ beats' = beats + 1
          /\ agent' = Reconciliation(late)
          /\ IF batch = {} THEN UNCHANGED session
             ELSE Open(s, "tick", batch, Reconciliation(late))
    /\ delegation' = ExpireDelegations
    /\ UNCHANGED <<patch, raced, task, active, failed, stale, moves>>

(* Mutant: the agents assigned in a batch are not counted.                 *)
FitsMutant(s, f) == TRUE

(* In a batch each assignment raises the workload the next one sees.       *)
Fits(s, f) ==
    \A a \in Agents :
        LET taken == {t \in DOMAIN f \ Overflow : f[t] = a} IN
        taken # {} => session[s].agents[a].workload + Cardinality(taken) <= Capacity[a]

TickCommit(s) ==
    LET rows == session[s].rows
        batch == {t \in DOMAIN rows : NeedsRoute(rows[t]) /\ ~rows[t].context.wait}
    IN
    /\ session[s].pc = "tick"
    /\ \E f \in [batch -> Agents \cup {None}] :
          /\ \A t \in batch : f[t] \in Eligible(t, rows[t], session[s].agents) \cup {None}
          /\ Fits(s, FromAuto(rows, f))
          /\ Commit(s, [t \in batch |-> Routed(rows[t], f[t])], FromAuto(rows, f), Closed)
    /\ UNCHANGED <<active, failed, moves>>

(* dispatch_task as the bus and the requests call it (routed_dispatch_task)*)
DispatchLoad(s, t) ==
    /\ session[s].pc = "closed"
    /\ task[t].status = "QUEUED"
    /\ Open(s, "dispatch", {t}, agent)
    /\ UNCHANGED <<registryVars, task, active, failed, stale, moves>>

(* The task is routed if need be, and sent if it has an agent; until the   *)
(* answer arrives the session keeps the row as it committed it.            *)
DispatchCommit(s, t) ==
    LET row == session[s].rows[t]
        sent(made) == [Closed EXCEPT !.pc = "sent", !.rows = Only(t, made)]
        sending(r) == [r EXCEPT !.status = "DISPATCHING", !.key = TRUE]
    IN
    /\ session[s].pc = "dispatch" /\ t \in DOMAIN session[s].rows
    /\ \/ /\ ~NeedsRoute(row)
          /\ Commit(s, Only(t, sending(row)), <<>>, sent(sending(row)))
          /\ active' = [active EXCEPT ![t] = @ \cup {row.target}]
       \/ /\ NeedsRoute(row) /\ row.context.wait
          /\ session' = [session EXCEPT ![s] = Closed]
          /\ UNCHANGED <<registryVars, task, active, stale>>
       \/ /\ NeedsRoute(row) /\ ~row.context.wait
          /\ Commit(s, Only(t, Unrouted(row)), <<>>, Closed)
          /\ UNCHANGED active
       \/ /\ NeedsRoute(row) /\ ~row.context.wait
          /\ \E a \in Eligible(t, row, session[s].agents) :
                LET made == sending(Selected(row, a)) IN
                /\ Commit(s, Only(t, made), FromAuto(session[s].rows, Only(t, a)), sent(made))
                /\ active' = [active EXCEPT ![t] = @ \cup {a}]
    /\ UNCHANGED <<failed, moves>>

(* The runtime has taken the work.                                         *)
DispatchAccepted(s, t) ==
    LET row == session[s].rows[t] IN
    /\ session[s].pc = "sent" /\ t \in DOMAIN session[s].rows
    /\ Commit(s, Only(t, [row EXCEPT !.status = "RUNNING"]), <<>>, Closed)
    /\ UNCHANGED <<active, failed, moves>>

MayFailOver(row) == row.context.failovers < MaxFailovers

(* The dispatch failed: the task is failed over, or stays BLOCKED.         *)
DispatchRefused(s, t) ==
    LET row == session[s].rows[t]
        fails == MayFailOver(row)
    IN
    /\ session[s].pc = "sent" /\ t \in DOMAIN session[s].rows
    /\ Commit(s, Only(t, IF fails THEN FailedOver(row) ELSE [row EXCEPT !.status = "BLOCKED"]),
              <<>>, Closed)
    /\ active' = [active EXCEPT ![t] = @ \ {row.target}]
    /\ failed' = IF fails THEN [failed EXCEPT ![t] = Append(@, row.context.selected)] ELSE failed
    /\ UNCHANGED moves

(* POST /api/scheduler/tasks/{task_key}/route (safe_reroute_task).         *)
RerouteLoad(s, t) ==
    /\ session[s].pc = "closed"
    /\ moves < MaxMoves /\ moves' = moves + 1
    /\ task[t].status \in {"QUEUED", "BLOCKED"}
    /\ Open(s, "reroute", {t}, agent)
    /\ UNCHANGED <<registryVars, task, active, failed, stale>>

RerouteCommit(s, t) ==
    LET row == Requeued(session[s].rows[t]) IN
    /\ session[s].pc = "reroute" /\ t \in DOMAIN session[s].rows
    /\ \E a \in Eligible(t, row, session[s].agents) \cup {None} :
          Commit(s, Only(t, Routed(row, a)), Only(t, a), Closed)
    /\ UNCHANGED <<active, failed, moves>>

-----------------------------------------------------------------------------
(* next_route_at has passed.                                               *)
RetryFallsDue(t) ==
    /\ task[t].context.wait
    /\ task' = [task EXCEPT ![t].context.wait = FALSE]
    /\ UNCHANGED <<registryVars, active, session, failed, stale, moves>>

(* A run comes to its end at the runtime; the bus mirrors the end of the   *)
(* task's own dispatch.                                                    *)
RunEnds(t, a) ==
    /\ a \in active[t]
    /\ active' = [active EXCEPT ![t] = @ \ {a}]
    /\ IF task[t].key /\ task[t].target = a /\ task[t].status # "DISPATCHING"
       THEN /\ task' = [task EXCEPT ![t].status = "COMPLETED"]
            /\ session' = Outdate(session, {t})
       ELSE UNCHANGED <<task, session>>
    /\ UNCHANGED <<registryVars, failed, stale, moves>>

(* The other ways in which the bus changes a status: the watchdog, and the *)
(* operators' commands.                                                    *)
BusMoves(t) ==
    /\ moves < MaxMoves /\ moves' = moves + 1
    /\ task[t].status # "ABSENT"
    /\ \E status \in (IF task[t].status \in {"DISPATCHING", "RUNNING"}
                      THEN {"WAITING_APPROVAL"} ELSE {})
                     \cup {"QUEUED", "BLOCKED", "COMPLETED"},
          key \in {task[t].key, FALSE} :
          /\ key = task[t].key \/ status = "QUEUED"
          /\ task' = [task EXCEPT ![t].status = status, ![t].key = key]
    /\ session' = Outdate(session, {t})
    /\ UNCHANGED <<registryVars, active, failed, stale>>

Crash(s) ==
    /\ moves < MaxMoves /\ moves' = moves + 1
    /\ session[s].pc \notin {"closed", "unused"}
    /\ session' = [session EXCEPT ![s] = Closed]
    /\ UNCHANGED <<registryVars, task, active, failed, stale>>

Answer(s) == \E t \in Tasks : DispatchCommit(s, t) \/ DispatchAccepted(s, t) \/ DispatchRefused(s, t)

RoutingNext ==
    \/ \E s \in Sessions : TickLoad(s) \/ TickCommit(s) \/ Answer(s) \/ Crash(s)
    \/ \E s \in Sessions, t \in Tasks : DispatchLoad(s, t) \/ RerouteLoad(s, t) \/ RerouteCommit(s, t)
    \/ \E t \in Tasks : RetryFallsDue(t) \/ BusMoves(t) \/ \E a \in Agents : RunEnds(t, a)
    \/ Administer /\ session' = Outdate(session, {}) /\ UNCHANGED <<task, active, failed, stale, moves>>

RoutingSpec == RoutingInit /\ [][RoutingNext]_routingVars

-----------------------------------------------------------------------------
(* Types.  Who dispatches a task has written its agent down, unless an old  *)
(* copy was written over the row since.                                    *)
RoutingTypeOK ==
    /\ agent \in [Agents -> AgentRows]
    /\ task \in [Tasks -> TaskRows]
    /\ active \in [Tasks -> SUBSET Agents]
    /\ \A t \in Tasks \ stale : task[t].key => task[t].target \in Agents
    /\ \A s \in Sessions :
          /\ session[s].pc \in {"unused", "closed", "tick", "dispatch", "reroute", "sent"}
          /\ session[s].late \subseteq DOMAIN session[s].rows

(* A failover goes elsewhere, and there are at most FAILOVER_ATTEMPTS of   *)
(* them, however the failures are spread over sessions: a task goes back   *)
(* to an agent or runtime it was failed over from, or a failover is not    *)
(* counted, only when a session overwrote the exclusions and counters with *)
(* the context it had loaded (scheduler_service.py:553, :583).             *)
FailoverGoesElsewhere ==
    \A t \in Tasks \ stale :
        /\ Len(failed[t]) <= MaxFailovers
        /\ \A i \in DOMAIN failed[t] :
              task[t].target # "auto" => RuntimeOf[task[t].target] # RuntimeOf[failed[t][i]]

(* A batch does not overbook an agent: with nothing else committed between *)
(* its reconciliation and its commit, an agent that is given only tasks    *)
(* that had no agent and may not overflow is given no more than it can     *)
(* take (scheduler_service.py:473).                                        *)
BatchFitsCapacity ==
    [][\A s \in Sessions, a \in Agents :
          LET given == {t \in Tasks : task[t].target # a /\ task'[t].target = a} IN
          /\ session[s].pc = "tick" /\ session'[s].pc = "closed" /\ ~session[s].behind
          /\ given # {} /\ \A t \in given : t \notin Overflow /\ task[t].target = "auto"
          => Workload(a)' <= Capacity[a]]_routingVars

(* Unless two patches crossed, managers form a hierarchy, and an agent     *)
(* that was suspended or retired has no active identity (phase7_app.py:92, *)
(* :282).                                                                  *)
RegistryIsConsistent ==
    ~raced => \A a \in Agents :
        /\ a \notin Above(a, Cardinality(Agents))
        /\ agent[a].identity = "ACTIVE" => agent[a].status = "ACTIVE"
==========================================================================
