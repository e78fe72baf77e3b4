---------------------------- MODULE SOPEngine ----------------------------
(***************************************************************************)
(* One run of a standard operating procedure (phase 10): a graph of task   *)
(* and approval nodes.  Every replica advances the run under a Redis lock; *)
(* operators decide nodes and cancel the run without it.  A node that      *)
(* fails makes the run roll back its completed nodes, deepest first.       *)
(*                                                                         *)
(* advance_run, decide_node and cancel_run load their rows, then commit    *)
(* what they changed of them: two actions each, so that others may commit  *)
(* in between.  The tasks of the nodes belong to the collaboration bus and *)
(* to the evaluator; here they move as they like.                          *)
(***************************************************************************)
EXTENDS Integers, FiniteSets

CONSTANTS
    Nodes,              \* the keys of the definition's nodes
    DependsOn,          \* depends_on of each node
    Level,              \* the layer of topological_order each node is in
    Approvals,          \* the nodes of type APPROVAL; the others are TASKs
    HasRollback,        \* the nodes with a rollback definition
    Verified,           \* the nodes with verification_required
    RollbackOnFailure,  \* rollback_on_failure of the definition
    Workers,            \* the replicas that run fair_sop_tick
    Operators,          \* the operator requests that may be in flight together
    MaxRollbacks,       \* bound: rollback rows per node
    MaxOps,             \* bound: decisions and cancellations
    MaxCrashes          \* bound: processes that die in a session

ASSUME ConstantsAssumption ==
    /\ Nodes # {}
    /\ DependsOn \in [Nodes -> SUBSET Nodes]
    /\ Level \in [Nodes -> Nat]
    /\ \A n \in Nodes :
          /\ DependsOn[n] = {} => Level[n] = 0
          /\ \A d \in DependsOn[n] : Level[d] < Level[n]
          /\ Level[n] > 0 => \E d \in DependsOn[n] : Level[n] = Level[d] + 1
    /\ Approvals \subseteq Nodes
    /\ HasRollback \subseteq Nodes
    /\ Verified \subseteq Nodes
    /\ RollbackOnFailure \in BOOLEAN
    /\ Workers \cap Operators = {}
    /\ MaxRollbacks \in Nat \ {0}
    /\ MaxOps \in Nat
    /\ MaxCrashes \in Nat

VARIABLES
    run,      \* sop_runs.status
    row,      \* sop_node_runs.status
    task,     \* the collaboration task of each row: status and verification
    lock,     \* sop-run-lock:<key> is set
    session,  \* the database sessions that have loaded and not committed
    done,     \* history: the nodes that have been COMPLETED at some time
    again,    \* history: the rows for which a second task was created
    ops, crashes

vars == <<run, row, task, lock, session, done, again, ops, crashes>>

Sessions == Workers \cup Operators

ActiveRunStatuses == {"PENDING", "RUNNING", "WAITING_APPROVAL", "ROLLING_BACK"}
EndedRunStatuses == {"COMPLETED", "FAILED", "CANCELLED"}
RunStatuses == ActiveRunStatuses \cup EndedRunStatuses
Live == {"RUNNING", "WAITING_APPROVAL"}
RowStatuses == Live \cup {"ABSENT", "PENDING", "COMPLETED", "FAILED", "CANCELLED", "ROLLED_BACK"}

(* <<n, 0>> is the row of node n, <<n, k>> that of its k-th rollback.       *)
Rows == Nodes \X (0..MaxRollbacks)
Own(n) == <<n, 0>>
RollbackRows == Nodes \X (1..MaxRollbacks)

(* FAILED stands for each of TASK_TERMINAL_FAILURE, REVIEW for REVIEW and   *)
(* WAITING_APPROVAL, OPEN for every other status of a task.                 *)
TaskStatuses == {"NONE", "OPEN", "REVIEW", "COMPLETED", "FAILED"}
Verdicts == {"NONE", "PASS", "WARN", "FAIL"}
NoTask == [status |-> "NONE", verdict |-> "NONE"]
NewTask == [status |-> "OPEN", verdict |-> "NONE"]

AnyRow == CHOOSE r \in Rows : TRUE
NoRows == [r \in Rows |-> "ABSENT"]
Idle == [pc |-> "idle", run |-> "PENDING", row |-> NoRows, at |-> AnyRow,
         approve |-> FALSE, task |-> "NONE"]

(* instantiate_run                                                          *)
Init ==
    /\ run = "PENDING"
    /\ row = [r \in Rows |-> IF r[2] = 0 THEN "PENDING" ELSE "ABSENT"]
    /\ task = [r \in Rows |-> NoTask]
    /\ lock = FALSE
    /\ session = [s \in Sessions |-> Idle]
    /\ done = {}
    /\ again = {}
    /\ ops = 0 /\ crashes = 0

--------------------------------------------------------------------------
(* A commit writes only what the session changed.                           *)
Flush(stored, loaded, assigned) == IF assigned = loaded THEN stored ELSE assigned

(* Every commit of rows also records which nodes have been completed.       *)
Commit(rows) ==
    /\ row' = rows
    /\ done' = done \cup {n \in Nodes : rows[Own(n)] = "COMPLETED"}

(* hardened_sync_task_node: the status of a live row, from its task; the    *)
(* verdict of the evaluation counts before the status of the task.          *)
SyncTaskNode(r) ==
    LET required == r[2] = 0 /\ r[1] \in Verified
        verdict == task[r].verdict
    IN IF required /\ verdict = "FAIL" THEN "FAILED"
       ELSE IF required /\ verdict = "WARN" THEN "WAITING_APPROVAL"
       ELSE CASE task[r].status = "COMPLETED" ->
                    IF required /\ verdict = "NONE" THEN "RUNNING"
                    ELSE IF r[2] = 0 THEN "COMPLETED" ELSE "ROLLED_BACK"
              [] task[r].status = "REVIEW" -> "WAITING_APPROVAL"
              [] task[r].status = "FAILED" -> "FAILED"
              [] OTHER -> "RUNNING"

(* What an advance makes of the run: its status, the rows of the session,   *)
(* and the rows for which it creates a task.                                *)
Result(status, rows, started) == [run |-> status, row |-> rows, started |-> started]

Compensable(rows) == {n \in HasRollback : rows[Own(n)] = "COMPLETED"}
RolledBack(rows) == {n \in Nodes : \E k \in 1..MaxRollbacks : rows[<<n, k>>] = "ROLLED_BACK"}
LiveRollbacks(rows) == {r \in RollbackRows : rows[r] \in Live}
Remaining(rows) == Compensable(rows) \ RolledBack(rows)

(* Mutant: rollbacks start with the nodes that were completed first.        *)
DeepestMutant(ns) == {n \in ns : \A m \in ns : Level[n] <= Level[m]}

(* The nodes that come first in reversed(topological_order), up to the      *)
(* alphabetical order inside a layer.                                       *)
Deepest(ns) == {n \in ns : \A m \in ns : Level[m] <= Level[n]}

(* The row that a new rollback of n gets.                                   *)
FreshRows(n) == {r \in RollbackRows : r[1] = n /\ row[r] = "ABSENT"}
NewRow(n) == CHOOSE r \in FreshRows(n) : TRUE

(* advance_rollback: wait for the rollback under way, or start the next     *)
(* one, or give up for good.                                                *)
AdvanceRollback(rows) ==
    IF LiveRollbacks(rows) # {}
    THEN {Result(IF SyncTaskNode(r) = "FAILED" THEN "FAILED" ELSE "ROLLING_BACK",
                 [rows EXCEPT ![r] = SyncTaskNode(r)], {}) : r \in LiveRollbacks(rows)}
    ELSE IF Remaining(rows) = {} THEN {Result("FAILED", rows, {})}
    ELSE {Result("ROLLING_BACK", [rows EXCEPT ![NewRow(n)] = "RUNNING"], {NewRow(n)}) :
             n \in {m \in Deepest(Remaining(rows)) : FreshRows(m) # {}}}

(* Mutant: a dependency that has failed will do.                            *)
DependenciesCompleteMutant(n, rows) ==
    \A d \in DependsOn[n] : rows[Own(d)] \in {"COMPLETED", "FAILED", "WAITING_APPROVAL"}

DependenciesComplete(n, rows) == \A d \in DependsOn[n] : rows[Own(d)] = "COMPLETED"

(* The nodes that depend on nothing unfinished are activated.               *)
Activate(rows) ==
    LET ready == {n \in Nodes : rows[Own(n)] = "PENDING" /\ DependenciesComplete(n, rows)}
        after == [r \in Rows |->
                    IF r[2] = 0 /\ r[1] \in ready
                    THEN IF r[1] \in Approvals THEN "WAITING_APPROVAL" ELSE "RUNNING"
                    ELSE rows[r]]
    IN Result(CASE \A n \in Nodes : after[Own(n)] = "COMPLETED" -> "COMPLETED"
                [] \E n \in Nodes : after[Own(n)] = "WAITING_APPROVAL" -> "WAITING_APPROVAL"
                [] OTHER -> "RUNNING",
              after, {Own(n) : n \in ready \ Approvals})

(* The rows of a session after it mirrored the tasks of the live nodes.     *)
Synced(rows) ==
    [r \in Rows |-> IF r[2] = 0 /\ r[1] \notin Approvals /\ rows[r] \in Live
                    THEN SyncTaskNode(r) ELSE rows[r]]

(* advance_run, from the copies h of the session.                           *)
AdvanceRun(h) ==
    LET rows == Synced(h.row) IN
    IF h.run = "ROLLING_BACK" THEN AdvanceRollback(h.row)
    ELSE IF \A n \in Nodes : rows[Own(n)] # "FAILED" THEN {Activate(rows)}
    ELSE IF RollbackOnFailure /\ Compensable(rows) # {} THEN AdvanceRollback(rows)
    ELSE {Result("FAILED", rows, {})}

--------------------------------------------------------------------------
Snapshot(status) == [Idle EXCEPT !.pc = "advancing", !.run = status, !.row = row]

(* Mutant: the lock is not looked at.                                       *)
BeginAdvanceMutant(s) ==
    /\ session[s].pc = "idle"
    /\ run \in ActiveRunStatuses
    /\ lock' = TRUE
    /\ session' = [session EXCEPT ![s] = Snapshot(run)]
    /\ UNCHANGED <<run, row, task, done, again, ops, crashes>>

(* The worker, or POST .../tick, takes the lock and loads the run.          *)
BeginAdvance(s) ==
    /\ session[s].pc = "idle"
    /\ ~lock
    /\ run \in ActiveRunStatuses
    /\ lock' = TRUE
    /\ session' = [session EXCEPT ![s] = Snapshot(run)]
    /\ UNCHANGED <<run, row, task, done, again, ops, crashes>>

(* The advance commits, and deletes the lock whoever holds it by now.       *)
FinishAdvance(s) ==
    LET h == session[s] IN
    /\ h.pc = "advancing"
    /\ \E result \in AdvanceRun(h) :
          /\ run' = Flush(run, h.run, result.run)
          /\ Commit([r \in Rows |-> Flush(row[r], h.row[r], result.row[r])])
          /\ task' = [r \in Rows |-> IF r \in result.started THEN NewTask ELSE task[r]]
          /\ again' = again \cup {r \in result.started : task[r] # NoTask}
    /\ lock' = FALSE
    /\ session' = [session EXCEPT ![s] = Idle]
    /\ UNCHANGED <<ops, crashes>>

--------------------------------------------------------------------------
(* POST .../nodes/{key}/decision: the run, the row and its task are loaded. *)
(* Only the status of the row is tested.  Of several rollback rows of one   *)
(* node the query returns any.                                              *)
BeginDecision(o, r, approve) ==
    /\ ops < MaxOps
    /\ session[o].pc = "idle"
    /\ row[r] = "WAITING_APPROVAL"
    /\ session' = [session EXCEPT ![o] =
                      [pc |-> "deciding", run |-> run, row |-> [NoRows EXCEPT ![r] = row[r]],
                       at |-> r, approve |-> approve, task |-> task[r].status]]
    /\ ops' = ops + 1
    /\ UNCHANGED <<run, row, task, lock, done, again, crashes>>

Decided(r, approve) ==
    IF ~approve THEN "FAILED" ELSE IF r[2] = 0 THEN "COMPLETED" ELSE "ROLLED_BACK"

(* decide_node commits; the run is RUNNING for its session.                 *)
FinishDecision(o) ==
    LET h == session[o] IN
    /\ h.pc = "deciding"
    /\ run' = Flush(run, h.run, "RUNNING")
    /\ Commit([row EXCEPT ![h.at] = Decided(h.at, h.approve)])
    /\ task' = IF h.task = "REVIEW"
               THEN [task EXCEPT ![h.at].status = IF h.approve THEN "COMPLETED" ELSE "FAILED"]
               ELSE task
    /\ session' = [session EXCEPT ![o] = [Idle EXCEPT !.pc = "decided", !.run = "RUNNING"]]
    /\ UNCHANGED <<lock, again, ops, crashes>>

(* The same request goes on to advance_run, unless the lock is taken: with  *)
(* the run it holds, and with rows it loads again.                          *)
AdvanceDecided(o) ==
    /\ session[o].pc = "decided"
    /\ lock' = TRUE
    /\ session' = [session EXCEPT ![o] = IF lock THEN Idle ELSE Snapshot("RUNNING")]
    /\ UNCHANGED <<run, row, task, done, again, ops, crashes>>

(* Mutant: a run that has ended can be cancelled.                           *)
BeginCancelMutant(o) ==
    /\ ops < MaxOps
    /\ session[o].pc = "idle"
    /\ session' = [session EXCEPT ![o] = [Idle EXCEPT !.pc = "cancelling", !.run = run, !.row = row]]
    /\ ops' = ops + 1
    /\ UNCHANGED <<run, row, task, lock, done, again, crashes>>

(* POST .../cancel                                                          *)
BeginCancel(o) ==
    /\ ops < MaxOps
    /\ session[o].pc = "idle"
    /\ run \in ActiveRunStatuses
    /\ session' = [session EXCEPT ![o] = [Idle EXCEPT !.pc = "cancelling", !.run = run, !.row = row]]
    /\ ops' = ops + 1
    /\ UNCHANGED <<run, row, task, lock, done, again, crashes>>

(* cancel_run commits: waiting and running nodes are only told.             *)
FinishCancel(o) ==
    LET h == session[o] IN
    /\ h.pc = "cancelling"
    /\ run' = "CANCELLED"
    /\ Commit([r \in Rows |-> IF h.row[r] = "PENDING" THEN "CANCELLED" ELSE row[r]])
    /\ session' = [session EXCEPT ![o] = Idle]
    /\ UNCHANGED <<task, lock, again, ops, crashes>>

--------------------------------------------------------------------------
(* The task of any other row is never read again, nor is the verdict on a   *)
(* task that needs no verification.                                         *)
Watched(r) == row[r] \in Live \/ \E s \in Sessions : session[s].row[r] \in Live

(* External: the bus, its operators and the evaluator work on a task.       *)
TaskMoves(r) ==
    /\ Watched(r)
    /\ task[r].status # "NONE"
    /\ \/ \E status \in TaskStatuses \ {"NONE", task[r].status} :
             task' = [task EXCEPT ![r].status = status]
       \/ /\ r[2] = 0 /\ r[1] \in Verified
          /\ task[r].status \in {"COMPLETED", "REVIEW"}
          /\ \E verdict \in Verdicts \ {"NONE", task[r].verdict} :
                task' = [task EXCEPT ![r].verdict = verdict]
    /\ UNCHANGED <<run, row, lock, session, done, again, ops, crashes>>

(* The process of a session dies; its lock stays.                           *)
Crash(s) ==
    /\ crashes < MaxCrashes
    /\ session[s].pc # "idle"
    /\ session' = [session EXCEPT ![s] = Idle]
    /\ crashes' = crashes + 1
    /\ UNCHANGED <<run, row, task, lock, done, again, ops>>

Advancing(s) == session[s].pc = "advancing"

(* Mutant: the lock is set without an expiry.                               *)
LockExpiresMutant == FALSE /\ UNCHANGED vars

(* A lock that was left by a crash runs out after 30 s.  An advance is a    *)
(* few statements and ends before its lock does.                            *)
LockExpires ==
    /\ lock
    /\ \A s \in Sessions : ~Advancing(s)
    /\ lock' = FALSE
    /\ UNCHANGED <<run, row, task, session, done, again, ops, crashes>>

--------------------------------------------------------------------------
Next ==
    \/ \E s \in Sessions : BeginAdvance(s) \/ FinishAdvance(s) \/ Crash(s)
    \/ \E o \in Operators, r \in Rows, approve \in BOOLEAN : BeginDecision(o, r, approve)
    \/ \E o \in Operators : FinishDecision(o) \/ AdvanceDecided(o) \/ BeginCancel(o) \/ FinishCancel(o)
    \/ \E r \in Rows : TaskMoves(r)
    \/ LockExpires

Spec == Init /\ [][Next]_vars

(***************************************************************************)
(* Fairness: the worker of every replica scans for ever, a session that    *)
(* has loaded its rows commits, a lock runs out.  Tasks and operators owe  *)
(* nothing.                                                                *)
(***************************************************************************)
Fairness ==
    /\ \A w \in Workers : WF_vars(BeginAdvance(w))
    /\ \A s \in Sessions : WF_vars(FinishAdvance(s))
    /\ \A o \in Operators :
          WF_vars(FinishDecision(o)) /\ WF_vars(AdvanceDecided(o)) /\ WF_vars(FinishCancel(o))
    /\ WF_vars(LockExpires)

FairSpec == Spec /\ Fairness

--------------------------------------------------------------------------
(* Every variable keeps its type.                                           *)
TypeOK ==
    /\ run \in RunStatuses
    /\ row \in [Rows -> RowStatuses]
    /\ task \in [Rows -> [status : TaskStatuses, verdict : Verdicts]]
    /\ lock \in BOOLEAN
    /\ session \in [Sessions ->
          [pc : {"idle", "advancing", "deciding", "decided", "cancelling"}, run : RunStatuses,
           row : [Rows -> RowStatuses], at : Rows, approve : BOOLEAN, task : TaskStatuses]]
    /\ done \in SUBSET Nodes
    /\ again \in SUBSET Rows
    /\ ops \in 0..MaxOps
    /\ crashes \in 0..MaxCrashes

(* The graph is honoured: a node is started only after every node it        *)
(* depends on has been completed, whatever stale rows advance_run acts on   *)
(* and whatever operators decide or cancel meanwhile.                       *)
GraphIsHonoured ==
    \A n \in Nodes : row[Own(n)] \notin {"PENDING", "CANCELLED"} => DependsOn[n] \subseteq done

(* advance_run completes a run only when every node was completed.          *)
CompletedRunIsDone == run = "COMPLETED" => Nodes \subseteq done

(* The lock of advance_run: no node and no rollback gets a second task,     *)
(* whatever is decided and cancelled beside it and whoever crashes.         *)
NoSecondTask == again = {}

(* One node is rolled back at a time.                                       *)
OneRollbackAtATime == \A r, q \in LiveRollbacks(row) : r = q

(* Compensation goes backwards: when the rollback of a node starts, every   *)
(* completed node in a deeper layer that has a rollback was rolled back,    *)
(* unless it was decided in a way that this advance has not seen.           *)
CompensationGoesBackwards ==
    [][\A r \in RollbackRows : row[r] = "ABSENT" /\ row'[r] # "ABSENT" =>
          \A n \in Compensable(row) \ RolledBack(row) : Level[n] > Level[r[1]] =>
              \E s \in Sessions : Advancing(s) /\ session'[s].pc = "idle"
                                  /\ \E k \in 0..MaxRollbacks :
                                        session[s].row[<<n, k>>] # row[<<n, k>>]]_vars

(* A run that has ended is reopened only by a decision on one of its nodes, *)
(* or by an advance that had loaded the run before it ended.                *)
ReopenedOnlyByDecisionOrStaleCopy ==
    [][run' # run /\ run \in EndedRunStatuses =>
          \E s \in Sessions :
              /\ session'[s] # session[s]
              /\ session[s].pc \in {"deciding", "advancing", "cancelling"}
              /\ (session[s].pc = "deciding" \/ session[s].run # run)]_vars

(* The run moves on: an active run in which nobody works and nobody has to  *)
(* decide starts something or ends, through crashes that leave the lock.    *)
(* Runs with cancelled nodes are excepted: a decision on a waiting node     *)
(* sets a cancelled run back to RUNNING, and there it stays.                *)
Stalled ==
    /\ run \in ActiveRunStatuses
    /\ \A r \in Rows : row[r] \notin Live \cup {"CANCELLED"}

RunMovesOn == Stalled ~> ~Stalled
==========================================================================
