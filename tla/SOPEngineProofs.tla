-------------------------- MODULE SOPEngineProofs --------------------------
(***************************************************************************)
(* Proofs about SOPEngine, for every graph, every set of replicas and      *)
(* operator requests and every bound: the type invariant, the order of the *)
(* graph, and the exclusion that the lock of advance_run gives.            *)
(***************************************************************************)
EXTENDS SOPEngine, TLAPS

USE DEF Live

StoredDone == \A n \in Nodes : row[Own(n)] = "COMPLETED" => n \in done

HeldDone ==
    \A s \in Sessions, n \in Nodes : session[s].row[Own(n)] = "COMPLETED" => n \in done

HeldStarted ==
    \A s \in Sessions, n \in Nodes :
        session[s].row[Own(n)] \in Live => DependsOn[n] \subseteq done

DecidesLive ==
    \A s \in Sessions : session[s].pc = "deciding" =>
        /\ session[s].row[session[s].at] \in Live
        /\ session[s].task # "NONE" => task[session[s].at].status # "NONE"

Untasked == \A r \in Rows : row[r] \in {"PENDING", "ABSENT"} => task[r] = NoTask

HeldUntasked ==
    \A s \in Sessions : Advancing(s) =>
        \A r \in Rows : session[s].row[r] = "PENDING" => task[r] = NoTask

HeldRowsExist ==
    \A s \in Sessions, r \in Rows : session[s].row[r] # "ABSENT" => row[r] # "ABSENT"

LockHeld ==
    \A s \in Sessions : Advancing(s) => lock /\ \A q \in Sessions : Advancing(q) => q = s

HeldOneRollback ==
    \A s \in Sessions : Advancing(s) =>
        /\ LiveRollbacks(row) \subseteq LiveRollbacks(session[s].row)
        /\ \A r, q \in LiveRollbacks(session[s].row) : r = q

(* What is stored and held of the graph ...                                 *)
GraphInv ==
    /\ StoredDone
    /\ HeldDone
    /\ HeldStarted
    /\ DecidesLive
    /\ GraphIsHonoured
    /\ CompletedRunIsDone

(* ... and what the lock protects.                                          *)
LockInv ==
    /\ Untasked
    /\ HeldUntasked
    /\ HeldRowsExist
    /\ LockHeld
    /\ HeldOneRollback
    /\ NoSecondTask
    /\ OneRollbackAtATime

IInv == TypeOK /\ GraphInv /\ LockInv

SessionType ==
    [pc : {"idle", "advancing", "deciding", "decided", "cancelling"}, run : RunStatuses,
     row : [Rows -> RowStatuses], at : Rows, approve : BOOLEAN, task : TaskStatuses]

--------------------------------------------------------------------------
(* A row is the row of a node or a rollback row, never both.                *)
LEMMA RowFacts ==
    /\ \A n \in Nodes : Own(n) \in Rows /\ Own(n) \notin RollbackRows /\ Own(n)[1] = n /\ Own(n)[2] = 0
    /\ \A r \in Rows : r \in RollbackRows \/ (r[1] \in Nodes /\ r[2] = 0 /\ r = Own(r[1]))
    /\ \A r \in RollbackRows : r \in Rows /\ r[2] # 0
<1>1. MaxRollbacks \in Nat \ {0}
  BY ConstantsAssumption
<1>2. \A n \in Nodes : Own(n) \in Rows /\ Own(n)[1] = n /\ Own(n)[2] = 0
  BY <1>1 DEF Own, Rows
<1>3. \A r \in RollbackRows : r \in Rows /\ r[2] # 0
  BY <1>1 DEF RollbackRows, Rows
<1>4. \A r \in Rows : r \in RollbackRows \/ (r[1] \in Nodes /\ r[2] = 0 /\ r = Own(r[1]))
  BY <1>1 DEF RollbackRows, Rows, Own
<1>5. QED
  BY <1>2, <1>3, <1>4

(* An idle session has the type of a session and holds no row.              *)
LEMMA IdleType ==
    /\ Idle \in SessionType
    /\ Idle.pc = "idle"
    /\ \A r \in Rows : Idle.row[r] = "ABSENT"
<1>1. PICK n \in Nodes : TRUE
  BY ConstantsAssumption
<1>2. Own(n) \in Rows
  BY RowFacts
<1>3. AnyRow \in Rows
  BY <1>2 DEF AnyRow
<1>4. NoRows \in [Rows -> RowStatuses]
  BY DEF NoRows, RowStatuses
<1>5. QED
  BY <1>3, <1>4 DEF Idle, SessionType, NoRows, RunStatuses, ActiveRunStatuses, TaskStatuses

(* sync_task_node sets a status that no unstarted row has.                  *)
LEMMA SyncTaskNodeType ==
    ASSUME NEW r \in Rows
    PROVE  SyncTaskNode(r) \in RowStatuses \ {"PENDING", "ABSENT", "CANCELLED"}
BY DEF SyncTaskNode, RowStatuses

(* Mirroring the tasks changes live rows of nodes only.                     *)
LEMMA SyncedFacts ==
    ASSUME NEW rows \in [Rows -> RowStatuses]
    PROVE  /\ Synced(rows) \in [Rows -> RowStatuses]
           /\ \A r \in Rows : Synced(rows)[r] # rows[r] =>
                 /\ rows[r] \in Live
                 /\ r \notin RollbackRows
                 /\ Synced(rows)[r] \notin {"PENDING", "ABSENT"}
BY SyncTaskNodeType, RowFacts DEF Synced

(* advance_rollback leaves the rows alone, or follows a live rollback, or   *)
(* starts one in a new row because none is live.                            *)
RollbackOutcome(rows, result) ==
    /\ result.run \in {"FAILED", "ROLLING_BACK"}
    /\ \/ result.row = rows /\ result.started = {}
       \/ \E r \in LiveRollbacks(rows) :
             /\ result.row = [rows EXCEPT ![r] = SyncTaskNode(r)]
             /\ result.started = {}
       \/ \E r \in RollbackRows :
             /\ LiveRollbacks(rows) = {}
             /\ row[r] = "ABSENT"
             /\ result.row = [rows EXCEPT ![r] = "RUNNING"]
             /\ result.started = {r}

LEMMA RollbackOutcomes ==
    ASSUME NEW rows, NEW result \in AdvanceRollback(rows)
    PROVE  RollbackOutcome(rows, result)
<1>1. CASE LiveRollbacks(rows) # {}
  <2>1. PICK r \in LiveRollbacks(rows) :
           result = Result(IF SyncTaskNode(r) = "FAILED" THEN "FAILED" ELSE "ROLLING_BACK",
                           [rows EXCEPT ![r] = SyncTaskNode(r)], {})
    BY <1>1 DEF AdvanceRollback
  <2>2. /\ result.run \in {"FAILED", "ROLLING_BACK"}
        /\ result.row = [rows EXCEPT ![r] = SyncTaskNode(r)]
        /\ result.started = {}
    BY <2>1 DEF Result
  <2>3. QED
    BY <2>2 DEF RollbackOutcome
<1>2. CASE LiveRollbacks(rows) = {} /\ Remaining(rows) = {}
  BY <1>2 DEF AdvanceRollback, RollbackOutcome, Result
<1>3. CASE LiveRollbacks(rows) = {} /\ Remaining(rows) # {}
  <2>1. PICK n \in {m \in Deepest(Remaining(rows)) : FreshRows(m) # {}} :
           result = Result("ROLLING_BACK", [rows EXCEPT ![NewRow(n)] = "RUNNING"], {NewRow(n)})
    BY <1>3 DEF AdvanceRollback
  <2>2. NewRow(n) \in FreshRows(n)
    BY <2>1 DEF NewRow
  <2>3. NewRow(n) \in RollbackRows /\ row[NewRow(n)] = "ABSENT"
    BY <2>2 DEF FreshRows
  <2>4. QED
    BY <1>3, <2>1, <2>3 DEF RollbackOutcome, Result
<1>4. QED
  BY <1>1, <1>2, <1>3

--------------------------------------------------------------------------
(* What an advance may make of the copies h.                                *)
AdvanceOutcome(h, result) ==
    /\ result.run \in RunStatuses
    /\ result.row \in [Rows -> RowStatuses]
    /\ result.started \in SUBSET Rows
    /\ result.run = "COMPLETED" => \A n \in Nodes : result.row[Own(n)] = "COMPLETED"
    /\ \A n \in Nodes : result.row[Own(n)] # h.row[Own(n)] =>
          \/ h.row[Own(n)] \in Live
          \/ \A d \in DependsOn[n] : result.row[Own(d)] = "COMPLETED"
    /\ \A r \in Rows : result.row[r] \in {"PENDING", "ABSENT"} => result.row[r] = h.row[r]
    /\ \A r \in result.started :
          /\ result.row[r] = "RUNNING"
          /\ \/ r \notin RollbackRows /\ h.row[r] = "PENDING"
             \/ r \in RollbackRows /\ row[r] = "ABSENT"
    /\ \/ \A r \in RollbackRows : result.row[r] = h.row[r]
       \/ \E q \in RollbackRows :
             /\ q \in LiveRollbacks(h.row) \/ LiveRollbacks(h.row) = {}
             /\ \A r \in RollbackRows : r # q => result.row[r] = h.row[r]

LEMMA RollbackAdvances ==
    ASSUME NEW h, h.row \in [Rows -> RowStatuses],
           NEW rows \in [Rows -> RowStatuses],
           \A r \in Rows : rows[r] # h.row[r] =>
              h.row[r] \in Live /\ r \notin RollbackRows /\ rows[r] \notin {"PENDING", "ABSENT"},
           NEW result, RollbackOutcome(rows, result)
    PROVE  AdvanceOutcome(h, result)
<1>1. result.run \in RunStatuses /\ result.run # "COMPLETED"
  BY DEF RollbackOutcome, RunStatuses, ActiveRunStatuses, EndedRunStatuses
<1>2. LiveRollbacks(rows) = LiveRollbacks(h.row)
  BY RowFacts DEF LiveRollbacks
<1>3. CASE result.row = rows /\ result.started = {}
  BY <1>1, <1>3, RowFacts DEF AdvanceOutcome
<1>4. ASSUME NEW q \in RollbackRows, NEW v \in RowStatuses \ {"PENDING", "ABSENT"},
             result.row = [rows EXCEPT ![q] = v],
             q \in LiveRollbacks(rows) \/ LiveRollbacks(rows) = {},
             \/ result.started = {}
             \/ result.started = {q} /\ v = "RUNNING" /\ row[q] = "ABSENT"
      PROVE  AdvanceOutcome(h, result)
  <2>1. q \in Rows
    BY RowFacts
  <2>2. result.row \in [Rows -> RowStatuses] /\ result.row[q] = v
    BY <1>4, <2>1
  <2>3. \A r \in Rows : r # q => result.row[r] = rows[r]
    BY <1>4
  <2>4. result.started \in SUBSET Rows
    BY <1>4, <2>1
  <2>5. \A n \in Nodes : result.row[Own(n)] # h.row[Own(n)] => h.row[Own(n)] \in Live
    BY <2>3, RowFacts
  <2>6. \A r \in Rows : result.row[r] \in {"PENDING", "ABSENT"} => result.row[r] = h.row[r]
    BY <2>2, <2>3
  <2>7. \A r \in result.started : result.row[r] = "RUNNING" /\ r \in RollbackRows /\ row[r] = "ABSENT"
    BY <1>4, <2>2
  <2>8. \A r \in RollbackRows : r # q => result.row[r] = h.row[r]
    BY <2>3, RowFacts
  <2>9. QED
    BY <1>1, <1>2, <1>4, <2>2, <2>4, <2>5, <2>6, <2>7, <2>8 DEF AdvanceOutcome
<1>5. CASE \E r \in LiveRollbacks(rows) :
              result.row = [rows EXCEPT ![r] = SyncTaskNode(r)] /\ result.started = {}
  <2>1. PICK r \in LiveRollbacks(rows) :
              result.row = [rows EXCEPT ![r] = SyncTaskNode(r)] /\ result.started = {}
    BY <1>5
  <2>2. r \in RollbackRows /\ r \in Rows
    BY RowFacts DEF LiveRollbacks
  <2>3. SyncTaskNode(r) \in RowStatuses \ {"PENDING", "ABSENT"}
    BY <2>2, SyncTaskNodeType
  <2>4. QED
    BY <1>4, <2>1, <2>2, <2>3
<1>6. CASE \E r \in RollbackRows :
              /\ LiveRollbacks(rows) = {}
              /\ row[r] = "ABSENT"
              /\ result.row = [rows EXCEPT ![r] = "RUNNING"]
              /\ result.started = {r}
  BY <1>4, <1>6 DEF RowStatuses
<1>7. QED
  BY <1>3, <1>5, <1>6 DEF RollbackOutcome

(* Activating nodes starts those whose dependencies stay completed, and     *)
(* completes the run only with all of its nodes completed.                  *)
LEMMA ActivateOutcome ==
    ASSUME NEW h, h.row \in [Rows -> RowStatuses]
    PROVE  AdvanceOutcome(h, Activate(Synced(h.row)))
<1> DEFINE rows == Synced(h.row)
           ready == {n \in Nodes : rows[Own(n)] = "PENDING" /\ DependenciesComplete(n, rows)}
           after == [r \in Rows |->
                       IF r[2] = 0 /\ r[1] \in ready
                       THEN IF r[1] \in Approvals THEN "WAITING_APPROVAL" ELSE "RUNNING"
                       ELSE rows[r]]
           result == Activate(rows)
<1>1. /\ rows \in [Rows -> RowStatuses]
      /\ \A r \in Rows : rows[r] # h.row[r] =>
            h.row[r] \in Live /\ r \notin RollbackRows /\ rows[r] \notin {"PENDING", "ABSENT"}
  BY SyncedFacts
<1>2. /\ result.row = after
      /\ result.started = {Own(n) : n \in ready \ Approvals}
      /\ result.run \in {"COMPLETED", "WAITING_APPROVAL", "RUNNING"}
      /\ result.run = "COMPLETED" => \A n \in Nodes : after[Own(n)] = "COMPLETED"
  BY DEF Activate, Result
<1> HIDE DEF rows, result
<1>3. /\ \A n \in ready : after[Own(n)] \in Live /\ n \in Nodes
      /\ \A n \in ready \ Approvals : after[Own(n)] = "RUNNING"
      /\ \A n \in Nodes \ ready : after[Own(n)] = rows[Own(n)]
      /\ \A r \in RollbackRows : after[r] = rows[r]
  BY RowFacts
<1>4. \A r \in Rows : after[r] = rows[r] \/ (after[r] \in Live /\ \E n \in ready : r = Own(n))
  BY RowFacts
<1>5. after \in [Rows -> RowStatuses]
  BY <1>1 DEF RowStatuses
<1> HIDE DEF after
<1>6. \A n \in ready : /\ h.row[Own(n)] = "PENDING"
                       /\ \A d \in DependsOn[n] : d \in Nodes /\ rows[Own(d)] = "COMPLETED"
  BY <1>1, RowFacts, ConstantsAssumption DEF DependenciesComplete
<1>7. \A n \in ready : \A d \in DependsOn[n] : after[Own(d)] = "COMPLETED"
  <2>1. \A d \in Nodes : rows[Own(d)] = "COMPLETED" => d \notin ready
    OBVIOUS
  <2>2. QED
    BY <1>3, <1>6, <2>1
<1> HIDE DEF ready
<1>8. \A n \in Nodes : after[Own(n)] # h.row[Own(n)] =>
         \/ h.row[Own(n)] \in Live
         \/ \A d \in DependsOn[n] : after[Own(d)] = "COMPLETED"
  BY <1>1, <1>3, <1>7, RowFacts
<1>9. \A r \in Rows : after[r] \in {"PENDING", "ABSENT"} => after[r] = h.row[r]
  BY <1>1, <1>4
<1>10. \A r \in result.started : /\ r \in Rows
                                /\ after[r] = "RUNNING"
                                /\ r \notin RollbackRows
                                /\ h.row[r] = "PENDING"
  BY <1>2, <1>3, <1>6, RowFacts
<1>11. \A r \in RollbackRows : after[r] = h.row[r]
  BY <1>1, <1>3, RowFacts
<1>12. result.run \in RunStatuses
  BY <1>2 DEF RunStatuses, ActiveRunStatuses, EndedRunStatuses
<1>13. AdvanceOutcome(h, result)
  BY <1>2, <1>5, <1>8, <1>9, <1>10, <1>11, <1>12 DEF AdvanceOutcome
<1>14. QED
  BY <1>13 DEF result, rows

(* Whatever advance_run makes of its copies is such an outcome.             *)
LEMMA AdvanceOutcomes ==
    ASSUME NEW h, h.row \in [Rows -> RowStatuses],
           NEW result \in AdvanceRun(h)
    PROVE  AdvanceOutcome(h, result)
<1>1. /\ Synced(h.row) \in [Rows -> RowStatuses]
      /\ \A r \in Rows : Synced(h.row)[r] # h.row[r] =>
            h.row[r] \in Live /\ r \notin RollbackRows /\ Synced(h.row)[r] \notin {"PENDING", "ABSENT"}
  BY SyncedFacts
<1>2. CASE result \in AdvanceRollback(h.row)
  <2>1. RollbackOutcome(h.row, result)
    BY <1>2, RollbackOutcomes
  <2>2. QED
    BY <2>1, RollbackAdvances
<1>3. CASE result \in AdvanceRollback(Synced(h.row))
  <2>1. RollbackOutcome(Synced(h.row), result)
    BY <1>3, RollbackOutcomes
  <2>2. QED
    BY <1>1, <2>1, RollbackAdvances
<1>4. CASE result = Activate(Synced(h.row))
  BY <1>4, ActivateOutcome
<1>5. CASE result = Result("FAILED", Synced(h.row), {})
  <2>1. result.row = Synced(h.row) /\ result.run = "FAILED" /\ result.started = {}
    BY <1>5 DEF Result
  <2>2. RollbackOutcome(Synced(h.row), result)
    BY <2>1 DEF RollbackOutcome
  <2>3. QED
    BY <1>1, <2>2, RollbackAdvances
<1>6. QED
  BY <1>2, <1>3, <1>4, <1>5 DEF AdvanceRun

--------------------------------------------------------------------------
(* The copies that an advance takes have the type of a session.             *)
LEMMA SnapshotType ==
    ASSUME TypeOK, NEW status \in RunStatuses
    PROVE  /\ Snapshot(status) \in SessionType
           /\ Snapshot(status).pc = "advancing"
           /\ Snapshot(status).row = row
           /\ Snapshot(status).run = status
BY IdleType DEF Snapshot, SessionType, TypeOK

(* Every step keeps every variable in its type.                             *)
LEMMA TypeStep ==
    ASSUME TypeOK, [Next]_vars
    PROVE  TypeOK'
<1>1. /\ run \in RunStatuses
      /\ row \in [Rows -> RowStatuses]
      /\ task \in [Rows -> [status : TaskStatuses, verdict : Verdicts]]
      /\ lock \in BOOLEAN
      /\ session \in [Sessions -> SessionType]
      /\ done \in SUBSET Nodes
      /\ again \in SUBSET Rows
      /\ ops \in 0..MaxOps
      /\ crashes \in 0..MaxCrashes
  BY DEF TypeOK, SessionType
<1>2. MaxOps \in Nat /\ MaxCrashes \in Nat
  BY ConstantsAssumption
<1>3. ASSUME NEW s \in Sessions, BeginAdvance(s)
      PROVE  TypeOK'
  <2>1. Snapshot(run) \in SessionType
    BY <1>1, SnapshotType
  <2>2. session' \in [Sessions -> SessionType]
    BY <1>1, <1>3, <2>1 DEF BeginAdvance
  <2>3. QED
    BY <1>1, <1>3, <2>2 DEF BeginAdvance, TypeOK, SessionType
<1>4. ASSUME NEW s \in Sessions, FinishAdvance(s)
      PROVE  TypeOK'
  <2>1. PICK result \in AdvanceRun(session[s]) :
          /\ run' = Flush(run, session[s].run, result.run)
          /\ Commit([r \in Rows |-> Flush(row[r], session[s].row[r], result.row[r])])
          /\ task' = [r \in Rows |-> IF r \in result.started THEN NewTask ELSE task[r]]
          /\ again' = again \cup {r \in result.started : task[r] # NoTask}
    BY <1>4 DEF FinishAdvance
  <2>2. /\ result.run \in RunStatuses
        /\ result.row \in [Rows -> RowStatuses]
        /\ result.started \in SUBSET Rows
    BY <1>1, AdvanceOutcomes DEF AdvanceOutcome, SessionType
  <2>3. run' \in RunStatuses
    BY <1>1, <2>1, <2>2 DEF Flush
  <2>4. row' \in [Rows -> RowStatuses] /\ done' \in SUBSET Nodes
    BY <1>1, <2>1, <2>2 DEF Commit, Flush
  <2>5. NewTask \in [status : TaskStatuses, verdict : Verdicts]
    BY DEF NewTask, TaskStatuses, Verdicts
  <2>6. task' \in [Rows -> [status : TaskStatuses, verdict : Verdicts]]
    BY <1>1, <2>1, <2>5
  <2>7. again' \in SUBSET Rows
    BY <1>1, <2>1, <2>2
  <2>8. session' \in [Sessions -> SessionType]
    BY <1>1, <1>4, IdleType DEF FinishAdvance
  <2>9. lock' \in BOOLEAN /\ ops' = ops /\ crashes' = crashes
    BY <1>4 DEF FinishAdvance
  <2>10. QED
    BY <1>1, <2>3, <2>4, <2>6, <2>7, <2>8, <2>9 DEF TypeOK, SessionType
<1>5. ASSUME NEW s \in Sessions, Crash(s)
      PROVE  TypeOK'
  <2>1. session' \in [Sessions -> SessionType]
    BY <1>1, <1>5, IdleType DEF Crash
  <2>2. crashes' \in 0..MaxCrashes
    BY <1>1, <1>2, <1>5 DEF Crash
  <2>3. QED
    BY <1>1, <1>5, <2>1, <2>2 DEF Crash, TypeOK, SessionType
<1>6. ASSUME NEW o \in Operators, NEW r \in Rows, NEW approve \in BOOLEAN, BeginDecision(o, r, approve)
      PROVE  TypeOK'
  <2>1. [NoRows EXCEPT ![r] = row[r]] \in [Rows -> RowStatuses]
    BY <1>1 DEF NoRows, RowStatuses
  <2>2. task[r].status \in TaskStatuses
    BY <1>1
  <2>3. [pc |-> "deciding", run |-> run, row |-> [NoRows EXCEPT ![r] = row[r]],
         at |-> r, approve |-> approve, task |-> task[r].status] \in SessionType
    BY <1>1, <2>1, <2>2 DEF SessionType
  <2>4. session' \in [Sessions -> SessionType]
    BY <1>1, <1>6, <2>3 DEF BeginDecision
  <2>5. ops' \in 0..MaxOps
    BY <1>1, <1>2, <1>6 DEF BeginDecision
  <2>6. QED
    BY <1>1, <1>6, <2>4, <2>5 DEF BeginDecision, TypeOK, SessionType
<1>7. ASSUME NEW o \in Operators, FinishDecision(o)
      PROVE  TypeOK'
  <2>1. o \in Sessions
    BY DEF Sessions
  <2>2. session[o].at \in Rows /\ session[o].run \in RunStatuses
    BY <1>1, <2>1 DEF SessionType
  <2>3. run' \in RunStatuses
    BY <1>1, <1>7 DEF FinishDecision, Flush, RunStatuses, ActiveRunStatuses
  <2>4. row' \in [Rows -> RowStatuses] /\ done' \in SUBSET Nodes
    BY <1>1, <1>7, <2>2 DEF FinishDecision, Commit, Decided, RowStatuses
  <2>5. task' \in [Rows -> [status : TaskStatuses, verdict : Verdicts]]
    BY <1>1, <1>7, <2>2 DEF FinishDecision, TaskStatuses
  <2>6. [Idle EXCEPT !.pc = "decided", !.run = "RUNNING"] \in SessionType
    BY IdleType DEF SessionType, RunStatuses, ActiveRunStatuses
  <2>7. session' \in [Sessions -> SessionType]
    BY <1>1, <1>7, <2>6 DEF FinishDecision
  <2>8. lock' = lock /\ again' = again /\ ops' = ops /\ crashes' = crashes
    BY <1>7 DEF FinishDecision
  <2>9. QED
    BY <1>1, <2>3, <2>4, <2>5, <2>7, <2>8 DEF TypeOK, SessionType
<1>8. ASSUME NEW o \in Operators, AdvanceDecided(o)
      PROVE  TypeOK'
  <2>1. Snapshot("RUNNING") \in SessionType
    BY SnapshotType DEF RunStatuses, ActiveRunStatuses
  <2>2. session' \in [Sessions -> SessionType]
    BY <1>1, <1>8, <2>1, IdleType DEF AdvanceDecided
  <2>3. QED
    BY <1>1, <1>8, <2>2 DEF AdvanceDecided, TypeOK, SessionType
<1>9. ASSUME NEW o \in Operators, BeginCancel(o)
      PROVE  TypeOK'
  <2>1. [Idle EXCEPT !.pc = "cancelling", !.run = run, !.row = row] \in SessionType
    BY <1>1, IdleType DEF SessionType
  <2>2. session' \in [Sessions -> SessionType]
    BY <1>1, <1>9, <2>1 DEF BeginCancel
  <2>3. ops' \in 0..MaxOps
    BY <1>1, <1>2, <1>9 DEF BeginCancel
  <2>4. QED
    BY <1>1, <1>9, <2>2, <2>3 DEF BeginCancel, TypeOK, SessionType
<1>10. ASSUME NEW o \in Operators, FinishCancel(o)
       PROVE  TypeOK'
  <2>1. row' \in [Rows -> RowStatuses] /\ done' \in SUBSET Nodes
    BY <1>1, <1>10 DEF FinishCancel, Commit, RowStatuses
  <2>2. session' \in [Sessions -> SessionType]
    BY <1>1, <1>10, IdleType DEF FinishCancel
  <2>3. run' \in RunStatuses
    BY <1>10 DEF FinishCancel, RunStatuses, EndedRunStatuses
  <2>4. QED
    BY <1>1, <1>10, <2>1, <2>2, <2>3 DEF FinishCancel, TypeOK, SessionType
<1>11. ASSUME NEW r \in Rows, TaskMoves(r)
       PROVE  TypeOK'
  <2>1. task' \in [Rows -> [status : TaskStatuses, verdict : Verdicts]]
    BY <1>1, <1>11 DEF TaskMoves
  <2>2. QED
    BY <1>1, <1>11, <2>1 DEF TaskMoves, TypeOK, SessionType
<1>12. CASE LockExpires
  BY <1>1, <1>12 DEF LockExpires, TypeOK, SessionType
<1>13. CASE UNCHANGED vars
  BY <1>1, <1>13 DEF vars, TypeOK, SessionType
<1>14. QED
  BY <1>3, <1>4, <1>5, <1>6, <1>7, <1>8, <1>9, <1>10, <1>11, <1>12, <1>13 DEF Next

--------------------------------------------------------------------------
(* The copies of a session are copies of what was stored.                   *)
LEMMA SessionsInherit ==
    ASSUME TypeOK, [Next]_vars
    PROVE  \A q \in Sessions, r \in Rows :
              session'[q].row[r] \in {session[q].row[r], row[r], "ABSENT"}
<1>1. session \in [Sessions -> SessionType] /\ row \in [Rows -> RowStatuses] /\ run \in RunStatuses
  BY DEF TypeOK, SessionType
<1>3. \A r \in Rows : Idle.row[r] = "ABSENT"
  BY IdleType
<1>4. ASSUME NEW s \in Sessions, BeginAdvance(s)
      PROVE  \A q \in Sessions, r \in Rows :
                session'[q].row[r] \in {session[q].row[r], row[r], "ABSENT"}
  <2>1. Snapshot(run).row = row
    BY <1>1, SnapshotType
  <2>2. QED
    BY <1>1, <1>4, <2>1 DEF BeginAdvance
<1>5. ASSUME NEW s \in Sessions, FinishAdvance(s) \/ Crash(s)
      PROVE  \A q \in Sessions, r \in Rows :
                session'[q].row[r] \in {session[q].row[r], row[r], "ABSENT"}
  BY <1>1, <1>3, <1>5 DEF FinishAdvance, Crash
<1>6. ASSUME NEW o \in Operators, NEW at \in Rows, NEW approve \in BOOLEAN, BeginDecision(o, at, approve)
      PROVE  \A q \in Sessions, r \in Rows :
                session'[q].row[r] \in {session[q].row[r], row[r], "ABSENT"}
  <2>1. \A r \in Rows : [NoRows EXCEPT ![at] = row[at]][r] \in {row[r], "ABSENT"}
    BY DEF NoRows
  <2>2. o \in Sessions
    BY DEF Sessions
  <2>3. QED
    BY <1>1, <1>6, <2>1, <2>2 DEF BeginDecision
<1>7. ASSUME NEW o \in Operators, FinishDecision(o)
      PROVE  \A q \in Sessions, r \in Rows :
                session'[q].row[r] \in {session[q].row[r], row[r], "ABSENT"}
  <2>1. [Idle EXCEPT !.pc = "decided", !.run = "RUNNING"].row = Idle.row
    BY IdleType DEF SessionType
  <2>2. QED
    BY <1>1, <1>3, <1>7, <2>1 DEF FinishDecision
<1>8. ASSUME NEW o \in Operators, AdvanceDecided(o)
      PROVE  \A q \in Sessions, r \in Rows :
                session'[q].row[r] \in {session[q].row[r], row[r], "ABSENT"}
  <2>1. Snapshot("RUNNING").row = row
    BY SnapshotType DEF RunStatuses, ActiveRunStatuses
  <2>2. QED
    BY <1>1, <1>3, <1>8, <2>1 DEF AdvanceDecided
<1>9. ASSUME NEW o \in Operators, BeginCancel(o)
      PROVE  \A q \in Sessions, r \in Rows :
                session'[q].row[r] \in {session[q].row[r], row[r], "ABSENT"}
  <2>1. [Idle EXCEPT !.pc = "cancelling", !.run = run, !.row = row].row = row
    BY IdleType DEF SessionType
  <2>2. QED
    BY <1>1, <1>9, <2>1 DEF BeginCancel
<1>10. ASSUME NEW o \in Operators, FinishCancel(o)
       PROVE  \A q \in Sessions, r \in Rows :
                 session'[q].row[r] \in {session[q].row[r], row[r], "ABSENT"}
  BY <1>1, <1>3, <1>10 DEF FinishCancel
<1>11. CASE session' = session
  BY <1>11
<1>12. ASSUME NEW r \in Rows, TaskMoves(r)
       PROVE  session' = session
  BY <1>12 DEF TaskMoves
<1>13. QED
  BY <1>4, <1>5, <1>6, <1>7, <1>8, <1>9, <1>10, <1>11, <1>12 DEF Next, LockExpires, vars

(* The nodes that were once completed are never forgotten.                  *)
LEMMA DoneGrows ==
    ASSUME StoredDone, [Next]_vars
    PROVE  done \subseteq done' /\ StoredDone'
<1>1. ASSUME NEW rows, Commit(rows)
      PROVE  done \subseteq done' /\ StoredDone'
  BY <1>1 DEF Commit, StoredDone
<1>2. CASE row' = row /\ done' = done
  BY <1>2 DEF StoredDone, Own
<1>3. ASSUME NEW s \in Sessions, FinishAdvance(s)
      PROVE  done \subseteq done' /\ StoredDone'
  BY <1>1, <1>3 DEF FinishAdvance
<1>4. ASSUME NEW o \in Operators, FinishDecision(o)
      PROVE  done \subseteq done' /\ StoredDone'
  BY <1>1, <1>4 DEF FinishDecision
<1>5. ASSUME NEW o \in Operators, FinishCancel(o)
      PROVE  done \subseteq done' /\ StoredDone'
  BY <1>1, <1>5 DEF FinishCancel
<1>6. QED
  BY <1>2, <1>3, <1>4, <1>5
  DEF Next, BeginAdvance, Crash, BeginDecision, AdvanceDecided, BeginCancel, TaskMoves, LockExpires, vars

(* A row that has a task keeps one.                                         *)
LEMMA TasksStay ==
    ASSUME TypeOK, [Next]_vars
    PROVE  \A r \in Rows : task[r].status # "NONE" => task'[r].status # "NONE"
<1>1. task \in [Rows -> [status : TaskStatuses, verdict : Verdicts]]
  BY DEF TypeOK
<1>2. ASSUME NEW s \in Sessions, FinishAdvance(s)
      PROVE  \A r \in Rows : task[r].status # "NONE" => task'[r].status # "NONE"
  BY <1>1, <1>2 DEF FinishAdvance, NewTask
<1>3. ASSUME NEW o \in Operators, FinishDecision(o)
      PROVE  \A r \in Rows : task[r].status # "NONE" => task'[r].status # "NONE"
  <2>1. CASE task' = task
    BY <2>1
  <2>2. CASE task' = [task EXCEPT ![session[o].at].status =
                         IF session[o].approve THEN "COMPLETED" ELSE "FAILED"]
    BY <1>1, <2>2
  <2>3. QED
    BY <1>3, <2>1, <2>2 DEF FinishDecision
<1>4. ASSUME NEW q \in Rows, TaskMoves(q)
      PROVE  \A r \in Rows : task[r].status # "NONE" => task'[r].status # "NONE"
  BY <1>1, <1>4 DEF TaskMoves
<1>5. QED
  BY <1>2, <1>3, <1>4
  DEF Next, BeginAdvance, Crash, BeginDecision, AdvanceDecided, BeginCancel, FinishCancel, LockExpires, vars

--------------------------------------------------------------------------
(* The commit of an advance honours the graph, and completes the run only   *)
(* with all of its nodes.                                                   *)
LEMMA FinishAdvanceKeepsGraph ==
    ASSUME TypeOK, GraphInv, NEW s \in Sessions, FinishAdvance(s), done \subseteq done'
    PROVE  GraphIsHonoured' /\ CompletedRunIsDone'
<1>1. PICK result \in AdvanceRun(session[s]) :
        /\ run' = Flush(run, session[s].run, result.run)
        /\ Commit([r \in Rows |-> Flush(row[r], session[s].row[r], result.row[r])])
  BY DEF FinishAdvance
<1>2. AdvanceOutcome(session[s], result)
  <2>1. session[s].row \in [Rows -> RowStatuses]
    BY DEF TypeOK
  <2>2. QED
    BY <2>1, AdvanceOutcomes
<1>3. \A n \in Nodes :
        row'[Own(n)] = IF result.row[Own(n)] = session[s].row[Own(n)] THEN row[Own(n)] ELSE result.row[Own(n)]
  BY <1>1, RowFacts DEF Commit, Flush
<1>4. \A n \in Nodes : row'[Own(n)] = "COMPLETED" => n \in done'
  BY <1>1 DEF Commit
<1>5. \A n \in Nodes : result.row[Own(n)] = "COMPLETED" => n \in done'
  <2>1. SUFFICES ASSUME NEW n \in Nodes, result.row[Own(n)] = "COMPLETED"
                 PROVE  n \in done'
    OBVIOUS
  <2>2. CASE session[s].row[Own(n)] = "COMPLETED"
    BY <2>2 DEF GraphInv, HeldDone
  <2>3. CASE session[s].row[Own(n)] # "COMPLETED"
    BY <1>3, <1>4, <2>1, <2>3
  <2>4. QED
    BY <2>2, <2>3
<1>6. ASSUME NEW n \in Nodes, row'[Own(n)] \notin {"PENDING", "CANCELLED"}
      PROVE  DependsOn[n] \subseteq done'
  <2>1. CASE row'[Own(n)] = row[Own(n)]
    BY <1>6, <2>1 DEF GraphInv, GraphIsHonoured
  <2>2. CASE session[s].row[Own(n)] \in Live
    BY <2>2 DEF GraphInv, HeldStarted
  <2>3. CASE \A d \in DependsOn[n] : result.row[Own(d)] = "COMPLETED"
    BY <1>5, <2>3, ConstantsAssumption
  <2>4. QED
    BY <1>2, <1>3, <2>1, <2>2, <2>3 DEF AdvanceOutcome
<1>7. GraphIsHonoured'
  BY <1>6 DEF GraphIsHonoured, Own
<1>8. CompletedRunIsDone'
  <2>1. CASE run' = run
    BY <2>1 DEF GraphInv, CompletedRunIsDone
  <2>2. CASE run' = result.run
    BY <1>2, <1>5, <2>2 DEF AdvanceOutcome, CompletedRunIsDone
  <2>3. QED
    BY <1>1, <2>1, <2>2 DEF Flush
<1>9. QED
  BY <1>7, <1>8

(* A decision is about a live row, and no other step undoes that.           *)
LEMMA DecidesLiveStep ==
    ASSUME TypeOK, DecidesLive, [Next]_vars
    PROVE  DecidesLive'
<1>1. session \in [Sessions -> SessionType] /\ run \in RunStatuses
  BY DEF TypeOK, SessionType
<1>2. \A r \in Rows : task[r].status # "NONE" => task'[r].status # "NONE"
  BY TasksStay
<1>3. Idle.pc = "idle" /\ Idle \in SessionType
  BY IdleType
<1>4. ASSUME NEW q \in Sessions, session'[q].pc = "deciding", session'[q] = session[q]
      PROVE  /\ session'[q].row[session'[q].at] \in Live
             /\ session'[q].task # "NONE" => task'[session'[q].at].status # "NONE"
  <2>1. session[q].at \in Rows
    BY <1>1 DEF SessionType
  <2>2. QED
    BY <1>2, <1>4, <2>1 DEF DecidesLive
<1>5. ASSUME NEW s \in Sessions, NEW new, session' = [session EXCEPT ![s] = new], new.pc # "deciding"
      PROVE  DecidesLive'
  <2>1. \A q \in Sessions : session'[q].pc = "deciding" => session'[q] = session[q]
    BY <1>1, <1>5
  <2>2. QED
    BY <1>4, <2>1 DEF DecidesLive
<1>6. CASE session' = session
  BY <1>4, <1>6 DEF DecidesLive
<1>7. ASSUME NEW s \in Sessions, BeginAdvance(s) \/ FinishAdvance(s) \/ Crash(s)
      PROVE  DecidesLive'
  <2>1. Snapshot(run).pc = "advancing"
    BY <1>1, SnapshotType
  <2>2. QED
    BY <1>3, <1>5, <1>7, <2>1 DEF BeginAdvance, FinishAdvance, Crash
<1>8. ASSUME NEW o \in Operators, AdvanceDecided(o) \/ FinishDecision(o) \/ BeginCancel(o) \/ FinishCancel(o)
      PROVE  DecidesLive'
  <2>1. o \in Sessions
    BY DEF Sessions
  <2>2. Snapshot("RUNNING").pc = "advancing"
    BY SnapshotType DEF RunStatuses, ActiveRunStatuses
  <2>3. /\ [Idle EXCEPT !.pc = "decided", !.run = "RUNNING"].pc = "decided"
        /\ [Idle EXCEPT !.pc = "cancelling", !.run = run, !.row = row].pc = "cancelling"
    BY <1>3 DEF SessionType
  <2>4. QED
    BY <1>3, <1>5, <1>8, <2>1, <2>2, <2>3 DEF AdvanceDecided, FinishDecision, BeginCancel, FinishCancel
<1>9. ASSUME NEW o \in Operators, NEW r \in Rows, NEW approve \in BOOLEAN, BeginDecision(o, r, approve)
      PROVE  DecidesLive'
  <2>1. [NoRows EXCEPT ![r] = row[r]][r] \in Live
    BY <1>9 DEF BeginDecision, NoRows
  <2>2. o \in Sessions /\ task' = task
    BY <1>9 DEF Sessions, BeginDecision
  <2>3. /\ session'[o].row[session'[o].at] \in Live
        /\ session'[o].task # "NONE" => task'[session'[o].at].status # "NONE"
    BY <1>1, <1>9, <2>1, <2>2 DEF BeginDecision
  <2>4. \A q \in Sessions : q # o => session'[q] = session[q]
    BY <1>1, <1>9 DEF BeginDecision
  <2>5. QED
    BY <1>4, <2>3, <2>4 DEF DecidesLive
<1>10. QED
  BY <1>6, <1>7, <1>8, <1>9 DEF Next, TaskMoves, LockExpires, vars

(* Every step honours the graph.                                            *)
LEMMA GraphStep ==
    ASSUME TypeOK, GraphInv, [Next]_vars
    PROVE  GraphInv'
<1>1. done \subseteq done' /\ StoredDone'
  BY DoneGrows DEF GraphInv
<1>2. \A q \in Sessions, r \in Rows :
         session'[q].row[r] \in {session[q].row[r], row[r], "ABSENT"}
  BY SessionsInherit
<1>3. HeldDone'
  BY <1>1, <1>2, RowFacts DEF GraphInv, HeldDone, StoredDone, Own
<1>4. HeldStarted'
  <2>1. SUFFICES ASSUME NEW q \in Sessions, NEW n \in Nodes, session'[q].row[Own(n)] \in Live
                 PROVE  DependsOn[n] \subseteq done'
    BY DEF HeldStarted, Own
  <2>2. session[q].row[Own(n)] \in Live \/ row[Own(n)] \in Live
    BY <1>2, <2>1, RowFacts
  <2>3. QED
    BY <1>1, <2>2 DEF GraphInv, HeldStarted, GraphIsHonoured
<1>5. DecidesLive'
  BY DecidesLiveStep DEF GraphInv
<1>6. GraphIsHonoured' /\ CompletedRunIsDone'
  <2>1. CASE row' = row /\ run' = run
    BY <1>1, <2>1 DEF GraphInv, GraphIsHonoured, CompletedRunIsDone, Own
  <2>2. ASSUME NEW s \in Sessions, FinishAdvance(s)
        PROVE  GraphIsHonoured' /\ CompletedRunIsDone'
    BY <1>1, <2>2, FinishAdvanceKeepsGraph
  <2>3. ASSUME NEW o \in Operators, FinishDecision(o)
        PROVE  GraphIsHonoured' /\ CompletedRunIsDone'
    <3>1. o \in Sessions /\ session[o].pc = "deciding"
      BY <2>3 DEF Sessions, FinishDecision
    <3>2. session[o].row[session[o].at] \in Live
      BY <3>1 DEF GraphInv, DecidesLive
    <3>3. \A r \in Rows : r # session[o].at => row'[r] = row[r]
      BY <2>3 DEF FinishDecision, Commit, TypeOK
    <3>4. ASSUME NEW n \in Nodes, row'[Own(n)] \notin {"PENDING", "CANCELLED"}
          PROVE  DependsOn[n] \subseteq done
      <4>1. CASE Own(n) = session[o].at
        BY <3>1, <3>2, <4>1 DEF GraphInv, HeldStarted
      <4>2. CASE Own(n) # session[o].at
        BY <3>3, <3>4, <4>2, RowFacts DEF GraphInv, GraphIsHonoured
      <4>3. QED
        BY <4>1, <4>2
    <3>5. run' = "COMPLETED" => run = "COMPLETED"
      BY <2>3 DEF FinishDecision, Flush
    <3>6. QED
      BY <1>1, <3>4, <3>5 DEF GraphInv, GraphIsHonoured, CompletedRunIsDone, Own
  <2>4. ASSUME NEW o \in Operators, FinishCancel(o)
        PROVE  GraphIsHonoured' /\ CompletedRunIsDone'
    <3>1. /\ run' = "CANCELLED"
          /\ \A r \in Rows : row'[r] = row[r] \/ row'[r] = "CANCELLED"
      BY <2>4 DEF FinishCancel, Commit
    <3>2. QED
      BY <1>1, <3>1, RowFacts DEF GraphInv, GraphIsHonoured, CompletedRunIsDone, Own
  <2>5. QED
    BY <2>1, <2>2, <2>3, <2>4
    DEF Next, BeginAdvance, Crash, BeginDecision, AdvanceDecided, BeginCancel, TaskMoves, LockExpires, vars
<1>7. QED
  BY <1>1, <1>3, <1>4, <1>5, <1>6 DEF GraphInv

--------------------------------------------------------------------------
(* Rows never vanish, and a row that waits to be started only stays so.     *)
LEMMA RowsStay ==
    ASSUME TypeOK, [Next]_vars
    PROVE  /\ \A r \in Rows : row'[r] \in {"PENDING", "ABSENT"} => row'[r] = row[r]
           /\ \A r \in Rows : row'[r] \in Live /\ row'[r] # row[r] =>
                 \E s \in Sessions : FinishAdvance(s)
<1>1. row \in [Rows -> RowStatuses] /\ session \in [Sessions -> SessionType]
  BY DEF TypeOK, SessionType
<1>2. CASE row' = row
  BY <1>2
<1>3. ASSUME NEW s \in Sessions, FinishAdvance(s)
      PROVE  \A r \in Rows : row'[r] \in {"PENDING", "ABSENT"} => row'[r] = row[r]
  <2>1. PICK result \in AdvanceRun(session[s]) :
          Commit([r \in Rows |-> Flush(row[r], session[s].row[r], result.row[r])])
    BY <1>3 DEF FinishAdvance
  <2>2. AdvanceOutcome(session[s], result)
    BY <1>1, AdvanceOutcomes DEF SessionType
  <2>3. \A r \in Rows : result.row[r] \in {"PENDING", "ABSENT"} => result.row[r] = session[s].row[r]
    BY <2>2 DEF AdvanceOutcome
  <2>4. QED
    BY <2>1, <2>3 DEF Commit, Flush
<1>4. ASSUME NEW o \in Operators, FinishDecision(o)
      PROVE  \A r \in Rows : row'[r] = row[r] \/ row'[r] \notin {"PENDING", "ABSENT"} \cup Live
  BY <1>1, <1>4 DEF FinishDecision, Commit, Decided
<1>5. ASSUME NEW o \in Operators, FinishCancel(o)
      PROVE  \A r \in Rows : row'[r] = row[r] \/ row'[r] = "CANCELLED"
  BY <1>5 DEF FinishCancel, Commit
<1>6. QED
  BY <1>2, <1>3, <1>4, <1>5
  DEF Next, BeginAdvance, Crash, BeginDecision, AdvanceDecided, BeginCancel, TaskMoves, LockExpires, vars

(* The lock: at most one session advances the run, and it has the lock.     *)
LEMMA LockHeldStep ==
    ASSUME TypeOK, LockHeld, [Next]_vars
    PROVE  LockHeld'
<1>1. session \in [Sessions -> SessionType] /\ run \in RunStatuses
  BY DEF TypeOK, SessionType
<1>2. Idle.pc = "idle" /\ Idle \in SessionType
  BY IdleType
<1>3. ASSUME NEW s \in Sessions, NEW new, session' = [session EXCEPT ![s] = new],
             new.pc # "advancing", lock' = lock \/ Advancing(s)
      PROVE  LockHeld'
  <2>1. \A q \in Sessions : Advancing(q)' => q # s /\ Advancing(q)
    BY <1>1, <1>3 DEF Advancing
  <2>2. \A q \in Sessions : Advancing(q)' => lock'
    BY <1>3, <2>1 DEF LockHeld
  <2>3. QED
    BY <2>1, <2>2 DEF LockHeld, Advancing
<1>4. ASSUME NEW s \in Sessions, NEW new, session' = [session EXCEPT ![s] = new],
             ~lock, lock' = TRUE
      PROVE  LockHeld'
  <2>1. \A q \in Sessions : ~Advancing(q)
    BY <1>4 DEF LockHeld
  <2>2. \A q \in Sessions : Advancing(q)' => q = s
    BY <1>1, <1>4, <2>1 DEF Advancing
  <2>3. QED
    BY <1>4, <2>2 DEF LockHeld, Advancing
<1>5. ASSUME NEW s \in Sessions, BeginAdvance(s)
      PROVE  LockHeld'
  BY <1>4, <1>5 DEF BeginAdvance
<1>6. ASSUME NEW s \in Sessions, FinishAdvance(s)
      PROVE  LockHeld'
  BY <1>2, <1>3, <1>6 DEF FinishAdvance, Advancing
<1>7. ASSUME NEW s \in Sessions, Crash(s)
      PROVE  LockHeld'
  BY <1>2, <1>3, <1>7 DEF Crash
<1>8. ASSUME NEW o \in Operators, o \in Sessions, AdvanceDecided(o)
      PROVE  LockHeld'
  <2>1. CASE lock
    <3>1. lock' = lock
      BY <1>8, <2>1 DEF AdvanceDecided, TypeOK
    <3>2. session' = [session EXCEPT ![o] = Idle]
      BY <1>8, <2>1 DEF AdvanceDecided
    <3>3. QED
      BY <1>2, <1>3, <1>8, <3>1, <3>2
  <2>2. CASE ~lock
    BY <1>4, <1>8, <2>2 DEF AdvanceDecided
  <2>3. QED
    BY <2>1, <2>2
<1>9. ASSUME NEW o \in Operators, o \in Sessions,
             FinishDecision(o) \/ BeginCancel(o) \/ FinishCancel(o)
      PROVE  LockHeld'
  <2>1. /\ [Idle EXCEPT !.pc = "decided", !.run = "RUNNING"].pc = "decided"
        /\ [Idle EXCEPT !.pc = "cancelling", !.run = run, !.row = row].pc = "cancelling"
    BY <1>2 DEF SessionType
  <2>2. QED
    BY <1>2, <1>3, <1>9, <2>1 DEF FinishDecision, BeginCancel, FinishCancel
<1>10. ASSUME NEW o \in Operators, o \in Sessions, NEW r \in Rows, NEW approve \in BOOLEAN,
              BeginDecision(o, r, approve)
       PROVE  LockHeld'
  <2> DEFINE new == [pc |-> "deciding", run |-> run, row |-> [NoRows EXCEPT ![r] = row[r]],
                     at |-> r, approve |-> approve, task |-> task[r].status]
  <2>1. new.pc # "advancing"
    OBVIOUS
  <2>2. session' = [session EXCEPT ![o] = new] /\ lock' = lock
    BY <1>10 DEF BeginDecision
  <2> HIDE DEF new
  <2>3. QED
    BY <1>3, <1>10, <2>1, <2>2
<1>11. CASE LockExpires
  BY <1>11 DEF LockExpires, LockHeld, Advancing
<1>12. CASE session' = session /\ lock' = lock
  BY <1>12 DEF LockHeld, Advancing
<1>13. QED
  BY <1>5, <1>6, <1>7, <1>8, <1>9, <1>10, <1>11, <1>12 DEF Next, Sessions, TaskMoves, vars

(* The commit of the one advance under way: its new rows had no task, and   *)
(* at most one of them is a rollback.                                       *)
LEMMA FinishAdvanceKeepsLocked ==
    ASSUME TypeOK, LockInv, NEW s \in Sessions, FinishAdvance(s)
    PROVE  /\ \A r \in Rows : row'[r] \in {"PENDING", "ABSENT"} => row[r] = row'[r] /\ task'[r] = task[r]
           /\ again' = {}
           /\ OneRollbackAtATime'
<1>1. PICK result \in AdvanceRun(session[s]) :
        /\ Commit([r \in Rows |-> Flush(row[r], session[s].row[r], result.row[r])])
        /\ task' = [r \in Rows |-> IF r \in result.started THEN NewTask ELSE task[r]]
        /\ again' = again \cup {r \in result.started : task[r] # NoTask}
  BY DEF FinishAdvance
<1>2. AdvanceOutcome(session[s], result)
  <2>1. session[s].row \in [Rows -> RowStatuses]
    BY DEF TypeOK
  <2>2. QED
    BY <2>1, AdvanceOutcomes
<1>3. \A r \in Rows : row'[r] = IF result.row[r] = session[s].row[r] THEN row[r] ELSE result.row[r]
  BY <1>1 DEF Commit, Flush
<1>4. Advancing(s)
  BY DEF FinishAdvance, Advancing
<1>5. \A r \in result.started : /\ r \in Rows
                               /\ task[r] = NoTask
                               /\ row'[r] = "RUNNING"
  <2>1. SUFFICES ASSUME NEW r \in result.started
                 PROVE  r \in Rows /\ task[r] = NoTask /\ row'[r] = "RUNNING"
    OBVIOUS
  <2>2. r \in Rows /\ result.row[r] = "RUNNING"
    BY <1>2 DEF AdvanceOutcome
  <2>3. CASE session[s].row[r] = "PENDING"
    BY <1>3, <1>4, <2>2, <2>3 DEF LockInv, HeldUntasked
  <2>4. CASE row[r] = "ABSENT"
    BY <1>3, <2>2, <2>4 DEF LockInv, Untasked, HeldRowsExist
  <2>5. QED
    BY <1>2, <2>3, <2>4 DEF AdvanceOutcome
<1>6. \A r \in Rows : row'[r] \in {"PENDING", "ABSENT"} => row[r] = row'[r] /\ task'[r] = task[r]
  BY <1>1, <1>2, <1>3, <1>5 DEF AdvanceOutcome
<1>7. again' = {}
  BY <1>1, <1>5 DEF LockInv, NoSecondTask
<1>8. \A r \in RollbackRows : row[r] \in Live => session[s].row[r] \in Live
  BY <1>4 DEF LockInv, HeldOneRollback, LiveRollbacks
<1>9. \A r, q \in RollbackRows : row[r] \in Live /\ row[q] \in Live => r = q
  BY DEF LockInv, OneRollbackAtATime, LiveRollbacks
<1>10. \A r, q \in RollbackRows : session[s].row[r] \in Live /\ session[s].row[q] \in Live => r = q
  BY <1>4 DEF LockInv, HeldOneRollback, LiveRollbacks
<1>11. \A r, q \in RollbackRows : row'[r] \in Live /\ row'[q] \in Live => r = q
  <2>1. CASE \A r \in RollbackRows : result.row[r] = session[s].row[r]
    BY <1>3, <1>9, <2>1, RowFacts
  <2>2. ASSUME NEW p \in RollbackRows,
               p \in LiveRollbacks(session[s].row) \/ LiveRollbacks(session[s].row) = {},
               \A r \in RollbackRows : r # p => result.row[r] = session[s].row[r]
        PROVE  \A r \in RollbackRows : row'[r] \in Live => r = p
    <3>1. \A r \in RollbackRows : session[s].row[r] \in Live => r = p
      BY <1>10, <2>2 DEF LiveRollbacks
    <3>2. \A r \in RollbackRows : r # p => row'[r] = row[r]
      BY <1>3, <2>2, RowFacts
    <3>3. QED
      BY <1>8, <3>1, <3>2
  <2>3. QED
    BY <1>2, <2>1, <2>2 DEF AdvanceOutcome
<1>12. OneRollbackAtATime'
  BY <1>11 DEF OneRollbackAtATime, LiveRollbacks
<1>13. QED
  BY <1>6, <1>7, <1>12

(* Every step keeps what the lock protects.                                 *)
LEMMA LockStep ==
    ASSUME TypeOK, LockInv, GraphInv, [Next]_vars
    PROVE  LockInv'
<1>1. /\ session \in [Sessions -> SessionType]
      /\ row \in [Rows -> RowStatuses]
      /\ task \in [Rows -> [status : TaskStatuses, verdict : Verdicts]]
      /\ run \in RunStatuses
  BY DEF TypeOK, SessionType
<1>2. /\ \A r \in Rows : row'[r] \in {"PENDING", "ABSENT"} => row'[r] = row[r]
      /\ \A r \in Rows : row'[r] \in Live /\ row'[r] # row[r] =>
            \E s \in Sessions : FinishAdvance(s)
  BY RowsStay
<1>3. \A q \in Sessions, r \in Rows :
         session'[q].row[r] \in {session[q].row[r], row[r], "ABSENT"}
  BY SessionsInherit
<1>4. LockHeld'
  BY LockHeldStep DEF LockInv
<1>5. HeldRowsExist'
  BY <1>2, <1>3 DEF LockInv, HeldRowsExist
<1>6. ASSUME NEW r \in Rows, task'[r] # task[r], task[r] = NoTask
      PROVE  \E s \in Sessions : FinishAdvance(s)
  <2>1. ASSUME NEW o \in Operators, FinishDecision(o)
        PROVE  FALSE
    <3>1. o \in Sessions /\ session[o].pc = "deciding"
      BY <2>1 DEF Sessions, FinishDecision
    <3>2. session[o].task = "REVIEW" /\ session[o].at = r
      BY <1>1, <1>6, <2>1 DEF FinishDecision
    <3>3. task[r].status # "NONE"
      BY <3>1, <3>2 DEF GraphInv, DecidesLive
    <3>4. QED
      BY <1>6, <3>3 DEF NoTask
  <2>2. ASSUME NEW q \in Rows, TaskMoves(q)
        PROVE  FALSE
    <3>1. q = r
      BY <1>1, <1>6, <2>2 DEF TaskMoves
    <3>2. QED
      BY <1>6, <2>2, <3>1 DEF TaskMoves, NoTask
  <2>3. QED
    BY <1>6, <2>1, <2>2
    DEF Next, BeginAdvance, Crash, BeginDecision, AdvanceDecided, BeginCancel, FinishCancel, LockExpires, vars
<1>7. CASE \E s \in Sessions : FinishAdvance(s)
  <2>1. PICK s \in Sessions : FinishAdvance(s)
    BY <1>7
  <2>2. /\ \A r \in Rows : row'[r] \in {"PENDING", "ABSENT"} => row[r] = row'[r] /\ task'[r] = task[r]
        /\ again' = {}
        /\ OneRollbackAtATime'
    BY <2>1, FinishAdvanceKeepsLocked
  <2>3. Untasked'
    BY <2>2 DEF LockInv, Untasked
  <2>4. \A q \in Sessions : session'[q].pc # "advancing"
    BY <1>1, <2>1, IdleType DEF FinishAdvance, LockInv, LockHeld, Advancing
  <2>5. HeldUntasked' /\ HeldOneRollback'
    BY <2>4 DEF HeldUntasked, HeldOneRollback, Advancing
  <2>6. QED
    BY <1>4, <1>5, <2>2, <2>3, <2>5 DEF LockInv, NoSecondTask
<1>8. CASE ~\E s \in Sessions : FinishAdvance(s)
  <2>1. \A r \in Rows : task[r] = NoTask => task'[r] = NoTask
    BY <1>6, <1>8
  <2>2. \A r \in Rows : row'[r] \in Live => row'[r] = row[r]
    BY <1>2, <1>8
  <2>3. Untasked'
    BY <1>2, <2>1 DEF LockInv, Untasked
  <2>4. NoSecondTask'
    BY <1>8
    DEF LockInv, NoSecondTask, Next, BeginAdvance, Crash, BeginDecision, AdvanceDecided, BeginCancel,
        FinishDecision, FinishCancel, TaskMoves, LockExpires, vars
  <2>5. LiveRollbacks(row)' \subseteq LiveRollbacks(row)
    BY <2>2, RowFacts DEF LiveRollbacks
  <2>6. OneRollbackAtATime'
    BY <2>5 DEF LockInv, OneRollbackAtATime
  <2>7. \A q \in Sessions : session'[q].pc = "advancing" =>
           \/ session'[q] = session[q]
           \/ session'[q].row = row
    <3>1. /\ Snapshot(run).row = row
          /\ Snapshot("RUNNING").row = row
      BY <1>1, SnapshotType DEF RunStatuses, ActiveRunStatuses
    <3>2. /\ Idle.pc = "idle"
          /\ [Idle EXCEPT !.pc = "decided", !.run = "RUNNING"].pc = "decided"
          /\ [Idle EXCEPT !.pc = "cancelling", !.run = run, !.row = row].pc = "cancelling"
      BY IdleType DEF SessionType
    <3>3. ASSUME NEW o \in Operators, AdvanceDecided(o)
          PROVE  session' = [session EXCEPT ![o] = Idle] \/ session' = [session EXCEPT ![o] = Snapshot("RUNNING")]
      BY <3>3 DEF AdvanceDecided
    <3>4. ASSUME NEW o \in Operators, NEW r \in Rows, NEW approve \in BOOLEAN, BeginDecision(o, r, approve)
          PROVE  \A q \in Sessions : session'[q] = session[q] \/ session'[q].pc = "deciding"
      BY <1>1, <3>4 DEF BeginDecision
    <3>5. QED
      BY <1>1, <1>8, <3>1, <3>2, <3>3, <3>4
      DEF Next, BeginAdvance, Crash, BeginCancel, FinishDecision, FinishCancel, TaskMoves, LockExpires, vars
  <2>8. HeldUntasked'
    <3>1. SUFFICES ASSUME NEW q \in Sessions, session'[q].pc = "advancing",
                          NEW r \in Rows, session'[q].row[r] = "PENDING"
                   PROVE  task'[r] = NoTask
      BY DEF HeldUntasked, Advancing
    <3>2. task[r] = NoTask
      BY <2>7, <3>1 DEF LockInv, HeldUntasked, Untasked, Advancing
    <3>3. QED
      BY <2>1, <3>2
  <2>9. HeldOneRollback'
    <3>1. SUFFICES ASSUME NEW q \in Sessions, session'[q].pc = "advancing"
                   PROVE  /\ LiveRollbacks(row)' \subseteq LiveRollbacks(session'[q].row)
                          /\ \A r, p \in LiveRollbacks(session'[q].row) : r = p
      BY DEF HeldOneRollback, Advancing, LiveRollbacks
    <3>2. CASE session'[q] = session[q]
      BY <2>5, <3>1, <3>2 DEF LockInv, HeldOneRollback, Advancing
    <3>3. CASE session'[q].row = row
      BY <2>5, <3>3 DEF LockInv, OneRollbackAtATime
    <3>4. QED
      BY <2>7, <3>1, <3>2, <3>3
  <2>10. QED
    BY <1>4, <1>5, <2>3, <2>4, <2>6, <2>8, <2>9 DEF LockInv
<1>9. QED
  BY <1>7, <1>8

--------------------------------------------------------------------------
(* A run that was just instantiated satisfies the invariant.                *)
LEMMA InitIInv == Init => IInv
<1>1. SUFFICES ASSUME Init
               PROVE  IInv
  OBVIOUS
<1>2. /\ run = "PENDING"
      /\ row = [r \in Rows |-> IF r[2] = 0 THEN "PENDING" ELSE "ABSENT"]
      /\ task = [r \in Rows |-> NoTask]
      /\ lock = FALSE
      /\ session = [s \in Sessions |-> Idle]
      /\ done = {} /\ again = {} /\ ops = 0 /\ crashes = 0
  BY <1>1 DEF Init
<1>3. \A s \in Sessions : /\ session[s] \in SessionType
                          /\ session[s].pc = "idle"
                          /\ \A r \in Rows : session[s].row[r] = "ABSENT"
  BY <1>2, IdleType
<1>4. TypeOK
  <2>1. row \in [Rows -> RowStatuses]
    BY <1>2 DEF RowStatuses
  <2>2. NoTask \in [status : TaskStatuses, verdict : Verdicts]
    BY DEF NoTask, TaskStatuses, Verdicts
  <2>3. ops \in 0..MaxOps /\ crashes \in 0..MaxCrashes
    BY <1>2, ConstantsAssumption
  <2>4. session \in [Sessions -> SessionType]
    BY <1>2, <1>3
  <2>5. QED
    BY <1>2, <2>1, <2>2, <2>3, <2>4 DEF TypeOK, SessionType, RunStatuses, ActiveRunStatuses
<1>5. \A n \in Nodes : row[Own(n)] = "PENDING"
  BY <1>2, RowFacts
<1>6. GraphInv
  BY <1>2, <1>3, <1>5, RowFacts
  DEF GraphInv, StoredDone, HeldDone, HeldStarted, DecidesLive, GraphIsHonoured, CompletedRunIsDone
<1>7. LiveRollbacks(row) = {}
  BY <1>2, RowFacts DEF LiveRollbacks
<1>8. LockInv
  BY <1>2, <1>3, <1>7
  DEF LockInv, Untasked, HeldUntasked, HeldRowsExist, LockHeld, HeldOneRollback, NoSecondTask,
      OneRollbackAtATime, Advancing
<1>9. QED
  BY <1>4, <1>6, <1>8 DEF IInv

(* The inductive invariant.                                                 *)
THEOREM Invariance == Spec => []IInv
<1>1. IInv /\ [Next]_vars => IInv'
  BY TypeStep, GraphStep, LockStep DEF IInv
<1>2. QED
  BY InitIInv, <1>1, PTL DEF Spec

(* Every variable keeps its type.                                           *)
THEOREM TypeCorrect == Spec => []TypeOK
<1>1. IInv => TypeOK
  BY DEF IInv
<1>2. QED
  BY Invariance, <1>1, PTL

(* A node is started only after every node it depends on was completed.     *)
THEOREM GraphHonoured == Spec => []GraphIsHonoured
<1>1. IInv => GraphIsHonoured
  BY DEF IInv, GraphInv
<1>2. QED
  BY Invariance, <1>1, PTL

(* A run is completed only when every one of its nodes was.                 *)
THEOREM CompletionIsWhole == Spec => []CompletedRunIsDone
<1>1. IInv => CompletedRunIsDone
  BY DEF IInv, GraphInv
<1>2. QED
  BY Invariance, <1>1, PTL

(* No node and no rollback gets a second task.                              *)
THEOREM TaskedOnce == Spec => []NoSecondTask
<1>1. IInv => NoSecondTask
  BY DEF IInv, LockInv
<1>2. QED
  BY Invariance, <1>1, PTL

(* Nodes are rolled back one at a time.                                     *)
THEOREM RolledBackOneByOne == Spec => []OneRollbackAtATime
<1>1. IInv => OneRollbackAtATime
  BY DEF IInv, LockInv
<1>2. QED
  BY Invariance, <1>1, PTL

--------------------------------------------------------------------------
(***************************************************************************)
(* The action properties.  An advance and a cancellation load a run that   *)
(* is active, so a run that has ended since is not the one they hold.      *)
(***************************************************************************)
HeldActive ==
    \A s \in Sessions :
        session[s].pc \in {"advancing", "cancelling"} => session[s].run \in ActiveRunStatuses

(* Every step keeps that what is advanced or cancelled was active.          *)
LEMMA HeldActiveStep ==
    ASSUME TypeOK, HeldActive, [Next]_vars PROVE HeldActive'
<1>1. run \in RunStatuses /\ session \in [Sessions -> SessionType]
  BY DEF TypeOK, SessionType
<1>2. ASSUME NEW s \in Sessions, NEW x,
             session' = [session EXCEPT ![s] = x],
             x.pc \in {"advancing", "cancelling"} => x.run \in ActiveRunStatuses
      PROVE  HeldActive'
  BY <1>1, <1>2 DEF HeldActive
<1>3. ASSUME NEW s \in Sessions, BeginAdvance(s) PROVE HeldActive'
  <2>1. Snapshot(run).run = run
    BY <1>1, SnapshotType
  <2>2. QED
    BY <1>2, <1>3, <2>1 DEF BeginAdvance
<1>4. ASSUME NEW s \in Sessions, FinishAdvance(s) \/ Crash(s) PROVE HeldActive'
  BY <1>2, <1>4, IdleType DEF FinishAdvance, Crash
<1>5. ASSUME NEW o \in Operators, NEW r \in Rows, NEW approve \in BOOLEAN,
             BeginDecision(o, r, approve)
      PROVE  HeldActive'
  BY <1>2, <1>5 DEF BeginDecision, Sessions
<1>6. ASSUME NEW o \in Operators, FinishDecision(o) PROVE HeldActive'
  <2>1. [Idle EXCEPT !.pc = "decided", !.run = "RUNNING"].pc = "decided"
    BY IdleType DEF SessionType
  <2>2. QED
    BY <1>2, <1>6, <2>1 DEF FinishDecision, Sessions
<1>7. ASSUME NEW o \in Operators, AdvanceDecided(o) PROVE HeldActive'
  <2>1. Snapshot("RUNNING").run = "RUNNING" /\ "RUNNING" \in ActiveRunStatuses
    BY SnapshotType DEF RunStatuses, ActiveRunStatuses
  <2>2. Idle.pc = "idle"
    BY IdleType
  <2>3. QED
    BY <1>2, <1>7, <2>1, <2>2 DEF AdvanceDecided, Sessions
<1>8. ASSUME NEW o \in Operators, BeginCancel(o) PROVE HeldActive'
  <2>1. [Idle EXCEPT !.pc = "cancelling", !.run = run, !.row = row].run = run
    BY IdleType DEF SessionType
  <2>2. QED
    BY <1>2, <1>8, <2>1 DEF BeginCancel, Sessions
<1>9. ASSUME NEW o \in Operators, FinishCancel(o) PROVE HeldActive'
  BY <1>2, <1>9, IdleType DEF FinishCancel, Sessions
<1>10. CASE UNCHANGED session
  BY <1>10 DEF HeldActive
<1>11. QED
  BY <1>3, <1>4, <1>5, <1>6, <1>7, <1>8, <1>9, <1>10 DEF Next, vars, TaskMoves, LockExpires

(* Advances and cancellations hold runs that were active.                   *)
LEMMA HeldActiveHolds == Spec => []HeldActive
<1>1. Init => HeldActive
  BY IdleType DEF Init, HeldActive
<1>2. IInv /\ HeldActive /\ [Next]_vars => HeldActive'
  BY HeldActiveStep DEF IInv
<1>3. QED
  BY <1>1, <1>2, Invariance, PTL DEF Spec

(* Only a session that commits changes the run.                             *)
LEMMA ReopenedStep ==
    ASSUME TypeOK, HeldActive, [Next]_vars, run' # run, run \in EndedRunStatuses
    PROVE  \E s \in Sessions :
              /\ session'[s] # session[s]
              /\ session[s].pc \in {"deciding", "advancing", "cancelling"}
              /\ (session[s].pc = "deciding" \/ session[s].run # run)
<1>1. session \in [Sessions -> SessionType]
  BY DEF TypeOK, SessionType
<1>2. run \notin ActiveRunStatuses
  BY DEF EndedRunStatuses, ActiveRunStatuses
<1>3. ASSUME NEW s \in Sessions, FinishAdvance(s)
      PROVE  /\ session'[s] # session[s]
             /\ session[s].pc = "advancing" /\ session[s].run # run
  BY <1>1, <1>2, <1>3, IdleType DEF FinishAdvance, HeldActive
<1>4. ASSUME NEW o \in Operators, FinishCancel(o)
      PROVE  /\ o \in Sessions /\ session'[o] # session[o]
             /\ session[o].pc = "cancelling" /\ session[o].run # run
  BY <1>1, <1>2, <1>4, IdleType DEF FinishCancel, HeldActive, Sessions
<1>5. ASSUME NEW o \in Operators, FinishDecision(o)
      PROVE  o \in Sessions /\ session'[o] # session[o] /\ session[o].pc = "deciding"
  <2>1. [Idle EXCEPT !.pc = "decided", !.run = "RUNNING"].pc = "decided"
    BY IdleType DEF SessionType
  <2>2. o \in Sessions /\ session'[o].pc = "decided" /\ session[o].pc = "deciding"
    BY <1>1, <1>5, <2>1 DEF FinishDecision, Sessions
  <2>3. QED
    BY <2>2
<1>6. QED
  BY <1>3, <1>4, <1>5
  DEF Next, vars, BeginAdvance, Crash, BeginDecision, AdvanceDecided, BeginCancel, TaskMoves,
      LockExpires

(* A run that has ended is reopened by a decision on one of its nodes, or   *)
(* by an advance or a cancellation that loaded it before it ended.          *)
THEOREM ReopenedOnlySo == Spec => ReopenedOnlyByDecisionOrStaleCopy
<1>1. IInv /\ HeldActive /\ [Next]_vars =>
         [run' # run /\ run \in EndedRunStatuses =>
             \E s \in Sessions :
                 /\ session'[s] # session[s]
                 /\ session[s].pc \in {"deciding", "advancing", "cancelling"}
                 /\ (session[s].pc = "deciding" \/ session[s].run # run)]_vars
  BY ReopenedStep DEF IInv
<1>2. Spec => [][Next]_vars
  BY DEF Spec
<1>3. QED
  BY <1>1, <1>2, Invariance, HeldActiveHolds, PTL DEF ReopenedOnlyByDecisionOrStaleCopy

--------------------------------------------------------------------------
(* A rollback is started for a deepest one of the nodes that remain.        *)
LEMMA StartsDeepest ==
    ASSUME NEW rows \in [Rows -> RowStatuses], NEW result \in AdvanceRollback(rows),
           NEW r \in RollbackRows, rows[r] = "ABSENT", result.row[r] # "ABSENT"
    PROVE  r[1] \in Deepest(Remaining(rows))
<1>1. r \in Rows
  BY RowFacts
<1>2. CASE LiveRollbacks(rows) # {}
  <2>1. PICK q \in LiveRollbacks(rows) :
           result = Result(IF SyncTaskNode(q) = "FAILED" THEN "FAILED" ELSE "ROLLING_BACK",
                           [rows EXCEPT ![q] = SyncTaskNode(q)], {})
    BY <1>2 DEF AdvanceRollback
  <2>2. rows[q] \in Live /\ result.row = [rows EXCEPT ![q] = SyncTaskNode(q)]
    BY <2>1 DEF LiveRollbacks, Result
  <2>3. QED
    BY <1>1, <2>2
<1>3. CASE LiveRollbacks(rows) = {} /\ Remaining(rows) = {}
  <2>1. result.row = rows
    BY <1>3 DEF AdvanceRollback, Result
  <2>2. QED
    BY <2>1
<1>4. CASE LiveRollbacks(rows) = {} /\ Remaining(rows) # {}
  <2>1. PICK n \in {m \in Deepest(Remaining(rows)) : FreshRows(m) # {}} :
           result = Result("ROLLING_BACK", [rows EXCEPT ![NewRow(n)] = "RUNNING"], {NewRow(n)})
    BY <1>4 DEF AdvanceRollback
  <2>2. NewRow(n) \in FreshRows(n)
    BY <2>1 DEF NewRow
  <2>3. NewRow(n)[1] = n
    BY <2>2 DEF FreshRows
  <2>4. result.row = [rows EXCEPT ![NewRow(n)] = "RUNNING"]
    BY <2>1 DEF Result
  <2>5. r = NewRow(n)
    BY <1>1, <2>4
  <2>6. QED
    BY <2>1, <2>3, <2>5
<1>5. QED
  BY <1>2, <1>3, <1>4

(* What activates nodes, or only mirrors tasks, starts no rollback; an      *)
(* advance that starts one does it from the rows it holds, or from those    *)
(* that it mirrored.                                                        *)
LEMMA AdvanceStartsDeepest ==
    ASSUME NEW h, h.row \in [Rows -> RowStatuses], NEW result \in AdvanceRun(h),
           NEW r \in RollbackRows, h.row[r] = "ABSENT", result.row[r] # "ABSENT"
    PROVE  \/ r[1] \in Deepest(Remaining(h.row))
           \/ r[1] \in Deepest(Remaining(Synced(h.row)))
<1>1. /\ Synced(h.row) \in [Rows -> RowStatuses]
      /\ Synced(h.row)[r] = "ABSENT"
      /\ r \in Rows /\ r[2] # 0
  BY SyncedFacts, RowFacts
<1>2. CASE result \in AdvanceRollback(h.row)
  BY <1>2, StartsDeepest
<1>3. CASE result \in AdvanceRollback(Synced(h.row))
  BY <1>1, <1>3, StartsDeepest
<1>4. CASE result = Activate(Synced(h.row))
  <2>1. result.row[r] = Synced(h.row)[r]
    BY <1>1, <1>4 DEF Activate, Result
  <2>2. QED
    BY <1>1, <2>1
<1>5. CASE result = Result("FAILED", Synced(h.row), {})
  BY <1>1, <1>5 DEF Result
<1>6. QED
  BY <1>2, <1>3, <1>4, <1>5 DEF AdvanceRun

(* A node that remains to be rolled back, and whose rows a session holds as *)
(* they are stored, remains so for the session, mirrored or not.            *)
LEMMA RemainsSeen ==
    ASSUME TypeOK, NEW held \in [Rows -> RowStatuses], NEW n \in Nodes,
           n \in Compensable(row) \ RolledBack(row),
           \A k \in 0..MaxRollbacks : held[<<n, k>>] = row[<<n, k>>]
    PROVE  n \in Remaining(held) /\ n \in Remaining(Synced(held))
<1>1. MaxRollbacks \in Nat \ {0} /\ 0 \in 0..MaxRollbacks
  BY ConstantsAssumption
<1>2. held[Own(n)] = "COMPLETED" /\ n \in HasRollback
  BY <1>1 DEF Own, Compensable
<1>3. \A k \in 1..MaxRollbacks : held[<<n, k>>] # "ROLLED_BACK" /\ <<n, k>> \in RollbackRows
  BY <1>1 DEF RolledBack, RollbackRows
<1>4. Synced(held)[Own(n)] = "COMPLETED"
  BY <1>2, SyncedFacts, RowFacts
<1>5. \A k \in 1..MaxRollbacks : Synced(held)[<<n, k>>] # "ROLLED_BACK"
  BY <1>3, SyncedFacts, RowFacts
<1>6. QED
  BY <1>2, <1>3, <1>4, <1>5 DEF Remaining, Compensable, RolledBack

(* Only an advance starts a rollback.                                       *)
LEMMA BackwardsStep ==
    ASSUME IInv, [Next]_vars, NEW r \in RollbackRows, row[r] = "ABSENT", row'[r] # "ABSENT",
           NEW n \in Compensable(row) \ RolledBack(row), Level[n] > Level[r[1]]
    PROVE  \E s \in Sessions : /\ Advancing(s) /\ session'[s].pc = "idle"
                               /\ \E k \in 0..MaxRollbacks :
                                     session[s].row[<<n, k>>] # row[<<n, k>>]
<1>1. /\ session \in [Sessions -> SessionType] /\ row \in [Rows -> RowStatuses]
      /\ r \in Rows
  BY RowFacts DEF IInv, TypeOK, SessionType
<1>2. \A s \in Sessions : session[s].row[r] = "ABSENT" /\ session[s].row \in [Rows -> RowStatuses]
  BY <1>1 DEF IInv, LockInv, HeldRowsExist, SessionType
<1>3. n \in Nodes /\ r[1] \in Nodes
  BY ConstantsAssumption DEF Compensable, RollbackRows
<1>4. ASSUME NEW s \in Sessions, FinishAdvance(s)
      PROVE  /\ Advancing(s) /\ session'[s].pc = "idle"
             /\ \E k \in 0..MaxRollbacks : session[s].row[<<n, k>>] # row[<<n, k>>]
  <2>1. Advancing(s) /\ session'[s].pc = "idle"
    BY <1>1, <1>4, IdleType DEF FinishAdvance, Advancing
  <2>2. PICK result \in AdvanceRun(session[s]) :
           row' = [q \in Rows |-> Flush(row[q], session[s].row[q], result.row[q])]
    BY <1>4 DEF FinishAdvance, Commit
  <2>3. result.row[r] # "ABSENT"
    BY <1>1, <1>2, <2>2 DEF Flush
  <2>4. \/ r[1] \in Deepest(Remaining(session[s].row))
        \/ r[1] \in Deepest(Remaining(Synced(session[s].row)))
    BY <1>2, <2>3, AdvanceStartsDeepest
  <2>5. SUFFICES ASSUME \A k \in 0..MaxRollbacks : session[s].row[<<n, k>>] = row[<<n, k>>]
                 PROVE  FALSE
    BY <2>1
  <2>6. n \in Remaining(session[s].row) /\ n \in Remaining(Synced(session[s].row))
    BY <1>2, <1>3, <2>5, RemainsSeen DEF IInv
  <2>7. Level[n] <= Level[r[1]]
    BY <2>4, <2>6 DEF Deepest
  <2>8. Level[n] \in Nat /\ Level[r[1]] \in Nat
    BY <1>3, ConstantsAssumption
  <2>9. QED
    BY <2>7, <2>8
<1>5. ASSUME NEW o \in Operators, FinishDecision(o) PROVE FALSE
  <2>1. o \in Sessions /\ session[o].pc = "deciding"
    BY <1>5 DEF FinishDecision, Sessions
  <2>2. session[o].row[session[o].at] \in Live
    BY <2>1 DEF IInv, GraphInv, DecidesLive
  <2>3. session[o].at # r
    BY <1>2, <2>1, <2>2
  <2>4. row' = [row EXCEPT ![session[o].at] = Decided(session[o].at, session[o].approve)]
    BY <1>5 DEF FinishDecision, Commit
  <2>5. QED
    BY <1>1, <2>3, <2>4
<1>6. ASSUME NEW o \in Operators, FinishCancel(o) PROVE FALSE
  <2>1. o \in Sessions
    BY DEF Sessions
  <2>2. QED
    BY <1>1, <1>2, <1>6, <2>1 DEF FinishCancel, Commit
<1>7. row' # row
  OBVIOUS
<1>8. QED
  BY <1>4, <1>5, <1>6, <1>7
  DEF Next, vars, BeginAdvance, Crash, BeginDecision, AdvanceDecided, BeginCancel, TaskMoves,
      LockExpires

(* Compensation goes backwards: no rollback of a node starts before those   *)
(* of the completed nodes in deeper layers, unless the advance that starts  *)
(* it holds rows of such a node that are out of date.                       *)
THEOREM GoesBackwards == Spec => CompensationGoesBackwards
<1>1. IInv /\ [Next]_vars =>
         [\A r \in RollbackRows : row[r] = "ABSENT" /\ row'[r] # "ABSENT" =>
             \A n \in Compensable(row) \ RolledBack(row) : Level[n] > Level[r[1]] =>
                 \E s \in Sessions : Advancing(s) /\ session'[s].pc = "idle"
                                     /\ \E k \in 0..MaxRollbacks :
                                           session[s].row[<<n, k>>] # row[<<n, k>>]]_vars
  BY BackwardsStep
<1>2. Spec => [][Next]_vars
  BY DEF Spec
<1>3. QED
  BY <1>1, <1>2, Invariance, PTL DEF CompensationGoesBackwards
============================================================================
