--------------------------- MODULE Evaluation ---------------------------
(***************************************************************************)
(* Evaluation, verification and replay (phase 9, with the hardened         *)
(* functions that replace its first ones): the verdict on the result of a  *)
(* task, the reopening of a completed one, the agent's reliability, and    *)
(* replays.                                                                *)
(*                                                                         *)
(* The evaluator ticks in every replica, without a lock.  A tick scans the *)
(* tasks from a cursor that the replicas share, judges a batch of them on  *)
(* the copies it loaded, and commits everything at its end.                *)
(*                                                                         *)
(* A result is its version: a number for each text that stable_snapshot    *)
(* hashes, the content and the state of its dispatch without the           *)
(* verification block and the task's status.  What the evaluation finds in *)
(* a text is chosen when the text is written.  A text may be too long to   *)
(* be written back with its verdict; bounded_payload then cuts it, and     *)
(* what it leaves is another text.  Left out: how texts give scores, the   *)
(* policy's switches (reopening is on), the route of a replay (Routing)    *)
(* and the mission.                                                        *)
(***************************************************************************)
EXTENDS Integers, Sequences, FiniteSets

CONSTANTS
    Tasks,        \* collaboration_tasks.id
    Automatic,    \* tasks with review_policy AUTO
    Replays,      \* tasks that are there for replays
    Sessions,     \* evaluator ticks and requests of all replicas
    Batch,        \* EVALUATOR_BATCH
    ScanLimit,    \* rows a tick scans
    MaxResults,   \* bound: texts a task may have; the last one is not cut
    MaxMoves,     \* bound: commands of operators and crashes
    Qualities,    \* what may be found in a result
    Scenarios     \* the tasks, texts and moves an instance starts with

ASSUME EvaluationAssumption ==
    /\ Tasks \subseteq Nat \ {0} /\ IsFiniteSet(Tasks)
    /\ Automatic \subseteq Tasks \ Replays   \* create_replay: review_policy "HUMAN"
    /\ Replays \subseteq Tasks
    /\ Batch \in Nat \ {0} /\ ScanLimit \in Nat \ {0}
    /\ MaxResults \in Nat /\ MaxMoves \in Nat
    /\ Scenarios \subseteq [tasks : SUBSET (Tasks \ Replays), sessions : SUBSET Sessions,
                            texts : 0..MaxResults, moves : 0..MaxMoves]
    /\ Qualities \subseteq [score : 0..2, gaps : BOOLEAN, traced : BOOLEAN, error : BOOLEAN,
                            long : BOOLEAN]
    /\ \E q \in Qualities : ~q.long

VARIABLES
    task,      \* collaboration_tasks with the end of the linked dispatch
    runs,      \* evaluation_runs of each task, in the order of created_at
    counted,   \* the evaluations in the agent's evaluation_quality
    replay,    \* evaluation_replays by replay task
    cursor,    \* beezaoffice:evaluator-task-cursor
    session,
    accepted,  \* the evaluated result of each task an operator accepted last, or -1
    crossed,   \* tasks judged by a session while another one committed
    moves

vars == <<task, runs, counted, replay, cursor, session, accepted, crossed, moves>>

Results == 0..MaxResults
Ended == {"COMPLETED", "FAILED", "CANCELLED"}
Evaluatable == {"COMPLETED", "REVIEW", "FAILED", "BLOCKED"}
(* OPEN stands for what waits or runs.                                     *)
Statuses == {"ABSENT", "OPEN"} \cup Evaluatable \cup Ended

(* merged: the result holds what the dispatch ended with; found: score     *)
(* (below WARN, below PASS, PASS) and findings of the text; made: texts so *)
(* far; cut: those of them that an evaluation made by writing its verdict. *)
TaskRows == [status : Statuses, dispatch : {"NONE", "RUNNING", "COMPLETED", "FAILED"},
             merged : BOOLEAN, result : Results, found : Qualities, made : Results,
             cut : SUBSET Results]
NewTask(status, n) ==
    [status |-> status, dispatch |-> "NONE", merged |-> FALSE, result |-> n,
     found |-> CHOOSE q \in Qualities : ~q.long, made |-> n, cut |-> {}]
ReplayRows == [source : Tasks \cup {0}, status : {"NONE", "QUEUED", "RUNNING"} \cup Ended, compared : BOOLEAN]
NoReplay == [source |-> 0, status |-> "NONE", compared |-> FALSE]

Closed == [pc |-> "closed", rows |-> <<>>, forced |-> FALSE, ticks |-> FALSE,
           chosen |-> {}, known |-> {}, agent |-> {}, late |-> {}, behind |-> FALSE]

Init ==
    /\ \E s \in Scenarios :
          /\ task = [t \in Tasks |-> NewTask(IF t \in s.tasks THEN "OPEN" ELSE "ABSENT",
                                             MaxResults - s.texts)]
          /\ session = [r \in Sessions |->
                           [Closed EXCEPT !.pc = IF r \in s.sessions THEN "closed" ELSE "unused"]]
          /\ moves = MaxMoves - s.moves
    /\ runs = [t \in Tasks |-> <<>>]
    /\ counted = {}
    /\ replay = [t \in Tasks |-> NoReplay]
    /\ cursor = 0
    /\ accepted = [t \in Tasks |-> -1]
    /\ crossed = {}

-----------------------------------------------------------------------------
(* The first n of a set of ids.                                            *)
FirstOf(S, n) == {t \in S : Cardinality({u \in S : u < t}) < n}

(* rotating_tasks                                                          *)
Scanned ==
    LET listed == {t \in Tasks : task[t].status \in Evaluatable}
        next == {t \in listed : t > cursor}
    IN FirstOf(IF next = {} THEN listed ELSE next, ScanLimit)

Last(S) == IF S = {} THEN 0 ELSE CHOOSE t \in S : \A u \in S : u <= t

Load(s, S, forced, ticks) ==
    session' = [session EXCEPT ![s] =
        [Closed EXCEPT !.pc = "loaded", !.rows = [t \in S |-> task[t]],
                       !.forced = forced, !.ticks = ticks]]

TickLoad(s) ==
    /\ session[s].pc = "closed"
    /\ Load(s, Scanned, FALSE, TRUE)
    /\ cursor' = Last(Scanned)
    /\ UNCHANGED <<task, runs, counted, replay, accepted, crossed, moves>>

(* POST /api/evaluation/tasks/{task_key}                                   *)
RequestLoad(s, t) ==
    /\ session[s].pc = "closed"
    /\ moves < MaxMoves /\ moves' = moves + 1
    /\ task[t].status \in Evaluatable
    /\ \E forced \in BOOLEAN : Load(s, {t}, forced, FALSE)
    /\ UNCHANGED <<task, runs, counted, replay, cursor, accepted, crossed>>

(* Mutant: the hash of a result takes in the task's status.                *)
EvaluatedMutant(t, row) ==
    \E i \in DOMAIN runs[t] : runs[t][i].result = row.result /\ runs[t][i].status = row.status

(* A run for the hash of the row's result is in the table.                 *)
Evaluated(t, row) == \E i \in DOMAIN runs[t] : runs[t][i].result = row.result

(* Mutant: the batch is cut before what has an evaluation is passed over.  *)
ToEvaluateMutant(n, known) ==
    IF n.forced THEN DOMAIN n.rows ELSE FirstOf(DOMAIN n.rows, Batch) \ known

(* The tick passes over what has an evaluation, until its batch is full.   *)
ToEvaluate(n, known) ==
    IF n.forced THEN DOMAIN n.rows ELSE FirstOf(DOMAIN n.rows \ known, Batch)

(* The session looks for runs of what it loaded, and loads the agent.      *)
Judge(s) ==
    LET rows == session[s].rows
        known == {t \in DOMAIN rows : Evaluated(t, rows[t])}
    IN
    /\ session[s].pc = "loaded"
    /\ session' = [session EXCEPT ![s].pc = "judged", ![s].agent = counted, ![s].known = known,
                     ![s].chosen = ToEvaluate(session[s], known)]
    /\ UNCHANGED <<task, runs, counted, replay, cursor, accepted, crossed, moves>>

(* A result with an error contradicts the status of a success.             *)
Conflict(row) == row.found.error /\ row.status \in {"COMPLETED", "REVIEW"}

(* evaluate_components finds errors, and the score decides among the rest. *)
Verdict(row) ==
    LET q == row.found  grave == Conflict(row) \/ ~q.traced IN
    IF q.score = 2 /\ ~grave /\ ~q.gaps THEN "PASS"
    ELSE IF q.score >= 1 /\ ~grave THEN "WARN"
    ELSE "FAIL"

(* The status stable_evaluate_task gives its copy of a row.                *)
Reopened(row) ==
    IF Verdict(row) = "FAIL" /\ row.status = "COMPLETED" THEN "REVIEW" ELSE row.status

(* A row with another text, of which an evaluation will find q.            *)
Rewritten(row, q, merged) ==
    [row EXCEPT !.result = row.made + 1, !.made = @ + 1, !.found = q, !.merged = merged]

(* The texts there is room for; the last of them is not cut again.         *)
Texts(row) == {q \in Qualities : row.made < MaxResults /\ (q.long => row.made + 1 < MaxResults)}

(* The row after the session's UPDATE: the result is written whole, and    *)
(* cut if it is too long with the verdict; the status if the session       *)
(* changed it.                                                             *)
Written(t, row, q) ==
    LET status == IF Reopened(row) = row.status THEN task[t].status ELSE Reopened(row)
        new == Rewritten(task[t], q, FALSE)
    IN IF row.found.long /\ q \in Texts(task[t])
       THEN [new EXCEPT !.status = status, !.cut = @ \cup {new.result}]
       ELSE [task[t] EXCEPT !.result = row.result, !.found = row.found, !.merged = row.merged,
                            !.status = status]

(* complete_replay_state: the replay follows its task, and is compared     *)
(* with the source as soon as the replay task has an evaluation.           *)
Tracked(r, status, evaluated) ==
    [r EXCEPT !.status = CASE status = "OPEN" -> "RUNNING"
                           [] status = "REVIEW" -> "RUNNING"
                           [] status = "BLOCKED" -> "FAILED"
                           [] OTHER -> status,
              !.compared = r.compared \/ evaluated]

(* A tick passes over replays that have ended and have a comparison.       *)
NeedsUpdate(r) == r.status # "NONE" /\ (r.status \notin Ended \/ ~r.compared)

(* Mutant: an evaluation that was asked for is not counted.                *)
CountsMutant(n) == {<<t, n.rows[t].result>> : t \in {t \in n.chosen \ n.known : ~n.forced}}

(* update_agent_quality counts evaluations of results that had none.       *)
Counts(n) == {<<t, n.rows[t].result>> : t \in n.chosen \ n.known}

Commit(s) ==
    LET n == session[s]
        made(t) == [verdict |-> Verdict(n.rows[t]), result |-> n.rows[t].result,
                    status |-> n.rows[t].status, forced |-> n.forced, long |-> n.rows[t].found.long]
    IN
    /\ n.pc = "judged"
    /\ \E q \in [n.chosen -> Qualities] :
          task' = [t \in Tasks |-> IF t \in n.chosen THEN Written(t, n.rows[t], q[t]) ELSE task[t]]
    /\ runs' = [t \in Tasks |-> IF t \in n.chosen THEN Append(runs[t], made(t)) ELSE runs[t]]
    /\ counted' = IF Counts(n) = {} THEN counted ELSE n.agent \cup Counts(n)
    /\ replay' = [t \in Tasks |->
                     IF n.ticks /\ NeedsUpdate(replay[t])
                     THEN Tracked(replay[t], task'[t].status, runs'[t] # <<>>) ELSE replay[t]]
    /\ crossed' = crossed \cup (IF n.behind THEN n.chosen ELSE n.chosen \cap n.late)
    /\ session' = [r \in Sessions |->
                     IF r = s THEN Closed
                     ELSE [session[r] EXCEPT !.late = @ \cup (n.chosen \cap DOMAIN session[r].rows),
                                             !.behind = session[r].pc \notin {"closed", "unused"}]]
    /\ UNCHANGED <<cursor, accepted, moves>>

(* GET /api/evaluation/replays/{replay_key} brings the replay up to date.  *)
ReadReplay(t) ==
    /\ moves < MaxMoves /\ moves' = moves + 1
    /\ replay[t].status # "NONE"
    /\ replay' = [replay EXCEPT ![t] = Tracked(@, task[t].status, runs[t] # <<>>)]
    /\ UNCHANGED <<task, runs, counted, cursor, session, accepted, crossed>>

CreateReplay(source, t) ==
    /\ moves < MaxMoves /\ moves' = moves + 1
    /\ t \in Replays /\ task[t].status = "ABSENT"
    /\ task[source].status \in Ended \cup {"REVIEW", "BLOCKED"}
    /\ task' = [task EXCEPT ![t].status = "OPEN"]
    /\ replay' = [replay EXCEPT ![t] = [source |-> source, status |-> "QUEUED", compared |-> FALSE]]
    /\ UNCHANGED <<runs, counted, cursor, session, accepted, crossed>>

-----------------------------------------------------------------------------
(* What the bus does to tasks; each is one transaction here, and the       *)
(* evaluator's copies of the row are out of date from then on.             *)
Change(t, row) ==
    /\ task' = [task EXCEPT ![t] = row]
    /\ session' = [s \in Sessions |->
                     [session[s] EXCEPT !.late = @ \cup ({t} \cap DOMAIN session[s].rows)]]
    /\ UNCHANGED <<runs, counted, replay, cursor, crossed>>

DispatchTask(t) ==
    /\ task[t].status = "OPEN" /\ task[t].dispatch = "NONE"
    /\ Change(t, [task[t] EXCEPT !.dispatch = "RUNNING"])
    /\ UNCHANGED <<accepted, moves>>

(* The hash takes in the output and the status of the dispatch.            *)
DispatchEnds(t) ==
    /\ task[t].dispatch = "RUNNING"
    /\ \E end \in {"COMPLETED", "FAILED"}, q \in Texts(task[t]) :
          Change(t, [Rewritten(task[t], q, FALSE) EXCEPT !.dispatch = end])
    /\ UNCHANGED <<accepted, moves>>

(* A collaboration tick mirrors the dispatch of every task that has not    *)
(* ended, REVIEW and BLOCKED included, and merges its output or its error  *)
(* into the result.                                                        *)
MirrorDispatchState(t) ==
    LET row == task[t]
        mirrored == CASE row.dispatch = "RUNNING" -> "OPEN"
                      [] row.dispatch = "FAILED" -> "FAILED"
                      [] OTHER -> IF t \in Automatic THEN "COMPLETED" ELSE "REVIEW"
    IN
    /\ row.status \notin Ended \cup {"ABSENT"} /\ row.dispatch # "NONE"
    /\ \/ /\ row.dispatch = "RUNNING" \/ row.merged
          /\ row.status # mirrored
          /\ Change(t, [row EXCEPT !.status = mirrored])
       \/ /\ row.dispatch # "RUNNING" /\ ~row.merged
          /\ \E q \in Texts(row) : Change(t, [Rewritten(row, q, TRUE) EXCEPT !.status = mirrored])
    /\ UNCHANGED <<accepted, moves>>

(* Review decisions and task actions.  complete and block write their note *)
(* and payload into the result, over what the dispatch left there perhaps; *)
(* those that queue the task again keep the dispatch or drop it.           *)
Operate(t) ==
    LET row == task[t] IN
    /\ moves < MaxMoves /\ moves' = moves + 1
    /\ row.status # "ABSENT"
    /\ \/ /\ row.status \in {"REVIEW", "COMPLETED"}
          /\ Change(t, [row EXCEPT !.status = "COMPLETED"])
          /\ accepted' = [accepted EXCEPT ![t] = IF Evaluated(t, row) THEN row.result ELSE @]
       \/ /\ \/ /\ row.status \in {"REVIEW", "COMPLETED"}
                /\ Change(t, [row EXCEPT !.status = "FAILED"])
             \/ Change(t, [row EXCEPT !.status = "CANCELLED"])
             \/ \E status \in {"COMPLETED", "BLOCKED"}, q \in Texts(row), merged \in {FALSE, row.merged} :
                   Change(t, [Rewritten(row, q, merged) EXCEPT !.status = status])
             \/ \E dispatch \in {"NONE", row.dispatch} :
                   Change(t, [row EXCEPT !.status = "OPEN", !.dispatch = dispatch])
          /\ UNCHANGED accepted

Crash(s) ==
    /\ moves < MaxMoves /\ moves' = moves + 1
    /\ session[s].pc \in {"loaded", "judged"}
    /\ session' = [session EXCEPT ![s] = Closed]
    /\ UNCHANGED <<task, runs, counted, replay, cursor, accepted, crossed>>

EvaluationTick(s) == TickLoad(s) \/ Judge(s) \/ Commit(s)

Next ==
    \/ \E s \in Sessions : EvaluationTick(s) \/ Crash(s) \/ \E t \in Tasks : RequestLoad(s, t)
    \/ \E t \in Tasks : ReadReplay(t) \/ \E source \in Tasks : CreateReplay(source, t)
    \/ \E t \in Tasks : DispatchTask(t) \/ DispatchEnds(t) \/ MirrorDispatchState(t) \/ Operate(t)

Spec == Init /\ [][Next]_vars

(* evaluator_worker ticks every few seconds.                               *)
FairSpec == Spec /\ \A s \in Sessions : WF_vars(EvaluationTick(s))

-----------------------------------------------------------------------------
(* Types.                                                                  *)
TypeOK ==
    /\ task \in [Tasks -> TaskRows]
    /\ counted \subseteq Tasks \X Results
    /\ replay \in [Tasks -> ReplayRows]
    /\ cursor \in Tasks \cup {0}
    /\ accepted \in [Tasks -> Results \cup {-1}]
    /\ \A t \in Tasks : runs[t] \in Seq([verdict : {"PASS", "WARN", "FAIL"}, result : Results,
                                         status : Evaluatable, forced : BOOLEAN, long : BOOLEAN])
    /\ \A s \in Sessions :
          /\ session[s].pc \in {"unused", "closed", "loaded", "judged"}
          /\ session[s].chosen \cup session[s].known \cup session[s].late \subseteq DOMAIN session[s].rows

(* A text is evaluated once, unless it is forced or sessions overlapped.   *)
OncePerText ==
    \A t \in Tasks \ crossed : \A i, j \in DOMAIN runs[t] :
        i < j /\ runs[t][i].result = runs[t][j].result => runs[t][j].forced

(* A text that an evaluation made comes from one that was too long.        *)
CutsFollowLongTexts ==
    \A t \in Tasks : \A j \in DOMAIN runs[t] :
        runs[t][j].result \in task[t].cut => \E i \in DOMAIN runs[t] : i < j /\ runs[t][i].long

(* A text is evaluated once, unless it is forced or two sessions           *)
(* overlapped; and an evaluation leads to the next by itself only where    *)
(* its verdict made a result too long, so that it was cut, and what is     *)
(* left is another text (evaluation_hardening.py:245, 421).                *)
OneEvaluationPerResult == OncePerText /\ CutsFollowLongTexts

(* The agent's quality takes in every evaluated result, unless a session   *)
(* wrote back a profile it had loaded before another one's commit          *)
(* (evaluation_service.py:395).                                            *)
QualityCountsEveryResult ==
    crossed = {} => \A t \in Tasks : \A i \in DOMAIN runs[t] : <<t, runs[t][i].result>> \in counted

(* A text that has been evaluated and that a review accepts then is not    *)
(* reopened: only a forced evaluation, or a session that had loaded the    *)
(* task before, sets it back to REVIEW.  The action complete is no such    *)
(* acceptance: the note it writes into the result makes another text,      *)
(* which is evaluated and may be reopened (evaluation_hardening.py:246).   *)
AcceptanceStands ==
    [][\A t \in Tasks :
          task[t].status = "COMPLETED" /\ task'[t].status = "REVIEW" /\ accepted[t] = task[t].result =>
              t \in crossed' \/ \E s \in Sessions : session[s].forced /\ session'[s].pc = "closed"]_vars

(* Every result of a task at rest is evaluated, however the cursor of the  *)
(* replicas jumps (evaluation_hardening.py:356), and a replay comes to its *)
(* end with its task, and is compared.                                     *)
ResultsAreEvaluated ==
    /\ \A t \in Tasks : (task[t].status \in Evaluatable /\ ~Evaluated(t, task[t])) ~>
                           (task[t].status \notin Evaluatable \/ Evaluated(t, task[t]))
    /\ \A t \in Replays : (replay[t].status # "NONE" /\ task[t].status = "COMPLETED") ~>
                             (task[t].status # "COMPLETED" \/ replay[t].compared)

(* A task that was reopened because its verification failed waits for an   *)
(* operator (docs/PHASE-9-EVALUATION.md:138).                 *)
FailedVerificationStands ==
    [][\A t \in Automatic :
          task[t].status = "REVIEW" /\ task'[t].status = "COMPLETED" => moves' # moves]_vars
==========================================================================
