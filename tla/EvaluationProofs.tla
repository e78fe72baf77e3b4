------------------------- MODULE EvaluationProofs -------------------------
(***************************************************************************)
(* Proofs about Evaluation, for every set of tasks, sessions and results,  *)
(* for every batch and scan, and for every bound.                          *)
(***************************************************************************)
EXTENDS Evaluation, FiniteSetTheorems, WellFoundedInduction, TLAPS

(***************************************************************************)
(* The inductive invariant.  A session judges and commits the copies it    *)
(* loaded; what saves it is that late and behind tell which of them, and   *)
(* whether its copy of the agent, can be out of date.                      *)
(***************************************************************************)
Verdicts == [verdict : {"PASS", "WARN", "FAIL"}, result : Results, status : Evaluatable,
             forced : BOOLEAN, long : BOOLEAN]
Pages == UNION {[S -> TaskRows] : S \in SUBSET Tasks}
SessionRows ==
    [pc : {"unused", "closed", "loaded", "judged"}, rows : Pages, forced : BOOLEAN, ticks : BOOLEAN,
     chosen : SUBSET Tasks, known : SUBSET Tasks, agent : SUBSET (Tasks \X Results),
     late : SUBSET Tasks, behind : BOOLEAN]

Typed ==
    /\ task \in [Tasks -> TaskRows]
    /\ runs \in [Tasks -> Seq(Verdicts)]
    /\ counted \subseteq Tasks \X Results
    /\ replay \in [Tasks -> ReplayRows]
    /\ cursor \in Tasks \cup {0}
    /\ session \in [Sessions -> SessionRows]
    /\ accepted \in [Tasks -> Results \cup {-1}]

(* The copies of a session that is at work are of tasks that exist, and a  *)
(* copy nobody has written over is the row.                                *)
Copies(s) ==
    LET n == session[s] IN
    /\ n.chosen \cup n.known \cup n.late \subseteq DOMAIN n.rows
    /\ n.pc \in {"loaded", "judged"} =>
          \A t \in DOMAIN n.rows :
             /\ n.rows[t].status \in Evaluatable /\ task[t].status # "ABSENT"
             /\ t \in n.late \/ n.rows[t] = task[t]

(* What a session found known is in the table; what it chose of itself is  *)
(* not, unless somebody committed it meanwhile; and its copy of the agent  *)
(* is the agent, unless somebody committed anything.                       *)
Findings(s) ==
    LET n == session[s] IN
    n.pc = "judged" =>
       /\ \A t \in n.known : Evaluated(t, n.rows[t])
       /\ \A t \in n.chosen \ n.late : n.forced \/ ~Evaluated(t, n.rows[t])
       /\ n.behind \/ n.agent = counted

(* What an operator accepted after its evaluation has one.                 *)
AcceptedWasEvaluated ==
    \A t \in Tasks : accepted[t] = -1 \/ \E i \in DOMAIN runs[t] : runs[t][i].result = accepted[t]

(* A task that does not exist has neither replay nor dispatch.             *)
AbsentIsIdle ==
    \A t \in Tasks :
        task[t].status = "ABSENT" => replay[t].status = "NONE" /\ task[t].dispatch = "NONE"

IInv ==
    /\ Typed
    /\ \A s \in Sessions : Copies(s) /\ Findings(s)
    /\ AcceptedWasEvaluated
    /\ AbsentIsIdle
    /\ OncePerText
    /\ QualityCountsEveryResult

-----------------------------------------------------------------------------
(***************************************************************************)
(* Facts about the operators of the model.                                 *)
(***************************************************************************)

(* A finite set of natural numbers that has a member has a largest one.    *)
LEMMA LargestExists ==
    ASSUME NEW S \in SUBSET Nat, IsFiniteSet(S), S # {}
    PROVE  \E t \in S : \A u \in S : u <= t
<1> DEFINE Over(t) == {u \in S : u > t}
           Sizes == {Cardinality(Over(t)) : t \in S}
<1>1. \A t \in S : IsFiniteSet(Over(t)) /\ Cardinality(Over(t)) \in Nat
  BY FS_Subset, FS_CardinalityType
<1>2. Sizes \in SUBSET Nat /\ Sizes # {}
  BY <1>1
<1>3. PICK n \in Sizes : \A m \in Sizes : ~(<<m, n>> \in OpToRel(<, Nat))
  BY <1>2, NatLessThanWellFounded, WFMin
<1>4. PICK t \in S : n = Cardinality(Over(t))
  OBVIOUS
<1>5. ASSUME NEW u \in S, ~(u <= t) PROVE FALSE
  <2>1. u \in Over(t) /\ u \notin Over(u) /\ Over(u) \subseteq Over(t)
    BY <1>4, <1>5
  <2>2. Cardinality(Over(u)) <= Cardinality(Over(t)) /\ Cardinality(Over(u)) # Cardinality(Over(t))
    <3>1. t \in S
      BY <1>4
    <3>2. IsFiniteSet(Over(t)) /\ Over(u) # Over(t)
      BY <1>1, <2>1, <3>1
    <3>3. QED  BY <2>1, <3>2, FS_Subset
  <2>3. Cardinality(Over(u)) < Cardinality(Over(t)) /\ Cardinality(Over(u)) \in Sizes
    <3>1. Cardinality(Over(u)) \in Nat /\ Cardinality(Over(t)) \in Nat
      BY <1>1, <1>4, <1>5
    <3>2. Cardinality(Over(u)) \in Sizes
      BY <1>5
    <3> HIDE DEF Over
    <3>3. QED  BY <2>2, <3>1, <3>2
  <2>4. <<Cardinality(Over(u)), n>> \in OpToRel(<, Nat)
    BY <1>1, <1>4, <2>3 DEF OpToRel
  <2>5. QED  BY <1>3, <2>3, <2>4
<1>6. QED  BY <1>5

(* The cursor is the last task of a scan, or is set back.                  *)
LEMMA LastIsOfTheScan ==
    ASSUME NEW S \in SUBSET Tasks
    PROVE  Last(S) \in S \cup {0} /\ \A t \in S : t <= Last(S)
<1>1. IsFiniteSet(S) /\ S \subseteq Nat
  BY EvaluationAssumption, FS_Subset
<1>2. CASE S = {}
  BY <1>2 DEF Last
<1>3. CASE S # {}
  <2>1. \E t \in S : \A u \in S : u <= t
    BY <1>1, <1>3, LargestExists
  <2>2. QED  BY <1>3, <2>1 DEF Last
<1>4. QED  BY <1>2, <1>3

(* A scan lists tasks that can be evaluated.                               *)
LEMMA ScanIsEvaluatable == Scanned \subseteq {t \in Tasks : task[t].status \in Evaluatable}
BY DEF Scanned, FirstOf

(* What Append does to a sequence of runs.                                 *)
LEMMA AppendAdds ==
    ASSUME NEW V, NEW q \in Seq(V), NEW v \in V
    PROVE  /\ Append(q, v) \in Seq(V)
           /\ Len(q) \in Nat /\ DOMAIN q = 1..Len(q)
           /\ DOMAIN Append(q, v) = 1..(Len(q) + 1)
           /\ \A i \in 1..Len(q) : Append(q, v)[i] = q[i]
           /\ Append(q, v)[Len(q) + 1] = v
OBVIOUS

LEMMA NoRowsIsAPage == <<>> \in Pages
<1>1. <<>> \in [{} -> TaskRows]
  OBVIOUS
<1>2. QED  BY <1>1 DEF Pages

LEMMA ClosedTyped == Closed \in SessionRows
BY NoRowsIsAPage DEF Closed, SessionRows

(* The rows of a session are rows of tasks.                                *)
LEMMA RowsTyped ==
    ASSUME NEW p \in Pages
    PROVE  DOMAIN p \subseteq Tasks /\ \A t \in DOMAIN p : p[t] \in TaskRows
BY DEF Pages

LEMMA VerdictTyped ==
    ASSUME NEW row
    PROVE  Verdict(row) \in {"PASS", "WARN", "FAIL"}
BY DEF Verdict
-----------------------------------------------------------------------------
(***************************************************************************)
(* The steps.  First what each does to the sessions.                       *)
(***************************************************************************)

(* A tick or a request loads copies of tasks that can be evaluated.        *)
LEMMA LoadKeepsInv ==
    ASSUME IInv, NEW s \in Sessions, NEW S \in SUBSET {t \in Tasks : task[t].status \in Evaluatable},
           NEW f \in BOOLEAN, NEW k \in BOOLEAN, Load(s, S, f, k), cursor' \in Tasks \cup {0},
           UNCHANGED <<task, runs, counted, replay, accepted, crossed>>
    PROVE  IInv'
<1>1. /\ session' \in [Sessions -> SessionRows]
      /\ \A r \in Sessions \ {s} : session'[r] = session[r]
      /\ session'[s].pc = "loaded" /\ session'[s].forced = f
      /\ session'[s].rows = [t \in S |-> task[t]]
      /\ session'[s].chosen = {} /\ session'[s].known = {} /\ session'[s].late = {}
  <2> DEFINE n == [Closed EXCEPT !.pc = "loaded", !.rows = [t \in S |-> task[t]], !.forced = f,
                                 !.ticks = k]
  <2>1. [t \in S |-> task[t]] \in Pages
    BY DEF IInv, Typed, Pages
  <2>2. /\ n \in SessionRows /\ n.pc = "loaded" /\ n.forced = f /\ n.rows = [t \in S |-> task[t]]
        /\ n.chosen = {} /\ n.known = {} /\ n.late = {}
    BY <2>1, ClosedTyped DEF Closed, SessionRows
  <2>3. session' = [session EXCEPT ![s] = n]
    BY DEF Load
  <2>4. session \in [Sessions -> SessionRows]
    BY DEF IInv, Typed
  <2> HIDE DEF n
  <2>5. QED  BY <2>2, <2>3, <2>4
<1>2. Typed'
  BY <1>1 DEF IInv, Typed
<1>3. ASSUME NEW r \in Sessions PROVE Copies(r)' /\ Findings(r)'
  <2>1. CASE r = s
    BY <1>1, <2>1 DEF Copies, Findings, Evaluatable
  <2>2. CASE r # s
    BY <1>1, <2>2 DEF IInv, Copies, Findings, Evaluated
  <2>3. QED  BY <2>1, <2>2
<1>4. AcceptedWasEvaluated' /\ AbsentIsIdle' /\ OncePerText' /\ QualityCountsEveryResult'
  BY DEF IInv, AcceptedWasEvaluated, AbsentIsIdle, OncePerText, QualityCountsEveryResult
<1>5. QED  BY <1>2, <1>3, <1>4 DEF IInv

(* A session compares what it loaded with the table.                       *)
LEMMA JudgeKeepsInv ==
    ASSUME IInv, NEW s \in Sessions, Judge(s)
    PROVE  IInv'
<1> DEFINE n == session[s]
           known == {t \in DOMAIN n.rows : Evaluated(t, n.rows[t])}
           m == [n EXCEPT !.pc = "judged", !.agent = counted, !.known = known,
                          !.chosen = ToEvaluate(n, known)]
<1>1. n \in SessionRows /\ session \in [Sessions -> SessionRows] /\ session' = [session EXCEPT ![s] = m]
  BY DEF IInv, Typed, Judge
<1>2. DOMAIN n.rows \subseteq Tasks
  BY <1>1, RowsTyped DEF SessionRows
<1>3. ToEvaluate(n, known) \subseteq DOMAIN n.rows /\ (n.forced \/ ToEvaluate(n, known) \cap known = {})
  BY DEF ToEvaluate, FirstOf
<1> HIDE DEF n, known
<1>4. /\ m \in SessionRows /\ m.pc = "judged" /\ m.rows = n.rows /\ m.forced = n.forced
      /\ m.chosen = ToEvaluate(n, known) /\ m.known = known /\ m.agent = counted
      /\ m.late = n.late /\ m.behind = n.behind
  <2>1. ToEvaluate(n, known) \in SUBSET Tasks /\ known \in SUBSET Tasks
        /\ counted \in SUBSET (Tasks \X Results)
    BY <1>2, <1>3 DEF IInv, Typed, known
  <2>2. QED  BY <1>1, <2>1 DEF SessionRows
<1> HIDE DEF m
<1>5. session'[s] = m /\ \A r \in Sessions \ {s} : session'[r] = session[r]
  BY <1>1
<1>6. UNCHANGED <<task, runs, counted, replay, cursor, accepted, crossed>> /\ n.pc = "loaded"
  BY DEF Judge, n
<1>7. Typed'
  BY <1>1, <1>4, <1>6 DEF IInv, Typed
<1>8. ASSUME NEW r \in Sessions PROVE Copies(r)' /\ Findings(r)'
  <2>1. CASE r = s
    <3>1. Copies(s)
      BY DEF IInv
    <3>2. Copies(r)'
      BY <1>3, <1>4, <1>5, <1>6, <2>1, <3>1 DEF Copies, n, known
    <3>3. Findings(r)'
      <4>1. session'[r] = m /\ runs' = runs /\ counted' = counted
        BY <1>5, <1>6, <2>1
      <4>2. \A t \in known : Evaluated(t, n.rows[t])
        BY DEF known
      <4>3. \A t \in m.chosen : n.forced \/ ~Evaluated(t, n.rows[t])
        BY <1>3, <1>4 DEF known
      <4>4. QED  BY <1>4, <4>1, <4>2, <4>3 DEF Findings, Evaluated
    <3>4. QED  BY <3>2, <3>3
  <2>2. CASE r # s
    BY <1>5, <1>6, <2>2 DEF IInv, Copies, Findings, Evaluated
  <2>3. QED  BY <2>1, <2>2
<1>9. AcceptedWasEvaluated' /\ AbsentIsIdle' /\ OncePerText' /\ QualityCountsEveryResult'
  BY <1>6 DEF IInv, AcceptedWasEvaluated, AbsentIsIdle, OncePerText, QualityCountsEveryResult
<1>10. QED  BY <1>7, <1>8, <1>9 DEF IInv

(* A session dies.                                                         *)
LEMMA CrashKeepsInv ==
    ASSUME IInv, NEW s \in Sessions, Crash(s)
    PROVE  IInv'
<1>1. /\ session' = [session EXCEPT ![s] = Closed] /\ session \in [Sessions -> SessionRows]
      /\ UNCHANGED <<task, runs, counted, replay, cursor, accepted, crossed>>
  BY DEF IInv, Typed, Crash
<1>2. Typed'
  BY <1>1, ClosedTyped DEF IInv, Typed
<1>3. ASSUME NEW r \in Sessions PROVE Copies(r)' /\ Findings(r)'
  <2>1. CASE r = s
    BY <1>1, <2>1 DEF Copies, Findings, Closed
  <2>2. CASE r # s
    BY <1>1, <2>2 DEF IInv, Copies, Findings, Evaluated
  <2>3. QED  BY <2>1, <2>2
<1>4. AcceptedWasEvaluated' /\ AbsentIsIdle' /\ OncePerText' /\ QualityCountsEveryResult'
  BY <1>1 DEF IInv, AcceptedWasEvaluated, AbsentIsIdle, OncePerText, QualityCountsEveryResult
<1>5. QED  BY <1>2, <1>3, <1>4 DEF IInv

(* The bus changes a row: from then on every copy of it is late.           *)
LEMMA ChangeKeepsInv ==
    ASSUME IInv, NEW t \in Tasks, NEW row \in TaskRows, row.status # "ABSENT", Change(t, row),
           \/ accepted' = accepted
           \/ accepted' = [accepted EXCEPT ![t] = IF Evaluated(t, task[t]) THEN task[t].result ELSE @]
    PROVE  IInv'
<1>1. /\ task \in [Tasks -> TaskRows] /\ session \in [Sessions -> SessionRows]
      /\ runs \in [Tasks -> Seq(Verdicts)] /\ accepted \in [Tasks -> Results \cup {-1}]
      /\ AcceptedWasEvaluated
  BY DEF IInv, Typed
<1>2. /\ task' = [task EXCEPT ![t] = row]
      /\ UNCHANGED <<runs, counted, replay, cursor, crossed>>
      /\ session' = [s \in Sessions |->
                       [session[s] EXCEPT !.late = @ \cup ({t} \cap DOMAIN session[s].rows)]]
  BY DEF Change
<1>3. ASSUME NEW s \in Sessions
      PROVE  /\ session'[s] \in SessionRows /\ session'[s].pc = session[s].pc
             /\ session'[s].rows = session[s].rows /\ session'[s].forced = session[s].forced
             /\ session'[s].chosen = session[s].chosen /\ session'[s].known = session[s].known
             /\ session'[s].agent = session[s].agent /\ session'[s].behind = session[s].behind
             /\ session'[s].late = session[s].late \cup ({t} \cap DOMAIN session[s].rows)
  <2>1. \A n \in SessionRows, L \in SUBSET Tasks :
           LET m == [n EXCEPT !.late = @ \cup L] IN
           /\ m \in SessionRows /\ m.pc = n.pc /\ m.rows = n.rows /\ m.forced = n.forced
           /\ m.chosen = n.chosen /\ m.known = n.known /\ m.agent = n.agent
           /\ m.behind = n.behind /\ m.late = n.late \cup L
    BY DEF SessionRows
  <2>2. session[s] \in SessionRows /\ {t} \cap DOMAIN session[s].rows \in SUBSET Tasks
    BY <1>1
  <2>3. QED  BY <1>2, <2>1, <2>2
<1>4. accepted' \in [Tasks -> Results \cup {-1}]
  BY <1>1 DEF TaskRows
<1>5. Typed'
  <2>1. session' = [s \in Sessions |-> session'[s]]
    BY <1>2
  <2>2. session' \in [Sessions -> SessionRows]
    BY <1>3, <2>1
  <2>3. QED  BY <1>1, <1>2, <1>4, <2>2 DEF IInv, Typed
<1>6. ASSUME NEW s \in Sessions PROVE Copies(s)' /\ Findings(s)'
  <2>1. Copies(s) /\ Findings(s)
    BY DEF IInv
  <2>2. \A u \in Tasks : task'[u] = IF u = t THEN row ELSE task[u]
    BY <1>1, <1>2
  <2>3. DOMAIN session[s].rows \subseteq Tasks
    BY <1>1, RowsTyped DEF SessionRows
  <2>4. Copies(s)'
    BY <1>3, <2>1, <2>2, <2>3 DEF Copies
  <2>5. Findings(s)'
    BY <1>2, <1>3, <2>1 DEF Findings, Evaluated
  <2>6. QED  BY <2>4, <2>5
<1>7. AcceptedWasEvaluated'
  BY <1>1, <1>2 DEF AcceptedWasEvaluated, Evaluated
<1>8. AbsentIsIdle'
  BY <1>1, <1>2 DEF IInv, AbsentIsIdle
<1>9. OncePerText' /\ QualityCountsEveryResult'
  BY <1>2 DEF IInv, OncePerText, QualityCountsEveryResult
<1>10. QED  BY <1>5, <1>6, <1>7, <1>8, <1>9 DEF IInv
(* A replay gets one of its statuses from a task that exists.              *)
LEMMA TrackedTyped ==
    ASSUME NEW r \in ReplayRows, NEW status \in Statuses \ {"ABSENT"}, NEW evaluated \in BOOLEAN
    PROVE  Tracked(r, status, evaluated) \in ReplayRows
<1> DEFINE now == CASE status = "OPEN" -> "RUNNING" [] status = "REVIEW" -> "RUNNING"
                    [] status = "BLOCKED" -> "FAILED" [] OTHER -> status
<1>1. now \in {"NONE", "QUEUED", "RUNNING"} \cup Ended
  BY DEF Statuses, Evaluatable, Ended
<1>2. Tracked(r, status, evaluated) = [r EXCEPT !.status = now, !.compared = r.compared \/ evaluated]
  BY DEF Tracked
<1> HIDE DEF now
<1>3. QED  BY <1>1, <1>2 DEF ReplayRows

(* An operator reads a replay.                                             *)
LEMMA ReadKeepsInv ==
    ASSUME IInv, NEW t \in Tasks, ReadReplay(t)
    PROVE  IInv'
<1>1. /\ replay' = [replay EXCEPT ![t] = Tracked(@, task[t].status, runs[t] # <<>>)]
      /\ replay[t].status # "NONE"
      /\ UNCHANGED <<task, runs, counted, cursor, session, accepted, crossed>>
  BY DEF ReadReplay
<1>2. task[t].status \in Statuses \ {"ABSENT"} /\ replay \in [Tasks -> ReplayRows]
  BY <1>1 DEF IInv, Typed, AbsentIsIdle, TaskRows
<1>3. replay' \in [Tasks -> ReplayRows]
  BY <1>1, <1>2, TrackedTyped
<1>4. Typed'
  BY <1>1, <1>3 DEF IInv, Typed
<1>5. AbsentIsIdle'
  BY <1>1, <1>2 DEF IInv, AbsentIsIdle
<1>6. \A s \in Sessions : Copies(s)' /\ Findings(s)'
  BY <1>1 DEF IInv, Copies, Findings, Evaluated
<1>7. AcceptedWasEvaluated' /\ OncePerText' /\ QualityCountsEveryResult'
  BY <1>1 DEF IInv, AcceptedWasEvaluated, OncePerText, QualityCountsEveryResult
<1>8. QED  BY <1>4, <1>5, <1>6, <1>7 DEF IInv

(* A replay begins: nobody holds a copy of a task that did not exist.      *)
LEMMA CreateKeepsInv ==
    ASSUME IInv, NEW t \in Tasks, NEW source \in Tasks, CreateReplay(source, t)
    PROVE  IInv'
<1>1. /\ task[t].status = "ABSENT" /\ task' = [task EXCEPT ![t].status = "OPEN"]
      /\ replay' = [replay EXCEPT ![t] = [source |-> source, status |-> "QUEUED", compared |-> FALSE]]
      /\ UNCHANGED <<runs, counted, cursor, session, accepted, crossed>>
  BY DEF CreateReplay
<1>2. /\ task' \in [Tasks -> TaskRows] /\ task'[t].status = "OPEN"
      /\ \A u \in Tasks \ {t} : task'[u] = task[u]
  <2>1. task \in [Tasks -> TaskRows]
    BY DEF IInv, Typed
  <2>2. \A r \in TaskRows : /\ [r EXCEPT !.status = "OPEN"] \in TaskRows
                            /\ [r EXCEPT !.status = "OPEN"].status = "OPEN"
    BY DEF TaskRows, Statuses
  <2>3. QED  BY <1>1, <2>1, <2>2
<1>3. Typed'
  <2>1. [source |-> source, status |-> "QUEUED", compared |-> FALSE] \in ReplayRows
    BY DEF ReplayRows
  <2>2. QED  BY <1>1, <1>2, <2>1 DEF IInv, Typed
<1>4. ASSUME NEW s \in Sessions PROVE Copies(s)' /\ Findings(s)'
  <2>1. Copies(s) /\ Findings(s) /\ DOMAIN session[s].rows \subseteq Tasks
    BY RowsTyped DEF IInv, Typed, SessionRows
  <2>2. Copies(s)'
    BY <1>1, <1>2, <2>1 DEF Copies
  <2>3. Findings(s)'
    BY <1>1, <2>1 DEF Findings, Evaluated
  <2>4. QED  BY <2>2, <2>3
<1>5. AbsentIsIdle'
  BY <1>1, <1>2 DEF IInv, Typed, AbsentIsIdle
<1>6. AcceptedWasEvaluated' /\ OncePerText' /\ QualityCountsEveryResult'
  BY <1>1 DEF IInv, AcceptedWasEvaluated, OncePerText, QualityCountsEveryResult
<1>7. QED  BY <1>3, <1>4, <1>5, <1>6 DEF IInv

-----------------------------------------------------------------------------
(***************************************************************************)
(* The commit of a session.                                                *)
(***************************************************************************)

Made(n, t) == [verdict |-> Verdict(n.rows[t]), result |-> n.rows[t].result,
               status |-> n.rows[t].status, forced |-> n.forced, long |-> n.rows[t].found.long]

(* A row with another text is a row, and keeps its status.                 *)
LEMMA RewrittenRow ==
    ASSUME NEW row \in TaskRows, NEW q \in Texts(row), NEW merged \in BOOLEAN
    PROVE  /\ Rewritten(row, q, merged) \in TaskRows
           /\ Rewritten(row, q, merged).status = row.status
           /\ Rewritten(row, q, merged).dispatch = row.dispatch
           /\ Rewritten(row, q, merged).result = row.made + 1
           /\ Rewritten(row, q, merged).made = row.made + 1
           /\ Rewritten(row, q, merged).cut = row.cut
<1>1. row.made + 1 \in Results /\ q \in Qualities
  BY EvaluationAssumption DEF Texts, TaskRows, Results
<1> QED
  BY <1>1 DEF Rewritten, TaskRows

(* What an evaluation writes: the row it had loaded, or a new text if that *)
(* was too long.                                                           *)
LEMMA WrittenRow ==
    ASSUME NEW t \in Tasks, task[t] \in TaskRows, task[t].status # "ABSENT",
           NEW row \in TaskRows, row.status \in Evaluatable, NEW q \in Qualities
    PROVE  /\ Written(t, row, q) \in TaskRows
           /\ Written(t, row, q).status # "ABSENT"
           /\ \/ /\ Written(t, row, q).result = row.result
                 /\ Written(t, row, q).made = task[t].made /\ Written(t, row, q).cut = task[t].cut
              \/ /\ row.found.long
                 /\ Written(t, row, q).result = task[t].made + 1
                 /\ Written(t, row, q).made = task[t].made + 1
                 /\ Written(t, row, q).cut = task[t].cut \cup {task[t].made + 1}
<1> DEFINE st == IF Reopened(row) = row.status THEN task[t].status ELSE Reopened(row)
           new == Rewritten(task[t], q, FALSE)
<1>1. st \in Statuses /\ st # "ABSENT"
  BY DEF Reopened, Statuses, Evaluatable, TaskRows
<1>2. \/ /\ row.found.long /\ q \in Texts(task[t])
         /\ Written(t, row, q) = [new EXCEPT !.status = st, !.cut = @ \cup {new.result}]
      \/ Written(t, row, q) = [task[t] EXCEPT !.result = row.result, !.found = row.found,
                                             !.merged = row.merged, !.status = st]
  BY DEF Written
<1> HIDE DEF st
<1>3. CASE Written(t, row, q) = [task[t] EXCEPT !.result = row.result, !.found = row.found,
                                               !.merged = row.merged, !.status = st]
  BY <1>1, <1>3 DEF TaskRows
<1>4. CASE /\ row.found.long /\ q \in Texts(task[t])
           /\ Written(t, row, q) = [new EXCEPT !.status = st, !.cut = @ \cup {new.result}]
  <2>1. new \in TaskRows /\ new.result = task[t].made + 1 /\ new.made = task[t].made + 1
        /\ new.cut = task[t].cut
    BY <1>4, RewrittenRow
  <2> HIDE DEF new
  <2>2. new.cut \cup {new.result} \in SUBSET Results
    BY <2>1 DEF TaskRows
  <2> QED
    BY <1>1, <1>4, <2>1, <2>2 DEF TaskRows
<1> QED
  BY <1>2, <1>3, <1>4

(* The rows it writes: a task that exists goes on existing.                *)
LEMMA CommittedRows ==
    ASSUME IInv, NEW s \in Sessions, Commit(s)
    PROVE  /\ task' \in [Tasks -> TaskRows]
           /\ \A t \in Tasks : task'[t].status = "ABSENT" => task[t].status = "ABSENT" /\ task'[t] = task[t]
           /\ \A t \in Tasks \ session[s].chosen : task'[t] = task[t]
           /\ \A t \in session[s].chosen :
                 /\ t \in DOMAIN session[s].rows /\ t \in Tasks
                 /\ \E q \in Qualities : task'[t] = Written(t, session[s].rows[t], q)
<1> DEFINE n == session[s]
<1>1. PICK q \in [n.chosen -> Qualities] :
         task' = [t \in Tasks |-> IF t \in n.chosen THEN Written(t, n.rows[t], q[t]) ELSE task[t]]
  BY DEF Commit
<1>2. /\ DOMAIN n.rows \subseteq Tasks /\ n.chosen \subseteq DOMAIN n.rows
      /\ \A t \in DOMAIN n.rows : /\ n.rows[t] \in TaskRows /\ n.rows[t].status \in Evaluatable
                                 /\ task[t].status # "ABSENT"
  <2>1. n \in SessionRows /\ Copies(s) /\ n.pc = "judged"
    BY DEF IInv, Typed, Commit
  <2>2. n.rows \in Pages
    BY <2>1 DEF SessionRows
  <2>3. QED  BY <2>1, <2>2, RowsTyped DEF Copies
<1>3. task \in [Tasks -> TaskRows]
  BY DEF IInv, Typed
<1>4. ASSUME NEW t \in n.chosen
      PROVE  Written(t, n.rows[t], q[t]) \in TaskRows /\ Written(t, n.rows[t], q[t]).status # "ABSENT"
  BY <1>2, <1>3, WrittenRow
<1>5. \A t \in Tasks : task'[t] = IF t \in n.chosen THEN Written(t, n.rows[t], q[t]) ELSE task[t]
  BY <1>1
<1>6. task' \in [Tasks -> TaskRows]
  BY <1>1, <1>3, <1>4
<1>7. QED  BY <1>2, <1>4, <1>5, <1>6

(* The runs it adds: one for each chosen task, behind those there are.     *)
LEMMA CommittedRuns ==
    ASSUME IInv, NEW s \in Sessions, Commit(s)
    PROVE  /\ runs' \in [Tasks -> Seq(Verdicts)]
           /\ \A t \in Tasks \ session[s].chosen : runs'[t] = runs[t]
           /\ \A t \in Tasks : \A i \in DOMAIN runs[t] :
                 i \in DOMAIN runs'[t] /\ runs'[t][i] = runs[t][i]
           /\ \A t \in Tasks : \A i \in DOMAIN runs'[t] \ DOMAIN runs[t] :
                 /\ t \in session[s].chosen
                 /\ runs'[t][i].result = session[s].rows[t].result
                 /\ runs'[t][i].forced = session[s].forced
                 /\ runs'[t][i].long = session[s].rows[t].found.long
                 /\ \A j \in DOMAIN runs'[t] : j <= i /\ (j # i => j \in DOMAIN runs[t])
<1> DEFINE n == session[s]
<1>1. /\ n.pc = "judged"
      /\ runs' = [t \in Tasks |-> IF t \in n.chosen THEN Append(runs[t], Made(n, t)) ELSE runs[t]]
  BY DEF Commit, Made
<1>2. ASSUME NEW t \in n.chosen
      PROVE  /\ t \in Tasks /\ Made(n, t) \in Verdicts
             /\ Made(n, t).result = n.rows[t].result /\ Made(n, t).forced = n.forced
             /\ Made(n, t).long = n.rows[t].found.long
  <2>1. n \in SessionRows /\ Copies(s)
    BY DEF IInv, Typed
  <2>2. n.rows \in Pages /\ n.forced \in BOOLEAN
    BY <2>1 DEF SessionRows
  <2>3. t \in Tasks /\ n.rows[t] \in TaskRows /\ n.rows[t].status \in Evaluatable
    BY <1>1, <2>1, <2>2, RowsTyped DEF Copies
  <2>4. n.rows[t].result \in Results /\ n.rows[t].found.long \in BOOLEAN
    BY <2>3, EvaluationAssumption DEF TaskRows
  <2>5. QED  BY <2>2, <2>3, <2>4, VerdictTyped DEF Made, Verdicts
<1>3. runs \in [Tasks -> Seq(Verdicts)]
  BY DEF IInv, Typed
<1>4. ASSUME NEW t \in Tasks
      PROVE  /\ runs'[t] \in Seq(Verdicts)
             /\ t \notin n.chosen => runs'[t] = runs[t]
             /\ \A i \in DOMAIN runs[t] : i \in DOMAIN runs'[t] /\ runs'[t][i] = runs[t][i]
             /\ \A i \in DOMAIN runs'[t] \ DOMAIN runs[t] :
                   /\ t \in n.chosen
                   /\ runs'[t][i].result = n.rows[t].result
                   /\ runs'[t][i].forced = n.forced
                   /\ runs'[t][i].long = n.rows[t].found.long
                   /\ \A j \in DOMAIN runs'[t] : j <= i /\ (j # i => j \in DOMAIN runs[t])
  <2>1. CASE t \notin n.chosen
    BY <1>1, <1>3, <2>1
  <2>2. CASE t \in n.chosen
    <3>1. runs'[t] = Append(runs[t], Made(n, t)) /\ runs[t] \in Seq(Verdicts)
      BY <1>1, <1>3, <2>2
    <3>2. /\ runs'[t] \in Seq(Verdicts) /\ Len(runs[t]) \in Nat
          /\ DOMAIN runs[t] = 1..Len(runs[t]) /\ DOMAIN runs'[t] = 1..(Len(runs[t]) + 1)
          /\ \A i \in 1..Len(runs[t]) : runs'[t][i] = runs[t][i]
          /\ runs'[t][Len(runs[t]) + 1] = Made(n, t)
      BY <1>2, <2>2, <3>1, AppendAdds
    <3>3. \A i \in DOMAIN runs'[t] \ DOMAIN runs[t] : i = Len(runs[t]) + 1
      BY <3>2
    <3>4. QED  BY <1>2, <2>2, <3>2, <3>3
  <2>3. QED  BY <2>1, <2>2
<1>5. runs' \in [Tasks -> Seq(Verdicts)]
  BY <1>1, <1>4
<1>6. QED  BY <1>4, <1>5

(* The other sessions: their copies of what was chosen are late, and they  *)
(* are behind if they are at work.                                         *)
LEMMA CommittedSessions ==
    ASSUME IInv, NEW s \in Sessions, Commit(s)
    PROVE  /\ session' \in [Sessions -> SessionRows]
           /\ session'[s] = Closed
           /\ \A r \in Sessions \ {s} :
                 /\ session'[r].pc = session[r].pc /\ session'[r].rows = session[r].rows
                 /\ session'[r].forced = session[r].forced
                 /\ session'[r].chosen = session[r].chosen /\ session'[r].known = session[r].known
                 /\ session'[r].late =
                       session[r].late \cup (session[s].chosen \cap DOMAIN session[r].rows)
                 /\ session[r].pc = "judged" => session'[r].behind
<1>1. session' = [r \in Sessions |->
                     IF r = s THEN Closed
                     ELSE [session[r] EXCEPT
                             !.late = @ \cup (session[s].chosen \cap DOMAIN session[r].rows),
                             !.behind = session[r].pc \notin {"closed", "unused"}]]
  BY DEF Commit
<1>2. ASSUME NEW r \in Sessions \ {s}
      PROVE  /\ session'[r] \in SessionRows
             /\ session'[r].pc = session[r].pc /\ session'[r].rows = session[r].rows
             /\ session'[r].forced = session[r].forced
             /\ session'[r].chosen = session[r].chosen /\ session'[r].known = session[r].known
             /\ session'[r].late =
                   session[r].late \cup (session[s].chosen \cap DOMAIN session[r].rows)
             /\ session[r].pc = "judged" => session'[r].behind
  <2> DEFINE L == session[s].chosen \cap DOMAIN session[r].rows
             b == session[r].pc \notin {"closed", "unused"}
             n == session[r]
             m == session'[r]
  <2>1. n \in SessionRows /\ L \in SUBSET Tasks /\ b \in BOOLEAN
    BY DEF IInv, Typed, SessionRows
  <2>2. m = [n EXCEPT !.late = @ \cup L, !.behind = b]
    BY <1>1
  <2>3. session[r].pc = "judged" => b
    OBVIOUS
  <2> HIDE DEF L, b, n, m
  <2>4. /\ m.pc = n.pc /\ m.rows = n.rows /\ m.forced = n.forced /\ m.ticks = n.ticks
        /\ m.chosen = n.chosen /\ m.known = n.known /\ m.agent = n.agent
        /\ m.late = n.late \cup L /\ m.behind = b
    BY <2>1, <2>2 DEF SessionRows
  <2>5. m = [n EXCEPT !.late = m.late, !.behind = m.behind]
    BY <2>2, <2>4
  <2>6. m.late \in SUBSET Tasks /\ m.behind \in BOOLEAN
    BY <2>1, <2>4 DEF SessionRows
  <2>7. m \in SessionRows
    BY <2>1, <2>5, <2>6 DEF SessionRows
  <2>8. QED  BY <2>3, <2>4, <2>7 DEF L, m, n
<1>3. session'[s] = Closed
  BY <1>1
<1>4. \A r \in Sessions : session'[r] \in SessionRows
  BY <1>2, <1>3, ClosedTyped
<1>5. session' = [r \in Sessions |-> session'[r]]
  BY <1>1
<1>6. QED  BY <1>2, <1>3, <1>4, <1>5
(* The replays of tasks that exist follow them.                            *)
LEMMA CommittedReplays ==
    ASSUME IInv, NEW s \in Sessions, Commit(s)
    PROVE  replay' \in [Tasks -> ReplayRows] /\ AbsentIsIdle'
<1>1. \A t \in Tasks :
         /\ task[t].status = "ABSENT" => replay[t].status = "NONE" /\ task[t].dispatch = "NONE"
         /\ task'[t] \in TaskRows
         /\ task'[t].status = "ABSENT" => task[t].status = "ABSENT" /\ task'[t] = task[t]
         /\ replay[t] \in ReplayRows
  BY CommittedRows DEF IInv, Typed, AbsentIsIdle
<1>2. replay' = [t \in Tasks |->
                    IF session[s].ticks /\ NeedsUpdate(replay[t])
                    THEN Tracked(replay[t], task'[t].status, runs'[t] # <<>>) ELSE replay[t]]
  BY DEF Commit
<1>3. ASSUME NEW t \in Tasks
      PROVE  /\ replay'[t] \in ReplayRows
             /\ task'[t].status = "ABSENT" => replay'[t].status = "NONE" /\ task'[t].dispatch = "NONE"
  <2>1. CASE session[s].ticks /\ NeedsUpdate(replay[t])
    <3>1. task'[t].status \in Statuses \ {"ABSENT"}
      BY <1>1, <2>1 DEF NeedsUpdate, TaskRows
    <3>2. replay'[t] = Tracked(replay[t], task'[t].status, runs'[t] # <<>>)
      BY <1>2, <2>1
    <3>3. (runs'[t] # <<>>) \in BOOLEAN
      OBVIOUS
    <3>4. QED  BY <1>1, <3>1, <3>2, <3>3, TrackedTyped
  <2>2. CASE ~(session[s].ticks /\ NeedsUpdate(replay[t]))
    BY <1>1, <1>2, <2>2
  <2>3. QED  BY <2>1, <2>2
<1>4. QED  BY <1>2, <1>3 DEF AbsentIsIdle

(* Nothing that was counted is lost, and what is evaluated now is counted, *)
(* unless the session was behind.                                          *)
LEMMA CommittedCounts ==
    ASSUME IInv, NEW s \in Sessions, Commit(s)
    PROVE  /\ counted' \subseteq Tasks \X Results
           /\ crossed' = {} =>
                /\ counted \subseteq counted'
                /\ \A t \in session[s].chosen : <<t, session[s].rows[t].result>> \in counted'
<1> DEFINE n == session[s]
<1>1. /\ n.pc = "judged"
      /\ counted' = IF Counts(n) = {} THEN counted ELSE n.agent \cup Counts(n)
      /\ crossed' = crossed \cup (IF n.behind THEN n.chosen ELSE n.chosen \cap n.late)
  BY DEF Commit
<1>2. /\ n \in SessionRows /\ n.chosen \subseteq DOMAIN n.rows /\ n.known \subseteq DOMAIN n.rows
      /\ \A t \in n.known : Evaluated(t, n.rows[t])
      /\ n.behind \/ n.agent = counted
      /\ counted \subseteq Tasks \X Results /\ QualityCountsEveryResult
  BY <1>1 DEF IInv, Typed, Copies, Findings
<1>3. \A t \in n.chosen : t \in Tasks /\ n.rows[t].result \in Results
  <2>1. n.rows \in Pages
    BY <1>2 DEF SessionRows
  <2>2. QED  BY <1>2, <2>1, RowsTyped DEF TaskRows
<1>4. Counts(n) \subseteq Tasks \X Results /\ n.agent \subseteq Tasks \X Results
  BY <1>2, <1>3 DEF Counts, SessionRows
<1>5. ASSUME crossed' = {} PROVE counted \subseteq counted'
  <2>1. CASE n.behind
    <3>1. Counts(n) = {}
      BY <1>1, <1>5, <2>1 DEF Counts
    <3>2. QED  BY <1>1, <3>1
  <2>2. CASE ~n.behind
    BY <1>1, <1>2, <2>2
  <2>3. QED  BY <2>1, <2>2
<1>6. ASSUME crossed' = {}, NEW t \in n.chosen PROVE <<t, n.rows[t].result>> \in counted'
  <2>1. CASE t \in n.known
    <3>1. crossed = {} /\ t \in Tasks
      BY <1>1, <1>3, <1>6
    <3>2. <<t, n.rows[t].result>> \in counted
      BY <1>2, <2>1, <3>1 DEF Evaluated, QualityCountsEveryResult
    <3>3. QED  BY <1>5, <1>6, <3>2
  <2>2. CASE t \notin n.known
    <3>1. <<t, n.rows[t].result>> \in Counts(n)
      BY <2>2 DEF Counts
    <3>2. QED  BY <1>1, <3>1
  <2>3. QED  BY <2>1, <2>2
<1>7. counted' \subseteq Tasks \X Results
  BY <1>1, <1>2, <1>4
<1>8. QED  BY <1>5, <1>6, <1>7

(* A session that found no evaluation of a result adds none to it that is  *)
(* there, unless it crossed with another one or was forced.                *)
LEMMA CommitIsTheOnlyEvaluation ==
    ASSUME IInv, NEW s \in Sessions, Commit(s)
    PROVE  OncePerText'
<1>1. SUFFICES ASSUME NEW t \in Tasks \ crossed', NEW i \in DOMAIN runs'[t], NEW j \in DOMAIN runs'[t],
                      i < j, runs'[t][i].result = runs'[t][j].result
               PROVE  runs'[t][j].forced
  BY DEF OncePerText
<1> DEFINE n == session[s]
<1>2. /\ t \notin crossed
      /\ t \in n.chosen => ~n.behind /\ t \notin n.late
  BY DEF Commit
<1>3. i \in Int /\ j \in Int
  BY CommittedRuns
<1>4. CASE j \in DOMAIN runs[t]
  <2>1. i \in DOMAIN runs[t]
    <3>1. SUFFICES ASSUME i \notin DOMAIN runs[t] PROVE FALSE
      OBVIOUS
    <3>2. j <= i
      BY <3>1, CommittedRuns
    <3>3. QED  BY <1>1, <1>3, <3>2
  <2>2. runs'[t][i] = runs[t][i] /\ runs'[t][j] = runs[t][j]
    BY <1>4, <2>1, CommittedRuns
  <2>3. QED  BY <1>1, <1>2, <1>4, <2>1, <2>2 DEF IInv, OncePerText
<1>5. CASE j \notin DOMAIN runs[t]
  <2>1. /\ t \in n.chosen /\ runs'[t][j].result = n.rows[t].result /\ runs'[t][j].forced = n.forced
        /\ i \in DOMAIN runs[t]
    <3>1. i # j
      BY <1>1, <1>3
    <3>2. QED  BY <1>5, <3>1, CommittedRuns
  <2>2. runs[t][i].result = n.rows[t].result
    BY <1>1, <2>1, CommittedRuns
  <2>3. Evaluated(t, n.rows[t])
    BY <2>1, <2>2 DEF Evaluated
  <2>4. n.forced
    BY <1>2, <2>1, <2>3 DEF IInv, Findings, Commit
  <2>5. QED  BY <2>1, <2>4
<1>6. QED  BY <1>4, <1>5

LEMMA CommitKeepsInv ==
    ASSUME IInv, NEW s \in Sessions, Commit(s)
    PROVE  IInv'
<1> DEFINE n == session[s]
<1>1. UNCHANGED <<cursor, accepted>> /\ crossed \subseteq crossed'
  BY DEF Commit
<1>2. Typed'
  BY <1>1, CommittedRows, CommittedRuns, CommittedSessions, CommittedReplays, CommittedCounts
  DEF IInv, Typed
<1>3. ASSUME NEW r \in Sessions PROVE Copies(r)' /\ Findings(r)'
  <2>1. CASE r = s
    <3>1. session'[r] = Closed
      BY <2>1, CommittedSessions
    <3>2. QED  BY <3>1 DEF Copies, Findings, Closed
  <2>2. CASE r # s
    <3>1. /\ session'[r].pc = session[r].pc /\ session'[r].rows = session[r].rows
          /\ session'[r].forced = session[r].forced
          /\ session'[r].chosen = session[r].chosen /\ session'[r].known = session[r].known
          /\ session'[r].late = session[r].late \cup (n.chosen \cap DOMAIN session[r].rows)
          /\ session[r].pc = "judged" => session'[r].behind
      BY <2>2, CommittedSessions
    <3>2. Copies(r) /\ Findings(r) /\ DOMAIN session[r].rows \subseteq Tasks
      BY RowsTyped DEF IInv, Typed, SessionRows
    <3>3. Copies(r)'
      BY <3>1, <3>2, CommittedRows DEF Copies
    <3>4. ASSUME session[r].pc = "judged", NEW t \in session[r].known
          PROVE  Evaluated(t, session[r].rows[t])'
      <4>1. t \in Tasks /\ Evaluated(t, session[r].rows[t])
        BY <3>2, <3>4 DEF Copies, Findings
      <4>2. PICK i \in DOMAIN runs[t] : runs[t][i].result = session[r].rows[t].result
        BY <4>1 DEF Evaluated
      <4>3. i \in DOMAIN runs'[t] /\ runs'[t][i].result = session'[r].rows[t].result
        BY <3>1, <4>1, <4>2, CommittedRuns
      <4>4. QED  BY <4>3 DEF Evaluated
    <3>5. ASSUME session[r].pc = "judged", NEW t \in session[r].chosen \ session'[r].late
          PROVE  session'[r].forced \/ ~Evaluated(t, session[r].rows[t])'
      <4>1. /\ t \in Tasks \ n.chosen /\ t \in session[r].chosen \ session[r].late
        BY <3>1, <3>2, <3>5 DEF Copies
      <4>2. runs'[t] = runs[t]
        BY <4>1, CommittedRuns
      <4>3. QED  BY <3>1, <3>2, <3>5, <4>1, <4>2 DEF Findings, Evaluated
    <3>6. Findings(r)'
      BY <3>1, <3>4, <3>5 DEF Findings
    <3>7. QED  BY <3>3, <3>6
  <2>3. QED  BY <2>1, <2>2
<1>4. AcceptedWasEvaluated'
  <2>1. AcceptedWasEvaluated
    BY DEF IInv
  <2>2. QED  BY <1>1, <2>1, CommittedRuns DEF AcceptedWasEvaluated
<1>5. QualityCountsEveryResult'
  <2>1. SUFFICES ASSUME crossed' = {}, NEW t \in Tasks, NEW i \in DOMAIN runs'[t]
                 PROVE  <<t, runs'[t][i].result>> \in counted'
    BY DEF QualityCountsEveryResult
  <2>2. CASE i \in DOMAIN runs[t]
    <3>1. crossed = {} /\ runs'[t][i] = runs[t][i]
      BY <1>1, <2>1, <2>2, CommittedRuns
    <3>2. <<t, runs[t][i].result>> \in counted
      BY <2>2, <3>1 DEF IInv, QualityCountsEveryResult
    <3>3. QED  BY <2>1, <3>1, <3>2, CommittedCounts
  <2>3. CASE i \notin DOMAIN runs[t]
    BY <2>1, <2>3, CommittedRuns, CommittedCounts
  <2>4. QED  BY <2>2, <2>3
<1>6. AbsentIsIdle' /\ OncePerText'
  BY CommittedReplays, CommitIsTheOnlyEvaluation
<1>7. QED  BY <1>2, <1>3, <1>4, <1>5, <1>6 DEF IInv

-----------------------------------------------------------------------------
(***************************************************************************)
(* The theorems.                                                           *)
(***************************************************************************)

LEMMA InitInv == Init => IInv
<1> SUFFICES ASSUME Init PROVE IInv
  OBVIOUS
<1>1. /\ \E c \in Scenarios :
            /\ task = [t \in Tasks |-> NewTask(IF t \in c.tasks THEN "OPEN" ELSE "ABSENT",
                                               MaxResults - c.texts)]
            /\ session = [r \in Sessions |->
                             [Closed EXCEPT !.pc = IF r \in c.sessions THEN "closed" ELSE "unused"]]
      /\ runs = [t \in Tasks |-> <<>>] /\ counted = {} /\ replay = [t \in Tasks |-> NoReplay]
      /\ cursor = 0 /\ accepted = [t \in Tasks |-> -1]
  BY DEF Init
<1>2. task \in [Tasks -> TaskRows]
  <2>1. \A c \in Scenarios : MaxResults - c.texts \in Results
    BY EvaluationAssumption DEF Results
  <2>2. \A n \in Results : NewTask("OPEN", n) \in TaskRows /\ NewTask("ABSENT", n) \in TaskRows
    BY EvaluationAssumption DEF NewTask, TaskRows, Statuses
  <2>3. PICK c \in Scenarios :
           task = [t \in Tasks |-> NewTask(IF t \in c.tasks THEN "OPEN" ELSE "ABSENT", MaxResults - c.texts)]
    BY <1>1
  <2>4. PICK n \in Results :
           task = [t \in Tasks |-> NewTask(IF t \in c.tasks THEN "OPEN" ELSE "ABSENT", n)]
    BY <2>1, <2>3
  <2>5. \A t \in Tasks : task[t] \in TaskRows
    BY <2>2, <2>4
  <2>6. QED  BY <2>4, <2>5
<1>3. /\ session \in [Sessions -> SessionRows]
      /\ \A s \in Sessions : /\ session[s].pc \in {"closed", "unused"} /\ session[s].chosen = {}
                             /\ session[s].known = {} /\ session[s].late = {}
  <2>1. \A p \in {"closed", "unused"} :
           LET m == [Closed EXCEPT !.pc = p] IN
           m \in SessionRows /\ m.pc = p /\ m.chosen = {} /\ m.known = {} /\ m.late = {}
    BY NoRowsIsAPage DEF Closed, SessionRows
  <2>2. QED  BY <1>1, <2>1
<1>4. runs \in [Tasks -> Seq(Verdicts)]
  BY <1>1
<1>5. replay \in [Tasks -> ReplayRows]
  BY <1>1 DEF NoReplay, ReplayRows
<1>6. Typed
  BY <1>1, <1>2, <1>3, <1>4, <1>5 DEF Typed
<1>7. \A s \in Sessions : Copies(s) /\ Findings(s)
  BY <1>3 DEF Copies, Findings
<1>8. AcceptedWasEvaluated /\ AbsentIsIdle
  BY <1>1 DEF AcceptedWasEvaluated, AbsentIsIdle, NoReplay, NewTask
<1>9. OncePerText /\ QualityCountsEveryResult
  BY <1>1 DEF OncePerText, QualityCountsEveryResult
<1>10. QED  BY <1>6, <1>7, <1>8, <1>9 DEF IInv

(* What the bus and the operators change a row to.                         *)
LEMMA BusKeepsInv ==
    ASSUME IInv, NEW t \in Tasks,
           DispatchTask(t) \/ DispatchEnds(t) \/ MirrorDispatchState(t) \/ Operate(t)
    PROVE  IInv'
<1>1. task[t] \in TaskRows
  BY DEF IInv, Typed
<1>2. \A r \in TaskRows, u \in Statuses : [r EXCEPT !.status = u] \in TaskRows
      /\ [r EXCEPT !.status = u].status = u
  BY DEF TaskRows
<1>3. CASE DispatchTask(t)
  <2>1. [task[t] EXCEPT !.dispatch = "RUNNING"] \in TaskRows
        /\ [task[t] EXCEPT !.dispatch = "RUNNING"].status = "OPEN"
    BY <1>1, <1>3 DEF DispatchTask, TaskRows
  <2>2. QED  BY <1>3, <2>1, ChangeKeepsInv DEF DispatchTask
<1>4. CASE DispatchEnds(t)
  <2>1. PICK end \in {"COMPLETED", "FAILED"}, q \in Texts(task[t]) :
           Change(t, [Rewritten(task[t], q, FALSE) EXCEPT !.dispatch = end])
    BY <1>4 DEF DispatchEnds
  <2> DEFINE new == Rewritten(task[t], q, FALSE)
  <2>2. new \in TaskRows /\ new.status = task[t].status
    BY <1>1, RewrittenRow
  <2> HIDE DEF new
  <2> DEFINE row == [new EXCEPT !.dispatch = end]
  <2>3. row \in TaskRows /\ row.status = task[t].status
    BY <2>2 DEF TaskRows
  <2>4. row.status # "ABSENT"
    BY <1>4, <2>3 DEF IInv, AbsentIsIdle, DispatchEnds
  <2>5. Change(t, row) /\ accepted' = accepted
    BY <1>4, <2>1 DEF DispatchEnds, new
  <2> HIDE DEF row
  <2>6. QED  BY <2>3, <2>4, <2>5, ChangeKeepsInv
<1>5. CASE MirrorDispatchState(t)
  <2>1. PICK mirrored \in Statuses \ {"ABSENT"} :
           \/ Change(t, [task[t] EXCEPT !.status = mirrored])
           \/ \E q \in Texts(task[t]) :
                 Change(t, [Rewritten(task[t], q, TRUE) EXCEPT !.status = mirrored])
    <3> DEFINE mirrored == CASE task[t].dispatch = "RUNNING" -> "OPEN"
                             [] task[t].dispatch = "FAILED" -> "FAILED"
                             [] OTHER -> IF t \in Automatic THEN "COMPLETED" ELSE "REVIEW"
    <3>1. mirrored \in Statuses \ {"ABSENT"}
      BY DEF Statuses, Evaluatable, Ended
    <3>2. \/ Change(t, [task[t] EXCEPT !.status = mirrored])
          \/ \E q \in Texts(task[t]) :
                Change(t, [Rewritten(task[t], q, TRUE) EXCEPT !.status = mirrored])
      BY <1>5 DEF MirrorDispatchState
    <3> HIDE DEF mirrored
    <3>3. QED  BY <3>1, <3>2
  <2>2. accepted' = accepted
    BY <1>5 DEF MirrorDispatchState
  <2>3. CASE Change(t, [task[t] EXCEPT !.status = mirrored])
    <3>1. [task[t] EXCEPT !.status = mirrored] \in TaskRows
          /\ [task[t] EXCEPT !.status = mirrored].status = mirrored
      BY <1>1, <1>2
    <3>2. QED  BY <2>2, <2>3, <3>1, ChangeKeepsInv
  <2>4. ASSUME NEW q \in Texts(task[t]), Change(t, [Rewritten(task[t], q, TRUE) EXCEPT !.status = mirrored])
        PROVE  IInv'
    <3>1. Rewritten(task[t], q, TRUE) \in TaskRows
      BY <1>1, RewrittenRow
    <3>2. /\ [Rewritten(task[t], q, TRUE) EXCEPT !.status = mirrored] \in TaskRows
          /\ [Rewritten(task[t], q, TRUE) EXCEPT !.status = mirrored].status = mirrored
      BY <1>2, <3>1
    <3>3. QED  BY <2>2, <2>4, <3>2, ChangeKeepsInv
  <2>5. QED  BY <2>1, <2>3, <2>4
<1>6. CASE Operate(t)
  <2>1. PICK u \in Statuses \ {"ABSENT"}, d \in {"NONE", task[t].dispatch} :
           /\ \/ Change(t, [task[t] EXCEPT !.status = u])
              \/ Change(t, [task[t] EXCEPT !.status = u, !.dispatch = d])
              \/ \E q \in Texts(task[t]), merged \in {FALSE, task[t].merged} :
                    Change(t, [Rewritten(task[t], q, merged) EXCEPT !.status = u])
           /\ \/ accepted' = accepted
              \/ accepted' = [accepted EXCEPT ![t] = IF Evaluated(t, task[t]) THEN task[t].result ELSE @]
    <3>1. {"COMPLETED", "FAILED", "BLOCKED", "CANCELLED", "OPEN"} \subseteq Statuses \ {"ABSENT"}
      BY DEF Statuses, Evaluatable, Ended
    <3>2. \/ accepted' = accepted
          \/ accepted' = [accepted EXCEPT ![t] = IF Evaluated(t, task[t]) THEN task[t].result ELSE @]
      BY <1>6 DEF Operate
    <3>3. \E u \in {"COMPLETED", "FAILED", "BLOCKED", "CANCELLED", "OPEN"}, d \in {"NONE", task[t].dispatch} :
              \/ Change(t, [task[t] EXCEPT !.status = u])
              \/ Change(t, [task[t] EXCEPT !.status = u, !.dispatch = d])
              \/ \E q \in Texts(task[t]), merged \in {FALSE, task[t].merged} :
                    Change(t, [Rewritten(task[t], q, merged) EXCEPT !.status = u])
      BY <1>6 DEF Operate
    <3>4. QED  BY <3>1, <3>2, <3>3
  <2>2. CASE Change(t, [task[t] EXCEPT !.status = u])
    <3>1. [task[t] EXCEPT !.status = u] \in TaskRows /\ [task[t] EXCEPT !.status = u].status = u
      BY <1>1, <1>2
    <3>2. QED  BY <2>1, <2>2, <3>1, ChangeKeepsInv
  <2>3. CASE Change(t, [task[t] EXCEPT !.status = u, !.dispatch = d])
    <3> DEFINE row == [task[t] EXCEPT !.status = u, !.dispatch = d]
    <3>1. row \in TaskRows /\ row.status = u
      BY <1>1 DEF TaskRows
    <3>2. QED  BY <2>1, <2>3, <3>1, ChangeKeepsInv
  <2>4. ASSUME NEW q \in Texts(task[t]), NEW merged \in {FALSE, task[t].merged},
               Change(t, [Rewritten(task[t], q, merged) EXCEPT !.status = u])
        PROVE  IInv'
    <3>1. merged \in BOOLEAN
      BY <1>1 DEF TaskRows
    <3>2. Rewritten(task[t], q, merged) \in TaskRows
      BY <1>1, <3>1, RewrittenRow
    <3>3. /\ [Rewritten(task[t], q, merged) EXCEPT !.status = u] \in TaskRows
          /\ [Rewritten(task[t], q, merged) EXCEPT !.status = u].status = u
      BY <1>2, <3>2
    <3>4. QED  BY <2>1, <2>4, <3>3, ChangeKeepsInv
  <2>5. QED  BY <2>1, <2>2, <2>3, <2>4
<1>7. QED  BY <1>3, <1>4, <1>5, <1>6
(* Every step keeps the invariant.                                         *)
LEMMA NextKeepsInv == IInv /\ [Next]_vars => IInv'
<1> SUFFICES ASSUME IInv, [Next]_vars PROVE IInv'
  OBVIOUS
<1>1. ASSUME NEW s \in Sessions, TickLoad(s) PROVE IInv'
  <2>1. Scanned \in SUBSET {t \in Tasks : task[t].status \in Evaluatable}
    BY ScanIsEvaluatable
  <2>2. Last(Scanned) \in Tasks \cup {0}
    BY <2>1, LastIsOfTheScan
  <2>3. PICK S \in SUBSET {t \in Tasks : task[t].status \in Evaluatable} : S = Scanned
    BY <2>1
  <2>4. /\ Load(s, S, FALSE, TRUE) /\ cursor' \in Tasks \cup {0}
        /\ UNCHANGED <<task, runs, counted, replay, accepted, crossed>>
    BY <1>1, <2>2, <2>3 DEF TickLoad
  <2>5. QED  BY <2>4, LoadKeepsInv
<1>2. ASSUME NEW s \in Sessions, NEW t \in Tasks, RequestLoad(s, t) PROVE IInv'
  <2>1. PICK f \in BOOLEAN : Load(s, {t}, f, FALSE)
    BY <1>2 DEF RequestLoad
  <2>2. {t} \in SUBSET {u \in Tasks : task[u].status \in Evaluatable}
    BY <1>2 DEF RequestLoad
  <2>3. cursor' \in Tasks \cup {0} /\ UNCHANGED <<task, runs, counted, replay, accepted, crossed>>
    BY <1>2 DEF RequestLoad, IInv, Typed
  <2>4. QED  BY <2>1, <2>2, <2>3, LoadKeepsInv
<1>3. ASSUME NEW s \in Sessions, Judge(s) \/ Commit(s) \/ Crash(s) PROVE IInv'
  BY <1>3, JudgeKeepsInv, CommitKeepsInv, CrashKeepsInv
<1>4. ASSUME NEW t \in Tasks, ReadReplay(t) \/ \E source \in Tasks : CreateReplay(source, t) PROVE IInv'
  BY <1>4, ReadKeepsInv, CreateKeepsInv
<1>5. ASSUME NEW t \in Tasks,
             DispatchTask(t) \/ DispatchEnds(t) \/ MirrorDispatchState(t) \/ Operate(t)
      PROVE  IInv'
  BY <1>5, BusKeepsInv
<1>6. CASE UNCHANGED vars
  <2>1. UNCHANGED <<task, runs, counted, replay, cursor, session, accepted, crossed>>
    BY <1>6 DEF vars
  <2>2. Typed' /\ AcceptedWasEvaluated' /\ AbsentIsIdle' /\ OncePerText' /\ QualityCountsEveryResult'
    BY <2>1 DEF IInv, Typed, AcceptedWasEvaluated, AbsentIsIdle, OncePerText,
                QualityCountsEveryResult
  <2>3. \A s \in Sessions : Copies(s)' /\ Findings(s)'
    BY <2>1 DEF IInv, Copies, Findings, Evaluated
  <2>4. QED  BY <2>2, <2>3 DEF IInv
<1>7. QED  BY <1>1, <1>2, <1>3, <1>4, <1>5, <1>6 DEF Next, EvaluationTick

THEOREM Invariance == Spec => []IInv
<1>1. Init => IInv
  BY InitInv
<1>2. IInv /\ [Next]_vars => IInv'
  BY NextKeepsInv
<1>3. QED  BY <1>1, <1>2, PTL DEF Spec

(* The types: what a session chose, knows or holds late it has loaded, the *)
(* cursor is a task's, a run tells of a status that can be evaluated, and  *)
(* a replay takes one of its statuses from its task.                       *)
THEOREM TypeCorrect == Spec => []TypeOK
<1>1. IInv => TypeOK
  <2> SUFFICES ASSUME IInv PROVE TypeOK
    OBVIOUS
  <2>1. \A t \in Tasks : runs[t] \in Seq([verdict : {"PASS", "WARN", "FAIL"}, result : Results,
                                          status : Evaluatable, forced : BOOLEAN, long : BOOLEAN])
    BY DEF IInv, Typed, Verdicts
  <2>2. \A s \in Sessions :
           /\ session[s].pc \in {"unused", "closed", "loaded", "judged"}
           /\ session[s].chosen \cup session[s].known \cup session[s].late \subseteq DOMAIN session[s].rows
    BY DEF IInv, Typed, SessionRows, Copies
  <2>3. QED  BY <2>1, <2>2 DEF IInv, Typed, TypeOK
<1>2. QED  BY <1>1, Invariance, PTL

-----------------------------------------------------------------------------
(***************************************************************************)
(* The numbers of the texts: what is evaluated or held as a copy is not    *)
(* newer than the newest text, so that a text cut by an evaluation is one  *)
(* nobody has evaluated; and the evaluation that cut it is in the table.   *)
(***************************************************************************)
Numbered(t) ==
    /\ task[t].result <= task[t].made
    /\ \A i \in DOMAIN runs[t] : runs[t][i].result <= task[t].made
    /\ \A v \in task[t].cut : \E i \in DOMAIN runs[t] : runs[t][i].long

CopiesNumbered(s) ==
    session[s].pc \in {"loaded", "judged"} =>
        \A t \in DOMAIN session[s].rows : session[s].rows[t].result <= task[t].made

NumbersInv ==
    /\ \A t \in Tasks : Numbered(t)
    /\ \A s \in Sessions : CopiesNumbered(s)
    /\ CutsFollowLongTexts

(* What the bus does to a row.                                             *)
Follows(new, row) == /\ new.made \in Nat /\ row.made <= new.made /\ new.result <= new.made
                     /\ new.cut = row.cut

LEMMA RowNumbers ==
    ASSUME Typed
    PROVE  \A t \in Tasks : /\ task[t] \in TaskRows /\ task[t].made \in Nat /\ task[t].result \in Nat
                            /\ \A i \in DOMAIN runs[t] : runs[t][i].result \in Nat
<1>1. Results \subseteq Nat
  BY EvaluationAssumption DEF Results
<1>2. ASSUME NEW t \in Tasks
      PROVE  task[t] \in TaskRows /\ task[t].made \in Nat /\ task[t].result \in Nat
  BY <1>1, <1>2 DEF Typed, TaskRows
<1>3. ASSUME NEW t \in Tasks, NEW i \in DOMAIN runs[t] PROVE runs[t][i].result \in Nat
  <2>1. runs[t] \in Seq(Verdicts)
    BY DEF Typed
  <2>2. runs[t][i] \in Verdicts
    BY <1>3, <2>1
  <2>3. QED  BY <1>1, <2>2 DEF Verdicts
<1>4. QED  BY <1>2, <1>3

LEMMA BusFollows ==
    ASSUME IInv, NumbersInv, NEW t \in Tasks,
           DispatchTask(t) \/ DispatchEnds(t) \/ MirrorDispatchState(t) \/ Operate(t)
    PROVE  \E row : Follows(row, task[t]) /\ Change(t, row)
<1>1. task[t] \in TaskRows /\ task[t].made \in Nat /\ task[t].result <= task[t].made
  BY RowNumbers DEF IInv, NumbersInv, Numbered
<1>2. \A r \in TaskRows, u \in Statuses, d \in {"NONE", "RUNNING", "COMPLETED", "FAILED"} :
         /\ [r EXCEPT !.status = u].result = r.result /\ [r EXCEPT !.status = u].made = r.made
         /\ [r EXCEPT !.status = u].cut = r.cut
         /\ [r EXCEPT !.dispatch = d].result = r.result /\ [r EXCEPT !.dispatch = d].made = r.made
         /\ [r EXCEPT !.dispatch = d].cut = r.cut
         /\ [r EXCEPT !.status = u, !.dispatch = d].result = r.result
         /\ [r EXCEPT !.status = u, !.dispatch = d].made = r.made
         /\ [r EXCEPT !.status = u, !.dispatch = d].cut = r.cut
  BY DEF TaskRows
<1>3. ASSUME NEW u \in Statuses, NEW d \in {"NONE", "RUNNING", "COMPLETED", "FAILED"}
      PROVE  /\ Follows([task[t] EXCEPT !.status = u], task[t])
             /\ Follows([task[t] EXCEPT !.dispatch = d], task[t])
             /\ Follows([task[t] EXCEPT !.status = u, !.dispatch = d], task[t])
  BY <1>1, <1>2 DEF Follows
<1>4. ASSUME NEW q \in Texts(task[t]), NEW merged \in BOOLEAN, NEW u \in Statuses,
             NEW d \in {"NONE", "RUNNING", "COMPLETED", "FAILED"}
      PROVE  /\ Follows([Rewritten(task[t], q, merged) EXCEPT !.status = u], task[t])
             /\ Follows([Rewritten(task[t], q, merged) EXCEPT !.dispatch = d], task[t])
  <2>1. PICK new : new = Rewritten(task[t], q, merged)
    OBVIOUS
  <2>2. /\ new \in TaskRows /\ new.result = task[t].made + 1 /\ new.made = task[t].made + 1
        /\ new.cut = task[t].cut
    BY <1>1, <2>1, RewrittenRow
  <2>3. /\ Follows([new EXCEPT !.status = u], task[t])
        /\ Follows([new EXCEPT !.dispatch = d], task[t])
    BY <1>1, <1>2, <2>2 DEF Follows
  <2>4. QED  BY <2>1, <2>3
<1>5. CASE DispatchTask(t)
  <2>1. Change(t, [task[t] EXCEPT !.dispatch = "RUNNING"])
    BY <1>5 DEF DispatchTask
  <2>2. Follows([task[t] EXCEPT !.dispatch = "RUNNING"], task[t])
    BY <1>3 DEF Statuses
  <2>3. QED  BY <2>1, <2>2
<1>6. CASE DispatchEnds(t)
  <2>1. PICK end \in {"COMPLETED", "FAILED"}, q \in Texts(task[t]) :
           Change(t, [Rewritten(task[t], q, FALSE) EXCEPT !.dispatch = end])
    BY <1>6 DEF DispatchEnds
  <2>2. Follows([Rewritten(task[t], q, FALSE) EXCEPT !.dispatch = end], task[t])
    BY <1>4 DEF Statuses
  <2>3. QED  BY <2>1, <2>2
<1>7. CASE MirrorDispatchState(t)
  <2>1. PICK u \in Statuses :
           \/ Change(t, [task[t] EXCEPT !.status = u])
           \/ \E q \in Texts(task[t]) : Change(t, [Rewritten(task[t], q, TRUE) EXCEPT !.status = u])
    <3> DEFINE mirrored == CASE task[t].dispatch = "RUNNING" -> "OPEN"
                             [] task[t].dispatch = "FAILED" -> "FAILED"
                             [] OTHER -> IF t \in Automatic THEN "COMPLETED" ELSE "REVIEW"
    <3>1. mirrored \in Statuses
      BY DEF Statuses, Evaluatable, Ended
    <3>2. \/ Change(t, [task[t] EXCEPT !.status = mirrored])
          \/ \E q \in Texts(task[t]) :
                Change(t, [Rewritten(task[t], q, TRUE) EXCEPT !.status = mirrored])
      BY <1>7 DEF MirrorDispatchState
    <3> HIDE DEF mirrored
    <3>3. QED  BY <3>1, <3>2
  <2>2. QED  BY <1>3, <1>4, <2>1
<1>8. CASE Operate(t)
  <2>1. /\ {"COMPLETED", "FAILED", "BLOCKED", "CANCELLED", "OPEN"} \subseteq Statuses
        /\ task[t].dispatch \in {"NONE", "RUNNING", "COMPLETED", "FAILED"} /\ task[t].merged \in BOOLEAN
    BY <1>1 DEF Statuses, Evaluatable, Ended, TaskRows
  <2>2. \/ \E u \in Statuses : Change(t, [task[t] EXCEPT !.status = u])
        \/ \E u \in Statuses, d \in {"NONE", "RUNNING", "COMPLETED", "FAILED"} :
              Change(t, [task[t] EXCEPT !.status = u, !.dispatch = d])
        \/ \E u \in Statuses, q \in Texts(task[t]), merged \in BOOLEAN :
              Change(t, [Rewritten(task[t], q, merged) EXCEPT !.status = u])
    BY <1>8, <2>1 DEF Operate
  <2>3. QED  BY <1>3, <1>4, <2>2
<1>9. QED  BY <1>5, <1>6, <1>7, <1>8

(* A step that leaves the table alone, and no copy newer than its row.     *)
LEMMA TableUnchanged ==
    ASSUME IInv, IInv', NumbersInv, runs' = runs,
           \A t \in Tasks : /\ task[t].made <= task'[t].made /\ task'[t].result <= task'[t].made
                            /\ task'[t].cut = task[t].cut,
           \A s \in Sessions :
              session'[s].pc \in {"loaded", "judged"} =>
                 \/ /\ session[s].pc \in {"loaded", "judged"} /\ session'[s].rows = session[s].rows
                 \/ \A t \in DOMAIN session'[s].rows :
                       session'[s].rows[t].result = task[t].result
    PROVE  NumbersInv'
<1>1. \A t \in Tasks : /\ task[t].made \in Nat /\ task'[t].made \in Nat
                       /\ task[t].result \in Nat /\ task[t].result <= task[t].made
                       /\ \A i \in DOMAIN runs[t] : runs[t][i].result \in Nat
  <2>1. Typed /\ Typed'
    BY DEF IInv
  <2>2. \A t \in Tasks : task[t].made \in Nat /\ task'[t].made \in Nat /\ task[t].result \in Nat
    <3>1. Results \subseteq Nat
      BY EvaluationAssumption DEF Results
    <3>2. \A t \in Tasks : task[t] \in TaskRows /\ task'[t] \in TaskRows
      BY <2>1 DEF Typed
    <3>3. QED  BY <3>1, <3>2 DEF TaskRows
  <2>3. QED  BY <2>1, <2>2, RowNumbers DEF NumbersInv, Numbered
<1>2. ASSUME NEW t \in Tasks PROVE Numbered(t)'
  BY <1>1 DEF NumbersInv, Numbered
<1>3. ASSUME NEW s \in Sessions PROVE CopiesNumbered(s)'
  <2>1. SUFFICES ASSUME session'[s].pc \in {"loaded", "judged"}, NEW t \in DOMAIN session'[s].rows
                 PROVE  session'[s].rows[t].result <= task'[t].made
    BY DEF CopiesNumbered
  <2>2. session'[s].rows \in Pages /\ session[s].rows \in Pages
    BY DEF IInv, Typed, SessionRows
  <2>3. t \in Tasks /\ session'[s].rows[t] \in TaskRows
    BY <2>1, <2>2, RowsTyped
  <2>4. session'[s].rows[t].result \in Nat
    BY <2>3, EvaluationAssumption DEF TaskRows, Results
  <2>5. session'[s].rows[t].result <= task[t].made
    BY <1>1, <2>1, <2>3 DEF NumbersInv, CopiesNumbered
  <2>6. QED  BY <1>1, <2>3, <2>4, <2>5
<1>4. CutsFollowLongTexts'
  BY DEF NumbersInv, CutsFollowLongTexts
<1>5. QED  BY <1>2, <1>3, <1>4 DEF NumbersInv

LEMMA CommitNumbers ==
    ASSUME IInv, IInv', NumbersInv, NEW s \in Sessions, Commit(s)
    PROVE  NumbersInv'
<1> DEFINE n == session[s]
<1>1. \A t \in Tasks : /\ task[t].made \in Nat /\ task'[t].made \in Nat
                       /\ task[t].result \in Nat /\ task[t].result <= task[t].made
                       /\ \A i \in DOMAIN runs[t] : runs[t][i].result \in Nat
  <2>1. Typed /\ Typed'
    BY DEF IInv
  <2>2. \A t \in Tasks : task[t].made \in Nat /\ task'[t].made \in Nat /\ task[t].result \in Nat
    <3>1. Results \subseteq Nat
      BY EvaluationAssumption DEF Results
    <3>2. \A t \in Tasks : task[t] \in TaskRows /\ task'[t] \in TaskRows
      BY <2>1 DEF Typed
    <3>3. QED  BY <3>1, <3>2 DEF TaskRows
  <2>3. QED  BY <2>1, <2>2, RowNumbers DEF NumbersInv, Numbered
<1>2. ASSUME NEW t \in n.chosen
      PROVE  /\ t \in Tasks /\ n.rows[t].result \in Nat /\ n.rows[t].result <= task[t].made
             /\ \/ task'[t].result = n.rows[t].result /\ task'[t].made = task[t].made /\ task'[t].cut = task[t].cut
                \/ /\ n.rows[t].found.long
                   /\ task'[t].result = task[t].made + 1 /\ task'[t].made = task[t].made + 1
                   /\ task'[t].cut = task[t].cut \cup {task[t].made + 1}
  <2>1. n.pc = "judged" /\ n.rows \in Pages /\ Copies(s) /\ CopiesNumbered(s)
    BY DEF Commit, IInv, Typed, SessionRows, NumbersInv
  <2>2. /\ t \in DOMAIN n.rows /\ t \in Tasks /\ n.rows[t] \in TaskRows /\ n.rows[t].status \in Evaluatable
        /\ task[t].status # "ABSENT" /\ task[t] \in TaskRows
    BY <2>1, CommittedRows, RowsTyped, RowNumbers DEF Copies, IInv
  <2>3. PICK q \in Qualities : task'[t] = Written(t, n.rows[t], q)
    BY CommittedRows
  <2>4. n.rows[t].result \in Nat /\ n.rows[t].result <= task[t].made
    BY <2>1, <2>2, EvaluationAssumption DEF CopiesNumbered, TaskRows, Results
  <2>5. QED  BY <2>2, <2>3, <2>4, WrittenRow
<1>3. \A t \in Tasks \ n.chosen : task'[t] = task[t] /\ runs'[t] = runs[t]
  BY CommittedRows, CommittedRuns
<1>4. ASSUME NEW t \in n.chosen, NEW i \in DOMAIN runs'[t]
      PROVE  \/ i \in DOMAIN runs[t] /\ runs'[t][i] = runs[t][i]
             \/ /\ i \notin DOMAIN runs[t] /\ runs'[t][i].result = n.rows[t].result
                /\ runs'[t][i].long = n.rows[t].found.long
  BY <1>2, <1>4, CommittedRuns
<1>5. ASSUME NEW t \in n.chosen
      PROVE  \E i \in DOMAIN runs'[t] : i \notin DOMAIN runs[t] /\ runs'[t][i].long = n.rows[t].found.long
  <2>1. runs'[t] = Append(runs[t], Made(n, t)) /\ runs[t] \in Seq(Verdicts)
    BY <1>2 DEF Commit, Made, IInv, Typed
  <2>2. PICK l \in Nat : l = Len(runs[t])
    BY <2>1
  <2>3. DOMAIN runs[t] = 1..l /\ DOMAIN runs'[t] = 1..(l + 1) /\ runs'[t][l + 1] = Made(n, t)
    BY <2>1, <2>2
  <2>4. l + 1 \in DOMAIN runs'[t] /\ l + 1 \notin DOMAIN runs[t]
    BY <2>3
  <2>5. Made(n, t).long = n.rows[t].found.long
    BY DEF Made
  <2>6. QED  BY <2>3, <2>4, <2>5
<1>6. ASSUME NEW t \in Tasks PROVE Numbered(t)'
  <2>1. Numbered(t)
    BY DEF NumbersInv
  <2>2. CASE t \notin n.chosen
    BY <1>3, <2>1, <2>2 DEF Numbered
  <2>3. CASE t \in n.chosen
    <3>1. task'[t].result <= task'[t].made /\ task[t].made <= task'[t].made
      BY <1>1, <1>2, <2>3
    <3>2. \A i \in DOMAIN runs'[t] : runs'[t][i].result <= task'[t].made
      BY <1>1, <1>2, <1>4, <2>1, <2>3, <3>1 DEF Numbered
    <3>3. ASSUME NEW v \in task'[t].cut PROVE \E i \in DOMAIN runs'[t] : runs'[t][i].long
      <4>1. CASE v \in task[t].cut
        <5>1. PICK i \in DOMAIN runs[t] : runs[t][i].long
          BY <2>1, <4>1 DEF Numbered
        <5>2. i \in DOMAIN runs'[t] /\ runs'[t][i] = runs[t][i]
          BY <5>1, CommittedRuns
        <5>3. QED  BY <5>1, <5>2
      <4>2. CASE v \notin task[t].cut
        <5>1. n.rows[t].found.long
          BY <1>2, <2>3, <3>3, <4>2
        <5>2. QED  BY <1>5, <2>3, <5>1
      <4>3. QED  BY <4>1, <4>2
    <3>4. QED  BY <3>1, <3>2, <3>3 DEF Numbered
  <2>4. QED  BY <2>2, <2>3
<1>7. \A t \in Tasks : task[t].made <= task'[t].made
  BY <1>1, <1>2, <1>3
<1>8. ASSUME NEW r \in Sessions PROVE CopiesNumbered(r)'
  <2>1. SUFFICES ASSUME session'[r].pc \in {"loaded", "judged"}, NEW t \in DOMAIN session'[r].rows
                 PROVE  session'[r].rows[t].result <= task'[t].made
    BY DEF CopiesNumbered
  <2>2. r # s
    BY <2>1, CommittedSessions DEF Closed
  <2>3. session'[r].pc = session[r].pc /\ session'[r].rows = session[r].rows
    BY <2>2, CommittedSessions
  <2>4. session[r].rows \in Pages
    BY DEF IInv, Typed, SessionRows
  <2>5. t \in Tasks /\ session[r].rows[t].result \in Nat
    BY <2>1, <2>3, <2>4, RowsTyped, EvaluationAssumption DEF TaskRows, Results
  <2>6. session[r].rows[t].result <= task[t].made
    BY <2>1, <2>3 DEF NumbersInv, CopiesNumbered
  <2>7. QED  BY <1>1, <1>7, <2>3, <2>5, <2>6
<1>9. ASSUME NEW t \in Tasks, NEW j \in DOMAIN runs'[t], runs'[t][j].result \in task'[t].cut
      PROVE  \E i \in DOMAIN runs'[t] : i < j /\ runs'[t][i].long
  <2>1. runs'[t][j].result \in task[t].cut
    <3>1. CASE t \notin n.chosen
      BY <1>3, <1>9, <3>1
    <3>2. CASE t \in n.chosen
      <4>1. runs'[t][j].result <= task[t].made
        BY <1>2, <1>4, <3>2 DEF NumbersInv, Numbered
      <4>2. QED  BY <1>1, <1>2, <1>9, <3>2, <4>1
    <3>3. QED  BY <3>1, <3>2
  <2>2. CASE j \in DOMAIN runs[t]
    <3>1. runs'[t][j] = runs[t][j]
      BY <2>2, CommittedRuns
    <3>2. PICK i \in DOMAIN runs[t] : i < j /\ runs[t][i].long
      BY <2>1, <2>2, <3>1 DEF NumbersInv, CutsFollowLongTexts
    <3>3. QED  BY <3>2, CommittedRuns
  <2>3. CASE j \notin DOMAIN runs[t]
    <3>1. PICK i \in DOMAIN runs[t] : runs[t][i].long
      BY <2>1 DEF NumbersInv, Numbered
    <3>2. i \in DOMAIN runs'[t] /\ runs'[t][i] = runs[t][i] /\ i # j
      BY <2>3, <3>1, CommittedRuns
    <3>3. i <= j
      BY <1>9, <2>3, <3>2, CommittedRuns
    <3>4. i \in Int /\ j \in Int
      BY <1>9, <3>2, CommittedRuns
    <3>5. QED  BY <3>1, <3>2, <3>3, <3>4
  <2>4. QED  BY <2>2, <2>3
<1>10. QED  BY <1>6, <1>8, <1>9 DEF NumbersInv, CutsFollowLongTexts

LEMMA NumbersStep == IInv /\ IInv' /\ NumbersInv /\ [Next]_vars => NumbersInv'
<1> SUFFICES ASSUME IInv, IInv', NumbersInv, [Next]_vars PROVE NumbersInv'
  OBVIOUS
<1>t. /\ task \in [Tasks -> TaskRows] /\ session \in [Sessions -> SessionRows]
      /\ \A t \in Tasks : task[t].made \in Nat /\ task[t].result <= task[t].made
  BY RowNumbers DEF IInv, Typed, NumbersInv, Numbered
<1>1. ASSUME NEW s \in Sessions, NEW S, NEW f, NEW k, Load(s, S, f, k), task' = task, runs' = runs
      PROVE  NumbersInv'
  <2>1. \A r \in Sessions : r # s => session'[r] = session[r]
    BY <1>t, <1>1 DEF Load
  <2>2. session'[s].rows = [t \in S |-> task[t]]
    <3>1. session'[s] = [Closed EXCEPT !.pc = "loaded", !.rows = [t \in S |-> task[t]],
                                       !.forced = f, !.ticks = k]
      BY <1>t, <1>1 DEF Load
    <3>2. QED  BY <3>1 DEF Closed
  <2>3. \A t \in Tasks : /\ task[t].made <= task'[t].made /\ task'[t].result <= task'[t].made
                         /\ task'[t].cut = task[t].cut
    BY <1>t, <1>1
  <2>4. \A r \in Sessions :
           session'[r].pc \in {"loaded", "judged"} =>
              \/ session[r].pc \in {"loaded", "judged"} /\ session'[r].rows = session[r].rows
              \/ \A t \in DOMAIN session'[r].rows : session'[r].rows[t].result = task[t].result
    BY <2>1, <2>2
  <2>5. QED  BY <1>1, <2>3, <2>4, TableUnchanged
<1>2. ASSUME task' = task, runs' = runs,
             \A r \in Sessions : session'[r].pc \in {"loaded", "judged"} =>
                /\ session[r].pc \in {"loaded", "judged"} /\ session'[r].rows = session[r].rows
      PROVE  NumbersInv'
  <2>1. \A t \in Tasks : /\ task[t].made <= task'[t].made /\ task'[t].result <= task'[t].made
                         /\ task'[t].cut = task[t].cut
    BY <1>t, <1>2
  <2>2. QED  BY <1>2, <2>1, TableUnchanged
<1>3. ASSUME NEW s \in Sessions, TickLoad(s) \/ \E t \in Tasks : RequestLoad(s, t) PROVE NumbersInv'
  BY <1>1, <1>3 DEF TickLoad, RequestLoad
<1>4. ASSUME NEW s \in Sessions, Judge(s) PROVE NumbersInv'
  <2>1. /\ task' = task /\ runs' = runs /\ session[s].pc = "loaded"
        /\ session' = [session EXCEPT ![s] = session'[s]]
        /\ session'[s].rows = session[s].rows
    <3> DEFINE n == session[s]
               known == {t \in DOMAIN n.rows : Evaluated(t, n.rows[t])}
    <3>1. /\ task' = task /\ runs' = runs /\ session[s].pc = "loaded"
          /\ session' = [session EXCEPT ![s] = [n EXCEPT !.pc = "judged", !.agent = counted,
                                                !.known = known, !.chosen = ToEvaluate(n, known)]]
      BY <1>4 DEF Judge
    <3> HIDE DEF known
    <3>2. session'[s] = [n EXCEPT !.pc = "judged", !.agent = counted,
                                  !.known = known, !.chosen = ToEvaluate(n, known)]
      BY <1>t, <3>1
    <3>3. session'[s].rows = n.rows
      BY <1>t, <3>2 DEF SessionRows
    <3>4. session' = [session EXCEPT ![s] = session'[s]]
      BY <3>1, <3>2
    <3>5. QED  BY <3>1, <3>3, <3>4
  <2>2. \A r \in Sessions : session'[r].pc \in {"loaded", "judged"} =>
           /\ session[r].pc \in {"loaded", "judged"} /\ session'[r].rows = session[r].rows
    BY <1>t, <2>1
  <2>3. QED  BY <1>2, <2>1, <2>2
<1>5. ASSUME NEW s \in Sessions, Crash(s) PROVE NumbersInv'
  <2>1. task' = task /\ runs' = runs /\ session' = [session EXCEPT ![s] = Closed]
    BY <1>5 DEF Crash
  <2>2. \A r \in Sessions : session'[r].pc \in {"loaded", "judged"} =>
           /\ session[r].pc \in {"loaded", "judged"} /\ session'[r].rows = session[r].rows
    BY <1>t, <2>1 DEF Closed
  <2>3. QED  BY <1>2, <2>1, <2>2
<1>6. ASSUME NEW t \in Tasks, ReadReplay(t) PROVE NumbersInv'
  BY <1>2, <1>6 DEF ReadReplay
<1>7. ASSUME NEW t \in Tasks, NEW source \in Tasks, CreateReplay(source, t) PROVE NumbersInv'
  <2>1. /\ task' = [task EXCEPT ![t] = [task[t] EXCEPT !.status = "OPEN"]]
        /\ runs' = runs /\ session' = session
    BY <1>7 DEF CreateReplay
  <2>2. \A r \in TaskRows : /\ [r EXCEPT !.status = "OPEN"].made = r.made
                            /\ [r EXCEPT !.status = "OPEN"].result = r.result
                            /\ [r EXCEPT !.status = "OPEN"].cut = r.cut
    BY DEF TaskRows
  <2>3. \A u \in Tasks : /\ task[u].made <= task'[u].made /\ task'[u].result <= task'[u].made
                         /\ task'[u].cut = task[u].cut
    BY <1>t, <2>1, <2>2
  <2>4. QED  BY <2>1, <2>3, TableUnchanged
<1>8. ASSUME NEW t \in Tasks,
             DispatchTask(t) \/ DispatchEnds(t) \/ MirrorDispatchState(t) \/ Operate(t)
      PROVE  NumbersInv'
  <2>1. PICK row : Follows(row, task[t]) /\ Change(t, row)
    BY <1>8, BusFollows
  <2>2. /\ task' = [task EXCEPT ![t] = row] /\ runs' = runs
        /\ session' = [s \in Sessions |->
                         [session[s] EXCEPT !.late = @ \cup ({t} \cap DOMAIN session[s].rows)]]
    BY <2>1 DEF Change
  <2>3. \A u \in Tasks : /\ task[u].made <= task'[u].made /\ task'[u].result <= task'[u].made
                         /\ task'[u].cut = task[u].cut
    BY <1>t, <2>1, <2>2 DEF Follows
  <2>4. \A s \in Sessions : session'[s].pc = session[s].pc /\ session'[s].rows = session[s].rows
    <3>1. \A n \in SessionRows : \A L : /\ [n EXCEPT !.late = @ \cup L].pc = n.pc
                                        /\ [n EXCEPT !.late = @ \cup L].rows = n.rows
      BY DEF SessionRows
    <3>2. QED  BY <1>t, <2>2, <3>1
  <2>5. QED  BY <2>2, <2>3, <2>4, TableUnchanged
<1>9. ASSUME NEW s \in Sessions, Commit(s) PROVE NumbersInv'
  BY <1>9, CommitNumbers
<1>10. CASE UNCHANGED vars
  BY <1>2, <1>10 DEF vars
<1>11. QED  BY <1>3, <1>4, <1>5, <1>6, <1>7, <1>8, <1>9, <1>10 DEF Next, EvaluationTick

LEMMA NumbersInit == Init => NumbersInv
<1> SUFFICES ASSUME Init PROVE NumbersInv
  OBVIOUS
<1>1. PICK c \in Scenarios :
         /\ task = [t \in Tasks |-> NewTask(IF t \in c.tasks THEN "OPEN" ELSE "ABSENT", MaxResults - c.texts)]
         /\ session = [r \in Sessions |->
                          [Closed EXCEPT !.pc = IF r \in c.sessions THEN "closed" ELSE "unused"]]
  BY DEF Init
<1>2. MaxResults - c.texts \in Nat
  BY EvaluationAssumption
<1>3. runs = [t \in Tasks |-> <<>>]
  BY DEF Init
<1>4. \A t \in Tasks : task[t].result <= task[t].made /\ task[t].cut = {}
  BY <1>1, <1>2 DEF NewTask
<1>5. \A t \in Tasks : Numbered(t)
  BY <1>3, <1>4 DEF Numbered
<1>6. \A s \in Sessions : session[s].pc \in {"closed", "unused"}
  BY <1>1 DEF Closed
<1>7. \A s \in Sessions : CopiesNumbered(s)
  BY <1>6 DEF CopiesNumbered
<1>8. CutsFollowLongTexts
  BY <1>3 DEF CutsFollowLongTexts
<1>9. QED  BY <1>5, <1>7, <1>8 DEF NumbersInv

(* However many replicas tick, are asked, or die: a text is evaluated a    *)
(* second time only by force or by sessions that crossed, and a text that  *)
(* an evaluation made comes from one that was too long to be written back. *)
THEOREM EvaluatedOnce == Spec => []OneEvaluationPerResult
<1>1. IInv /\ NumbersInv => OneEvaluationPerResult
  BY DEF IInv, NumbersInv, OneEvaluationPerResult
<1>2. Init => NumbersInv
  BY NumbersInit
<1>3. IInv /\ IInv' /\ NumbersInv /\ [Next]_vars => NumbersInv'
  BY NumbersStep
<1>4. QED  BY <1>1, <1>2, <1>3, Invariance, PTL DEF Spec

(* The agent's quality takes in every evaluated result as long as no two   *)
(* sessions crossed.                                                       *)
THEOREM QualityIsComplete == Spec => []QualityCountsEveryResult
<1>1. IInv => QualityCountsEveryResult
  BY DEF IInv
<1>2. QED  BY <1>1, Invariance, PTL

-----------------------------------------------------------------------------
(* Only a commit sets a completed task back to review.                     *)
LEMMA OnlyACommitReopens ==
    ASSUME IInv, [Next]_vars, NEW t \in Tasks, task[t].status = "COMPLETED", task'[t].status = "REVIEW"
    PROVE  \E s \in Sessions : Commit(s)
<1>1. task \in [Tasks -> TaskRows]
  BY DEF IInv, Typed
<1>2. \A u \in Tasks, row \in TaskRows : Change(u, row) => task' = [task EXCEPT ![u] = row]
  BY DEF Change
<1>3. ASSUME NEW u \in Tasks, DispatchTask(u) PROVE FALSE
  <2>1. task' = [task EXCEPT ![u] = [task[u] EXCEPT !.dispatch = "RUNNING"]]
    BY <1>3 DEF DispatchTask, Change
  <2>2. task'[t].status = task[t].status
    BY <1>1, <2>1 DEF TaskRows
  <2>3. QED  BY <2>2
<1>4. ASSUME NEW u \in Tasks, DispatchEnds(u) PROVE FALSE
  <2>1. PICK end \in {"COMPLETED", "FAILED"}, q \in Texts(task[u]) :
           task' = [task EXCEPT ![u] = [Rewritten(task[u], q, FALSE) EXCEPT !.dispatch = end]]
    BY <1>4 DEF DispatchEnds, Change
  <2>2. Rewritten(task[u], q, FALSE) \in TaskRows /\ Rewritten(task[u], q, FALSE).status = task[u].status
    BY <1>1, RewrittenRow
  <2>3. [Rewritten(task[u], q, FALSE) EXCEPT !.dispatch = end].status = task[u].status
    BY <2>2 DEF TaskRows
  <2>4. task'[t].status = task[t].status
    BY <1>1, <2>1, <2>3
  <2>5. QED  BY <2>4
<1>5. ASSUME NEW u \in Tasks, MirrorDispatchState(u) PROVE FALSE
  <2>1. u # t
    BY <1>5 DEF MirrorDispatchState, Ended
  <2>2. PICK row : task' = [task EXCEPT ![u] = row]
    BY <1>5 DEF MirrorDispatchState, Change
  <2>3. QED  BY <1>1, <2>1, <2>2
<1>6. ASSUME NEW u \in Tasks, Operate(u) PROVE FALSE
  <2>1. PICK st \in {"COMPLETED", "FAILED", "BLOCKED", "CANCELLED", "OPEN"},
             d \in {"NONE", task[u].dispatch} :
           \/ task' = [task EXCEPT ![u] = [task[u] EXCEPT !.status = st]]
           \/ task' = [task EXCEPT ![u] = [task[u] EXCEPT !.status = st, !.dispatch = d]]
           \/ \E q \in Texts(task[u]), merged \in {FALSE, task[u].merged} :
                 task' = [task EXCEPT ![u] = [Rewritten(task[u], q, merged) EXCEPT !.status = st]]
    BY <1>6 DEF Operate, Change
  <2>2. /\ [task[u] EXCEPT !.status = st].status = st
        /\ [task[u] EXCEPT !.status = st, !.dispatch = d].status = st
    BY <1>1 DEF TaskRows
  <2>3. ASSUME NEW q \in Texts(task[u]), NEW merged \in {FALSE, task[u].merged}
        PROVE  [Rewritten(task[u], q, merged) EXCEPT !.status = st].status = st
    <3>1. Rewritten(task[u], q, merged) \in TaskRows
      BY <1>1, RewrittenRow DEF TaskRows
    <3>2. QED  BY <3>1 DEF TaskRows
  <2>4. task'[t].status \in {st, task[t].status}
    BY <1>1, <2>1, <2>2, <2>3
  <2>5. QED  BY <2>4
<1>7. ASSUME NEW u \in Tasks, NEW source \in Tasks, CreateReplay(source, u) PROVE FALSE
  <2>1. task' = [task EXCEPT ![u].status = "OPEN"] /\ u # t
    BY <1>7 DEF CreateReplay
  <2>2. QED  BY <1>1, <2>1
<1>8. ~(task' = task)
  OBVIOUS
<1>9. ASSUME NEW s \in Sessions, TickLoad(s) \/ Judge(s) \/ Crash(s) \/ \E u \in Tasks : RequestLoad(s, u)
      PROVE  FALSE
  BY <1>8, <1>9 DEF TickLoad, Judge, Crash, RequestLoad
<1>10. ASSUME NEW u \in Tasks, ReadReplay(u) PROVE FALSE
  BY <1>8, <1>10 DEF ReadReplay
<1>11. ~(UNCHANGED vars)
  BY <1>8 DEF vars
<1>12. QED  BY <1>3, <1>4, <1>5, <1>6, <1>7, <1>9, <1>10, <1>11 DEF Next, EvaluationTick

(* The copy of a session that is neither late nor behind is the row, and   *)
(* what it chose has no evaluation: it cannot be what an operator accepted *)
(* after one.                                                              *)
LEMMA AcceptanceStandsStep ==
    ASSUME IInv, [Next]_vars, NEW t \in Tasks, task[t].status = "COMPLETED", task'[t].status = "REVIEW",
           accepted[t] = task[t].result
    PROVE  t \in crossed' \/ \E s \in Sessions : session[s].forced /\ session'[s].pc = "closed"
<1>1. PICK s \in Sessions : Commit(s)
  BY OnlyACommitReopens
<1>2. session'[s].pc = "closed"
  BY <1>1, CommittedSessions DEF Closed
<1>3. SUFFICES ASSUME ~session[s].forced, t \notin crossed' PROVE FALSE
  BY <1>2
<1>4. t \in session[s].chosen /\ t \in DOMAIN session[s].rows
  BY <1>1, CommittedRows
<1>5. t \notin session[s].late
  BY <1>1, <1>3, <1>4 DEF Commit
<1>6. session[s].rows[t] = task[t] /\ ~Evaluated(t, session[s].rows[t])
  BY <1>1, <1>3, <1>4, <1>5 DEF IInv, Copies, Findings, Commit
<1>7. task[t].result # -1
  BY EvaluationAssumption DEF IInv, Typed, TaskRows, Results
<1>8. Evaluated(t, task[t])
  BY <1>7 DEF IInv, AcceptedWasEvaluated, Evaluated
<1>9. QED  BY <1>6, <1>8

(* However the sessions overlap: a text that a review accepted after its   *)
(* evaluation is set back to review only by a forced evaluation or by a    *)
(* session that had loaded the task before.                                *)
THEOREM AcceptedStaysAccepted == Spec => AcceptanceStands
<1>1. IInv /\ [Next]_vars =>
         [\A t \in Tasks :
             task[t].status = "COMPLETED" /\ task'[t].status = "REVIEW" /\ accepted[t] = task[t].result =>
                 t \in crossed' \/ \E s \in Sessions : session[s].forced /\ session'[s].pc = "closed"]_vars
  BY AcceptanceStandsStep
<1>2. Spec => [][Next]_vars
  BY DEF Spec
<1>3. QED  BY <1>1, <1>2, Invariance, PTL DEF AcceptanceStands
=============================================================================
