------------------------- MODULE MeetingsProofs -------------------------
(***************************************************************************)
(* Proofs about Meetings, for every set of processes, requests and plans,  *)
(* every number of copies of a turn and every number of faults.            *)
(***************************************************************************)
EXTENDS Meetings, FiniteSetTheorems, TLAPS

Meeting == [status : MeetingStatuses, round : Rounds \cup {0}, max : Rounds \cup {1},
            roster : Rosters \cup {<<>>}]
Places == {"idle", "mirror", "invite", "waiting", "open", "close"}
Runs == [pc : Places, round : Rounds \cup {0}, turn : Turns \cup {<<>>}, was : TurnStatuses,
         owns : BOOLEAN]
Calls == [pc : {"new", "loaded", "done"}, kind : {"none"} \cup Kinds, skips : SUBSET Turns]

(* A meeting that exists was made by a plan, and whoever is to open a      *)
(* round knows of one that the plan has.                                   *)
Planned ==
    /\ meeting.status # "ABSENT" => meeting.max \in Rounds
    /\ \A p \in Processes : process[p].pc = "open" => process[p].round + 1 \in Rounds
    /\ \A p \in Processes : process[p].pc # "idle" => meeting.status # "ABSENT"
    /\ \A q \in Requests : request[q].pc = "loaded" => meeting.status # "ABSENT"

TypeInv == TypeOK /\ Planned

LEMMA RoundsAreNumbers ==
  /\ Rounds \subseteq Nat \ {0}
  /\ \A r \in Rounds : 1..r \subseteq Rounds
<1>1. \A plan \in Plans : plan.rounds \in Nat \ {0}
  BY ConstantsAssumption
<1>2. ASSUME NEW r \in Rounds PROVE r \in Nat \ {0} /\ 1..r \subseteq Rounds
  <2>1. PICK plan \in Plans : r \in 1..plan.rounds
    BY DEF Rounds
  <2>2. 1..plan.rounds \subseteq Rounds
    BY DEF Rounds
  <2>3. plan.rounds \in Nat
    BY <1>1
  <2>4. r \in Nat \ {0} /\ 1..r \subseteq 1..plan.rounds
    BY <2>1, <2>3
  <2> QED BY <2>2, <2>4
<1> QED BY <1>2

LEMMA IdleIsRun == Idle \in Runs
BY DEF Idle, Runs, Places, TurnStatuses

LEMMA TypeInitially == Init => TypeInv
<1> SUFFICES ASSUME Init PROVE TypeInv
  OBVIOUS
<1>1. meeting \in Meeting
  BY DEF Init, Meeting, MeetingStatuses
<1>2. NoTurn \in TurnRows
  BY DEF NoTurn, TurnRows, TurnStatuses
<1>3. turn \in [Turns -> TurnRows]
  BY <1>2 DEF Init
<1>4. process \in [Processes -> Runs] /\ \A p \in Processes : process[p].pc = "idle"
  BY IdleIsRun DEF Init, Idle
<1>5. Unsent \in Calls
  BY DEF Unsent, Calls
<1>6. request \in [Requests -> Calls]
  BY <1>5 DEF Init
<1>9. \A q \in Requests : request[q].pc = "new"
  BY DEF Init, Unsent
<1>7. expiries \in 0..MaxFaults /\ crashes \in 0..MaxFaults /\ tasks = {} /\ lock = Nobody
  BY ConstantsAssumption DEF Init
<1>8. meeting.status = "ABSENT"
  BY DEF Init
<1> QED BY <1>1, <1>3, <1>4, <1>6, <1>7, <1>8, <1>9 DEF TypeInv, TypeOK, Planned, Meeting, Runs, Places, Calls

(* The rows of a round are put in place of missing turns.                  *)
LEMMA WithRoundIsTyped ==
  ASSUME turn \in [Turns -> TurnRows], NEW r
  PROVE  WithRound(r) \in [Turns -> TurnRows]
<1>1. [NoTurn EXCEPT !.status = "QUEUED"] \in TurnRows
  BY DEF NoTurn, TurnRows, TurnStatuses
<1> QED BY <1>1 DEF WithRound

(* A process leaves the lock and the meeting's plan alone.                 *)
LEMMA LeavingKept ==
  ASSUME TypeInv, NEW p \in Processes, Leave(p), meeting' \in Meeting,
         meeting'.status # "ABSENT" => meeting'.max \in Rounds,
         meeting.status # "ABSENT" => meeting'.status # "ABSENT",
         turn' \in [Turns -> TurnRows], UNCHANGED <<request, tasks, expiries, crashes>>
  PROVE  TypeInv'
<1>1. /\ process' \in [Processes -> Runs]
      /\ \A q \in Processes : q # p => process'[q] = process[q]
      /\ process'[p].pc = "idle"
  BY IdleIsRun DEF Leave, Idle, TypeInv, TypeOK, Runs, Places
<1>2. lock' \in Processes \cup {Nobody}
  BY DEF Leave
<1>3. TypeOK'
  BY <1>1, <1>2 DEF TypeInv, TypeOK, Meeting, Runs, Places
<1>4. Planned'
  <2>1. ASSUME NEW q \in Processes, process'[q].pc # "idle" PROVE q # p /\ process'[q] = process[q]
    <3>1. q # p
      BY <1>1, <2>1
    <3> QED BY <1>1, <3>1
  <2>2. "open" # "idle"
    OBVIOUS
  <2>3. Planned /\ request' = request
    BY DEF TypeInv
  <2> QED BY <2>1, <2>2, <2>3 DEF Planned
<1> QED BY <1>3, <1>4 DEF TypeInv

LEMMA TypeStep == TypeInv /\ [Next]_vars => TypeInv'
<1> SUFFICES ASSUME TypeInv, [Next]_vars PROVE TypeInv'
  OBVIOUS
<1>0. /\ meeting \in Meeting /\ turn \in [Turns -> TurnRows] /\ lock \in Processes \cup {Nobody}
      /\ process \in [Processes -> Runs] /\ request \in [Requests -> Calls] /\ tasks \subseteq Requests
      /\ expiries \in 0..MaxFaults /\ crashes \in 0..MaxFaults /\ Planned
  BY DEF TypeInv, TypeOK, Meeting, Runs, Places, Calls
<1>a. /\ Existing \subseteq Turns /\ Active \subseteq Turns /\ Queued \subseteq Turns
      /\ First(Active) \subseteq Active /\ First(Queued) \subseteq Queued
  BY DEF Existing, Active, Queued, First
<1>1. CASE UNCHANGED vars
  BY <1>1 DEF vars, TypeInv, TypeOK, Planned
<1>2. CASE CreateMeeting
  <2>1. PICK plan \in Plans :
           meeting' = [status |-> "DRAFT", round |-> 0, max |-> plan.rounds, roster |-> plan.roster]
    BY <1>2 DEF CreateMeeting
  <2>2. plan.rounds \in Nat \ {0} /\ plan.rounds \in 1..plan.rounds
    BY ConstantsAssumption
  <2>3. plan.rounds \in Rounds /\ plan.roster \in Rosters
    BY <2>2 DEF Rounds, Rosters
  <2>4. meeting' \in Meeting /\ meeting'.max \in Rounds
    BY <2>1, <2>3 DEF Meeting, MeetingStatuses
  <2> QED BY <1>2, <2>4 DEF CreateMeeting, TypeInv, TypeOK, Planned, Meeting
<1>3. ASSUME NEW q \in Requests, NEW kind \in Kinds, BeginRequest(q, kind) PROVE TypeInv'
  <2>1. request' \in [Requests -> Calls]
    BY <1>0, <1>3, <1>a DEF BeginRequest, Calls
  <2>2. TypeOK'
    BY <1>0, <1>3, <2>1 DEF BeginRequest, TypeOK, Meeting, Runs, Places, Calls
  <2>3. meeting.status # "ABSENT"
    BY <1>3 DEF BeginRequest, Admits, Startable, Kinds
  <2>4. UNCHANGED <<meeting, process>>
    BY <1>3 DEF BeginRequest
  <2>5. Planned'
    BY <1>0, <2>3, <2>4 DEF Planned
  <2> QED BY <2>2, <2>5 DEF TypeInv
<1>4. ASSUME NEW q \in Requests, CommitStart(q) PROVE TypeInv'
  <2>1. request' \in [Requests -> Calls]
    BY <1>0, <1>4 DEF CommitStart, Calls
  <2>0. meeting.max \in Rounds
    BY <1>0, <1>4 DEF CommitStart, Planned
  <2>2. 1 \in Rounds
    <3>1. meeting.max \in Nat \ {0} /\ 1..meeting.max \subseteq Rounds
      BY <2>0, RoundsAreNumbers
    <3> QED BY <3>1
  <2>3. meeting' \in Meeting /\ meeting'.max \in Rounds
    BY <1>0, <1>4, <2>2 DEF CommitStart, Meeting, MeetingStatuses, Planned
  <2>4. turn' \in [Turns -> TurnRows]
    BY <1>0, <1>4, WithRoundIsTyped DEF CommitStart
  <2> QED BY <1>4, <2>1, <2>3, <2>4 DEF CommitStart, TypeInv, TypeOK, Planned, Calls, Meeting
<1>5. ASSUME NEW q \in Requests, CommitEnd(q) PROVE TypeInv'
  <2>1. request' \in [Requests -> Calls] /\ tasks' \subseteq Requests
    BY <1>0, <1>5 DEF CommitEnd, Calls
  <2>2. meeting' \in Meeting /\ meeting'.status # "ABSENT" /\ meeting'.max = meeting.max
    BY <1>0, <1>5 DEF CommitEnd, Meeting, MeetingStatuses, Ended
  <2>3. turn' \in [Turns -> TurnRows]
    BY <1>0, <1>5 DEF CommitEnd, TurnRows, TurnStatuses, Over
  <2>4. meeting.max \in Rounds
    BY <1>0, <1>5 DEF CommitEnd, Planned
  <2> QED BY <1>5, <2>1, <2>2, <2>3, <2>4 DEF CommitEnd, TypeInv, TypeOK, Planned, Calls, Meeting
<1>6. ASSUME NEW p \in Processes, Look(p) PROVE TypeInv'
  <2>1. /\ meeting.status = "RUNNING" /\ lock' = p
        /\ UNCHANGED <<meeting, turn, request, tasks, expiries, crashes>>
    BY <1>6 DEF Look, Processable
  <2>2. \E run \in Runs : /\ process' = [process EXCEPT ![p] = run]
                          /\ run.pc = "open" => run.round + 1 \in Rounds
    <3>1. CASE \E t \in First(Active) :
            process' = [process EXCEPT ![p].pc = "mirror", ![p].turn = t, ![p].was = turn[t].status]
      <4>1. PICK t \in First(Active) :
            process' = [process EXCEPT ![p].pc = "mirror", ![p].turn = t, ![p].was = turn[t].status]
        BY <3>1
      <4>2. t \in Turns /\ turn[t].status \in TurnStatuses
        BY <1>0, <1>a DEF TurnRows
      <4>3. [process[p] EXCEPT !.pc = "mirror", !.turn = t, !.was = turn[t].status] \in Runs
        BY <1>0, <4>2 DEF Runs, Places
      <4>4. process' = [process EXCEPT ![p] =
                  [process[p] EXCEPT !.pc = "mirror", !.turn = t, !.was = turn[t].status]]
        BY <1>0, <4>1 DEF Runs
      <4>5. [process[p] EXCEPT !.pc = "mirror", !.turn = t, !.was = turn[t].status].pc = "mirror"
        BY <1>0 DEF Runs
      <4> QED BY <4>3, <4>4, <4>5
    <3>2. CASE \E t \in First(Queued) :
            process' = [process EXCEPT ![p].pc = "invite", ![p].turn = t]
      <4>1. PICK t \in First(Queued) : process' = [process EXCEPT ![p].pc = "invite", ![p].turn = t]
        BY <3>2
      <4>2. t \in Turns
        BY <1>a
      <4>3. [process[p] EXCEPT !.pc = "invite", !.turn = t] \in Runs
        BY <1>0, <4>2 DEF Runs, Places
      <4>4. process' = [process EXCEPT ![p] = [process[p] EXCEPT !.pc = "invite", !.turn = t]]
        BY <1>0, <4>1 DEF Runs
      <4>5. [process[p] EXCEPT !.pc = "invite", !.turn = t].pc = "invite"
        BY <1>0 DEF Runs
      <4> QED BY <4>3, <4>4, <4>5
    <3>3. CASE process' = [process EXCEPT ![p].pc =
                              IF meeting.round < meeting.max THEN "open" ELSE "close",
                              ![p].round = meeting.round]
      <4> DEFINE run == [process[p] EXCEPT !.pc =
                              IF meeting.round < meeting.max THEN "open" ELSE "close",
                              !.round = meeting.round]
      <4>1. process' = [process EXCEPT ![p] = run]
        BY <1>0, <3>3 DEF Runs
      <4>0. meeting.round \in Rounds \cup {0}
        BY <1>0 DEF Meeting
      <4>6. run \in Runs
        BY <1>0, <4>0 DEF Runs, Places
      <4>7. run.round = meeting.round
        BY <1>0 DEF Runs
      <4>2. run.pc = "open" => meeting.round < meeting.max
        BY <1>0 DEF Runs
      <4>3. meeting.max \in Rounds /\ meeting.round \in Rounds \cup {0}
        BY <1>0, <2>1 DEF Planned, Meeting
      <4>4. meeting.max \in Nat \ {0} /\ 1..meeting.max \subseteq Rounds /\ meeting.round \in Nat
        <5>1. Rounds \subseteq Nat \ {0} /\ 1..meeting.max \subseteq Rounds
          BY <4>3, RoundsAreNumbers
        <5>2. meeting.max \in Nat \ {0}
          BY <4>3, <5>1
        <5>3. meeting.round \in Nat
          <6>1. \A r \in Rounds : r \in Nat
            BY <5>1
          <6>2. meeting.round \in Rounds \/ meeting.round = 0
            BY <4>3
          <6> QED BY <6>1, <6>2
        <5> QED BY <5>1, <5>2, <5>3
      <4>5. meeting.round < meeting.max => meeting.round + 1 \in Rounds
        BY <4>4
      <4> HIDE DEF run
      <4> QED BY <4>1, <4>2, <4>5, <4>6, <4>7
    <3> QED BY <1>6, <3>1, <3>2, <3>3 DEF Look
  <2>3. PICK run \in Runs : /\ process' = [process EXCEPT ![p] = run]
                            /\ run.pc = "open" => run.round + 1 \in Rounds
    BY <2>2
  <2>4. process' \in [Processes -> Runs]
        /\ \A q \in Processes : process'[q] = IF q = p THEN run ELSE process[q]
    <3>1. process' = [process EXCEPT ![p] = run]
      BY <2>3
    <3>2. process \in [Processes -> Runs]
      BY <1>0
    <3> QED BY <3>1, <3>2
  <2>5. TypeOK'
    BY <1>0, <2>1, <2>4 DEF TypeOK, Meeting, Runs, Places, Calls
  <2>6. Planned'
    <3>1. \A q \in Processes : process'[q].pc = "open" => process'[q].round + 1 \in Rounds
      BY <1>0, <2>3, <2>4 DEF Planned
    <3>2. meeting'.status = "RUNNING" /\ meeting'.max \in Rounds
      BY <1>0, <2>1 DEF Planned
    <3> QED BY <3>1, <3>2 DEF Planned
  <2> QED BY <2>5, <2>6 DEF TypeInv
<1>7. ASSUME NEW p \in Processes, MirrorTurnDispatch(p) PROVE TypeInv'
  <2> DEFINE t == process[p].turn
             s == Flush(turn[t].status, process[p].was, Mirrored(t, process[p].was))
             l == turn[t].late /\ Mirrored(t, process[p].was) = "RUNNING"
  <2>1. turn' = [turn EXCEPT ![t].status = s, ![t].late = l]
        /\ Leave(p) /\ UNCHANGED <<meeting, request, tasks, expiries, crashes>>
    BY <1>7, Zenon DEF MirrorTurnDispatch
  <2>2. t \in Turns => s \in TurnStatuses
    BY <1>0 DEF Flush, Mirrored, Told, Runs, TurnRows, TurnStatuses, Over, Speaking
  <2>4. l \in BOOLEAN
    OBVIOUS
  <2> HIDE DEF s, t, l
  <2>3. turn' \in [Turns -> TurnRows]
    BY <1>0, <2>1, <2>2, <2>4 DEF TurnRows
  <2> QED BY <1>0, <2>1, <2>3, LeavingKept DEF Planned
<1>8. ASSUME NEW p \in Processes, DispatchTurn(p) PROVE TypeInv'
  <2> DEFINE t == process[p].turn
  <2>1. [status |-> "DISPATCHING", sent |-> "DISPATCHING", late |-> FALSE] \in TurnRows
    BY DEF TurnRows, TurnStatuses, Speaking
  <2>2. turn' \in [Turns -> TurnRows]
    BY <1>0, <1>8, <2>1 DEF DispatchTurn
  <2>3. process' \in [Processes -> Runs]
    <3>1. process' = [r \in Processes |->
            IF r = p THEN [process[p] EXCEPT !.pc = "waiting", !.owns = TRUE]
            ELSE IF process[r].turn = t THEN [process[r] EXCEPT !.owns = FALSE]
            ELSE process[r]]
      BY <1>8 DEF DispatchTurn
    <3>2. \A run \in Runs : /\ [run EXCEPT !.pc = "waiting", !.owns = TRUE] \in Runs
                            /\ [run EXCEPT !.owns = FALSE] \in Runs
      BY DEF Runs, Places
    <3> QED BY <1>0, <3>1, <3>2
  <2>4. TypeOK'
    BY <1>0, <1>8, <2>2, <2>3 DEF DispatchTurn, TypeOK, Meeting, Runs, Places, Calls
  <2>5. Planned'
    BY <1>0, <1>8 DEF DispatchTurn, Planned, Runs
  <2> QED BY <2>4, <2>5 DEF TypeInv
<1>9. ASSUME NEW p \in Processes, DispatchUnconfigured(p) PROVE TypeInv'
  BY <1>0, <1>9, LeavingKept DEF DispatchUnconfigured, Planned
<1>10. ASSUME NEW p \in Processes, FinishTurn(p) PROVE TypeInv'
  <2>1. PICK answer \in Heard :
          turn' = [turn EXCEPT ![process[p].turn].status = Told(answer), ![process[p].turn].late = FALSE,
                     ![process[p].turn].sent =
                        IF process[p].owns THEN answer ELSE turn[process[p].turn].sent]
    BY <1>10 DEF FinishTurn
  <2>2. turn' \in [Turns -> TurnRows]
    <3>1. Told(answer) \in TurnStatuses /\ answer \in Reports
      BY ConstantsAssumption DEF Heard, Told, Reports, Endings, TurnStatuses, Over, Speaking
    <3>2. \A u \in Turns : turn'[u] \in TurnRows
      BY <1>0, <2>1, <3>1 DEF TurnRows
    <3>3. turn' = [u \in Turns |-> turn'[u]]
      BY <1>0, <2>1
    <3> QED BY <3>2, <3>3
  <2>3. Leave(p) /\ UNCHANGED <<meeting, request, tasks, expiries, crashes>>
    BY <1>10 DEF FinishTurn
  <2> QED BY <1>0, <2>2, <2>3, LeavingKept DEF Planned
<1>11. ASSUME NEW p \in Processes, OpenRound(p) PROVE TypeInv'
  <2> DEFINE r == process[p].round + 1
  <2>1. r \in Rounds /\ meeting.status # "ABSENT"
    BY <1>0, <1>11 DEF OpenRound, Planned
  <2>2. turn' \in [Turns -> TurnRows]
    BY <1>0, <1>11, WithRoundIsTyped DEF OpenRound
  <2>3. meeting' \in Meeting /\ meeting'.status = meeting.status /\ meeting'.max = meeting.max
    BY <1>0, <1>11, <2>1 DEF OpenRound, Meeting
  <2>4. Leave(p) /\ UNCHANGED <<request, tasks, expiries, crashes>>
    BY <1>11 DEF OpenRound
  <2> HIDE DEF r
  <2> QED BY <1>0, <2>2, <2>3, <2>4, LeavingKept DEF Planned
<1>12. ASSUME NEW p \in Processes, CloseDiscussion(p) PROVE TypeInv'
  <2>1. meeting' \in Meeting /\ meeting'.status = "AWAITING_DECISION" /\ meeting'.max = meeting.max
    BY <1>0, <1>12 DEF CloseDiscussion, Meeting, MeetingStatuses
  <2>2. meeting.status # "ABSENT"
    BY <1>0, <1>12 DEF CloseDiscussion, Planned
  <2>3. Leave(p) /\ UNCHANGED <<turn, request, tasks, expiries, crashes>>
    BY <1>12 DEF CloseDiscussion
  <2> QED BY <1>0, <2>1, <2>2, <2>3, LeavingKept DEF Planned
<1>13. ASSUME NEW p \in Processes, Crash(p) PROVE TypeInv'
  <2>1. process' \in [Processes -> Runs]
    BY <1>0, <1>13, IdleIsRun DEF Crash
  <2>2. crashes' \in 0..MaxFaults
    BY <1>0, <1>13, ConstantsAssumption DEF Crash
  <2>3. TypeOK'
    BY <1>0, <1>13, <2>1, <2>2 DEF Crash, TypeOK, Meeting, Runs, Places, Calls
  <2>4. Planned'
    BY <1>0, <1>13 DEF Crash, Planned, Idle
  <2> QED BY <2>3, <2>4 DEF TypeInv
<1>14. ASSUME NEW t \in Turns, DispatchMoves(t) \/ TurnGetsLate(t) PROVE TypeInv'
  <2>1. turn' \in [Turns -> TurnRows]
    <3>1. CASE DispatchMoves(t)
      <4>1. PICK s \in Occurring : turn' = [turn EXCEPT ![t].sent = s]
        BY <3>1 DEF DispatchMoves
      <4>2. s \in Reports
        BY ConstantsAssumption
      <4> QED BY <1>0, <4>1, <4>2 DEF TurnRows
    <3>2. CASE TurnGetsLate(t)
      BY <1>0, <3>2 DEF TurnGetsLate, TurnRows
    <3> QED BY <1>14, <3>1, <3>2
  <2>2. UNCHANGED <<meeting, lock, process, request, tasks, expiries, crashes>>
    BY <1>14 DEF DispatchMoves, TurnGetsLate
  <2> QED BY <1>0, <2>1, <2>2 DEF TypeInv, TypeOK, Planned
<1>15. CASE LockExpires
  <2>1. expiries' \in 0..MaxFaults
    BY <1>0, <1>15, ConstantsAssumption DEF LockExpires
  <2> QED BY <1>0, <1>15, <2>1 DEF LockExpires, TypeInv, TypeOK, Planned
<1> QED
  BY <1>1, <1>2, <1>3, <1>4, <1>5, <1>6, <1>7, <1>8, <1>9, <1>10, <1>11, <1>12, <1>13, <1>14, <1>15
  DEF Next, Operate, ProcessMeeting

(* The rows of a meeting keep their types (TypeOK): a turn's status stays  *)
(* one of the office's words whatever the runtime answers, and whoever     *)
(* opens a round opens one the meeting's plan has (meeting_service.py:417).*)
THEOREM TypeCorrect == Spec => []TypeOK
<1>1. Spec => []TypeInv
  BY TypeInitially, TypeStep, PTL DEF Spec
<1>2. TypeInv => TypeOK
  BY DEF TypeInv
<1> QED BY <1>1, <1>2, PTL

(* An ended meeting that nobody is working on is not worked on again, and  *)
(* creates no further tasks (phase5_app.py:381, :423).                     *)
THEOREM EndIsFinal == Spec => EndedStaysEnded
<1>1. Spec => []TypeOK
  BY TypeCorrect
<1>2. ASSUME TypeOK, [Next]_vars, Quiet
      PROVE  /\ meeting'.status = meeting.status
             /\ tasks' = tasks
             /\ \A t \in Turns : turn'[t].status = turn[t].status
             /\ Quiet'
  <2>1. /\ turn \in [Turns -> TurnRows] /\ lock \in Processes \cup {Nobody}
        /\ meeting.status \in Ended /\ \A p \in Processes : process[p].pc = "idle"
        /\ \A q \in Requests : request[q].pc # "loaded"
    BY <1>2 DEF TypeOK, Quiet
  <2>2. CASE UNCHANGED vars
    BY <2>1, <2>2 DEF vars, Quiet
  <2>3. ~CreateMeeting
    BY <2>1 DEF CreateMeeting, Ended
  <2>4. \A q \in Requests : ~Operate(q)
    BY <2>1 DEF Operate, CommitStart, CommitEnd, BeginRequest, Kinds, Admits, Startable, Ended
  <2>5. \A p \in Processes : ~ProcessMeeting(p) /\ ~Crash(p)
    BY <2>1 DEF ProcessMeeting, Look, Processable, MirrorTurnDispatch, DispatchTurn,
                DispatchUnconfigured, FinishTurn, OpenRound, CloseDiscussion, Crash, Ended
  <2>6. ASSUME NEW u \in Turns, DispatchMoves(u) \/ TurnGetsLate(u)
        PROVE  /\ \A t \in Turns : turn'[t].status = turn[t].status
               /\ UNCHANGED <<meeting, lock, process, request, tasks>>
    <3>1. CASE DispatchMoves(u)
      <4>1. PICK s \in Occurring : turn' = [turn EXCEPT ![u].sent = s]
        BY <3>1 DEF DispatchMoves
      <4> QED BY <2>1, <3>1, <4>1 DEF DispatchMoves, TurnRows
    <3>2. CASE TurnGetsLate(u)
      BY <2>1, <3>2 DEF TurnGetsLate, TurnRows
    <3> QED BY <2>6, <3>1, <3>2
  <2>7. CASE LockExpires
    BY <2>1, <2>7 DEF LockExpires, Quiet
  <2> QED BY <1>2, <2>1, <2>2, <2>3, <2>4, <2>5, <2>6, <2>7 DEF Next, Quiet
<1> QED BY <1>1, <1>2, PTL DEF Spec, EndedStaysEnded

-----------------------------------------------------------------------------
(* The rows of the rounds, whoever works on them.                          *)

Speaks == {i \in DOMAIN meeting.roster : meeting.roster[i].speaks}
Starts == {q \in Requests : request[q].kind = "start" /\ request[q].pc = "done"}
AtTurn == {"mirror", "invite", "waiting"}

(* Every round up to the n-th has a row for each of its speakers.          *)
Present(n) ==
    \A r \in 1..n : \A i \in Speaks : \E c \in 1..MaxCopies : <<r, i, c>> \in Existing

(* Rows are made for all speakers at once.                                 *)
Whole ==
    \A t \in Existing : t[2] \in Speaks /\ \A i \in Speaks : <<t[1], i, t[3]>> \in Existing

(* What a process holds of what it read: a turn that exists, or the number *)
(* of rounds that were opened.                                             *)
Holds(run) ==
    /\ run.pc \in AtTurn => run.turn \in Existing
    /\ run.pc = "mirror" => run.was # "ABSENT"
    /\ run.pc = "open" => Present(run.round)

(* Nothing is there before the first start.                                *)
Unstarted ==
    /\ Existing = {}
    /\ meeting.status \notin {"RUNNING", "AWAITING_DECISION"}
    /\ \A p \in Processes : process[p].pc = "idle"

RowsInv ==
    /\ TypeInv
    /\ meeting.status = "ABSENT" => Existing = {}
    /\ Whole /\ Present(meeting.round)
    /\ \A p \in Processes : Holds(process[p])
    /\ \A q \in Requests : request[q].skips \subseteq Existing
    /\ IsFiniteSet(Starts)
    /\ Starts = {} => Unstarted

LEMMA SpeakersHaveAnOrder == TypeInv => Speaks \subseteq Orders
<1> SUFFICES ASSUME TypeInv, NEW i \in Speaks PROVE i \in Orders
  OBVIOUS
<1>1. meeting.roster \in Rosters \/ meeting.roster = <<>>
  BY DEF TypeInv, TypeOK
<1>2. i \in DOMAIN meeting.roster
  BY DEF Speaks
<1>3. meeting.roster # <<>>
  BY <1>2
<1> QED BY <1>1, <1>2, <1>3 DEF Orders

(* Opening a round adds queued rows and leaves every other row alone.      *)
LEMMA RoundAdds ==
  ASSUME RowsInv, NEW r \in Rounds, turn' = WithRound(r), meeting'.roster = meeting.roster
  PROVE  /\ RoundRows(r) \subseteq Turns \ Existing
         /\ Existing' = Existing \cup RoundRows(r)
         /\ \A t \in Turns : turn'[t].status =
               IF t \in RoundRows(r) THEN "QUEUED" ELSE turn[t].status
         /\ Whole'
         /\ \A i \in Speaks : \E c \in 1..MaxCopies : <<r, i, c>> \in Existing'
<1>1. turn \in [Turns -> TurnRows] /\ Speaks \subseteq Orders /\ Speaks' = Speaks /\ Whole
  BY SpeakersHaveAnOrder DEF RowsInv, TypeInv, TypeOK, Speaks
<1> DEFINE C == {c \in 1..MaxCopies :
                    /\ \A t \in Existing : t[1] = r => t[3] < c
                    /\ \A b \in 1..(c - 1) : \E t \in Existing : t[1] = r /\ t[3] = b}
<1>2. RoundRows(r) = {<<r, i, c>> : i \in Speaks, c \in C}
  BY DEF RoundRows, Speaks
<1>3. RoundRows(r) \subseteq Turns
  BY <1>1, <1>2 DEF Turns
<1>4. ASSUME NEW t \in RoundRows(r) PROVE t \notin Existing
  <2>1. PICK i \in Speaks, c \in C : t = <<r, i, c>>
    BY <1>2
  <2>2. t[1] = r /\ t[3] = c /\ c \in Int
    BY <2>1
  <2> QED BY <2>2
<1>5. \A t \in Turns : turn'[t].status = IF t \in RoundRows(r) THEN "QUEUED" ELSE turn[t].status
  BY <1>1 DEF WithRound, NoTurn
<1>6. Existing' = Existing \cup RoundRows(r)
  BY <1>3, <1>5 DEF Existing
<1>7. ASSUME NEW t \in Existing' PROVE t[2] \in Speaks' /\ \A i \in Speaks' : <<t[1], i, t[3]>> \in Existing'
  <2>1. CASE t \in Existing
    BY <1>1, <1>6, <2>1 DEF Whole
  <2>2. CASE t \in RoundRows(r)
    <3>1. PICK i \in Speaks, c \in C : t = <<r, i, c>>
      BY <1>2, <2>2
    <3>2. t[1] = r /\ t[2] = i /\ t[3] = c
      BY <3>1
    <3>3. \A j \in Speaks : <<r, j, c>> \in RoundRows(r)
      BY <1>2
    <3> QED BY <1>1, <1>6, <3>2, <3>3
  <2> QED BY <1>6, <1>7, <2>1, <2>2
<1>8. ASSUME NEW i \in Speaks PROVE \E c \in 1..MaxCopies : <<r, i, c>> \in Existing'
  <2>1. CASE \E t \in Existing : t[1] = r
    <3>1. PICK t \in Existing : t[1] = r
      BY <2>1
    <3>2. <<r, i, t[3]>> \in Existing /\ t[3] \in 1..MaxCopies
      BY <1>1, <3>1 DEF Whole, Existing, Turns
    <3> QED BY <1>6, <3>2
  <2>2. CASE ~\E t \in Existing : t[1] = r
    <3>1. 1 \in 1..MaxCopies
      BY ConstantsAssumption
    <3>2. 1 \in C
      BY <2>2, <3>1
    <3>3. <<r, i, 1>> \in RoundRows(r)
      BY <1>2, <3>2
    <3> QED BY <1>6, <3>1, <3>3
  <2> QED BY <2>1, <2>2
<1> HIDE DEF C
<1> QED BY <1>3, <1>4, <1>5, <1>6, <1>7, <1>8 DEF Whole

SameStatuses == \A t \in Turns : turn'[t].status = turn[t].status

(* The runs of the others, apart from whether they own their row.          *)
Like(run, other) ==
    run.pc = other.pc /\ run.round = other.round /\ run.turn = other.turn /\ run.was = other.was

(* One step of p at its turn: it writes that row and no other, and waits   *)
(* for the answer or leaves.                                               *)
WritesItsTurn(p) ==
    /\ process[p].pc \in AtTurn
    /\ turn'[process[p].turn].status # "ABSENT"
    /\ \A u \in Turns \ {process[p].turn} : turn'[u].status = turn[u].status
    /\ \A r \in Processes \ {p} : Like(process'[r], process[r])
    /\ \/ process'[p].pc = "waiting" /\ process'[p].turn = process[p].turn /\ lock' = lock
       \/ process'[p] = Idle /\ lock' = Nobody
    /\ UNCHANGED <<meeting, request, tasks, expiries>>

LEMMA TurnStepsWriteOneTurn ==
  ASSUME RowsInv, NEW p \in Processes,
         MirrorTurnDispatch(p) \/ DispatchTurn(p) \/ FinishTurn(p)
  PROVE  WritesItsTurn(p)
<1> DEFINE t == process[p].turn
<1>0. /\ turn \in [Turns -> TurnRows] /\ process \in [Processes -> Runs]
  BY DEF RowsInv, TypeInv, TypeOK, Runs, Places
<1>1. process[p].pc \in AtTurn
  BY DEF MirrorTurnDispatch, DispatchTurn, FinishTurn, AtTurn
<1>2. t \in Turns /\ turn[t].status # "ABSENT" /\ (process[p].pc = "mirror" => process[p].was # "ABSENT")
  BY <1>1 DEF RowsInv, Holds, Existing
<1>3. CASE MirrorTurnDispatch(p)
  <2> DEFINE s == Flush(turn[t].status, process[p].was, Mirrored(t, process[p].was))
  <2>1. PICK l \in BOOLEAN :
          turn' = [turn EXCEPT ![t].status = s, ![t].late = l] /\ Leave(p)
          /\ UNCHANGED <<meeting, request, tasks, expiries>>
    BY <1>3, Zenon DEF MirrorTurnDispatch
  <2>2. process[p].was # "ABSENT"
    BY <1>2, <1>3 DEF MirrorTurnDispatch
  <2>3. Mirrored(t, process[p].was) # "ABSENT"
    BY <2>2 DEF Mirrored, Told
  <2>4. s # "ABSENT"
    BY <1>2, <2>3 DEF Flush
  <2> HIDE DEF s
  <2>5. turn'[t].status = s /\ \A u \in Turns \ {t} : turn'[u] = turn[u]
    BY <1>0, <1>2, <2>1 DEF TurnRows
  <2>6. process'[p] = Idle /\ lock' = Nobody /\ \A r \in Processes \ {p} : process'[r] = process[r]
    BY <1>0, <2>1 DEF Leave
  <2> QED BY <1>1, <2>1, <2>4, <2>5, <2>6 DEF WritesItsTurn, Like
<1>4. CASE DispatchTurn(p)
  <2>1. turn' = [turn EXCEPT ![t] = [status |-> "DISPATCHING", sent |-> "DISPATCHING", late |-> FALSE]]
    BY <1>4 DEF DispatchTurn
  <2>2. turn'[t].status = "DISPATCHING" /\ \A u \in Turns \ {t} : turn'[u] = turn[u]
    BY <1>0, <1>2, <2>1
  <2>3. process' = [r \in Processes |->
            IF r = p THEN [process[p] EXCEPT !.pc = "waiting", !.owns = TRUE]
            ELSE IF process[r].turn = t THEN [process[r] EXCEPT !.owns = FALSE]
            ELSE process[r]]
    BY <1>4 DEF DispatchTurn
  <2>4. process'[p].pc = "waiting" /\ process'[p].turn = t
    BY <1>0, <2>3 DEF Runs
  <2>5. \A r \in Processes \ {p} : Like(process'[r], process[r])
    BY <1>0, <2>3 DEF Like, Runs
  <2> QED BY <1>1, <1>4, <2>2, <2>4, <2>5 DEF WritesItsTurn, DispatchTurn
<1>5. CASE FinishTurn(p)
  <2>1. PICK answer \in Heard :
          turn' = [turn EXCEPT ![t].status = Told(answer), ![t].late = FALSE,
                               ![t].sent = IF process[p].owns THEN answer ELSE turn[t].sent]
    BY <1>5 DEF FinishTurn
  <2>2. turn'[t].status = Told(answer) /\ \A u \in Turns \ {t} : turn'[u] = turn[u]
    BY <1>0, <1>2, <2>1 DEF TurnRows
  <2>3. Told(answer) # "ABSENT"
    BY DEF Told
  <2>4. process'[p] = Idle /\ lock' = Nobody /\ \A r \in Processes \ {p} : process'[r] = process[r]
    BY <1>0, <1>5 DEF FinishTurn, Leave
  <2> QED BY <1>1, <1>5, <2>2, <2>3, <2>4 DEF WritesItsTurn, FinishTurn, Like
<1> QED BY <1>3, <1>4, <1>5

(* Steps that make no row.                                                 *)
LEMMA RowsKept ==
  ASSUME RowsInv, TypeInv', Existing' = Existing,
         meeting'.roster = meeting.roster, meeting'.round = meeting.round,
         meeting'.status = "ABSENT" => meeting.status = "ABSENT", Starts' = Starts,
         \A p \in Processes : Holds(process'[p]),
         \A q \in Requests : request'[q].skips \subseteq Existing,
         Starts = {} => /\ meeting'.status \notin {"RUNNING", "AWAITING_DECISION"}
                        /\ \A p \in Processes : process'[p].pc = "idle"
  PROVE  RowsInv'
<1>1. Speaks' = Speaks
  BY DEF Speaks
<1>2. Whole' /\ Present(meeting.round)'
  BY <1>1 DEF RowsInv, Whole, Present
<1>3. \A p \in Processes : Holds(process[p])'
  BY <1>1 DEF Holds, Present
<1>4. Starts' = {} => Unstarted'
  BY DEF RowsInv, Unstarted
<1> QED BY <1>2, <1>3, <1>4 DEF RowsInv

(* Steps that open the r-th round.                                         *)
LEMMA RowsAdded ==
  ASSUME RowsInv, TypeInv', NEW r \in Rounds, turn' = WithRound(r),
         meeting'.roster = meeting.roster, meeting'.status # "ABSENT",
         meeting'.round = r, Present(r - 1),
         \A p \in Processes : Holds(process'[p]),
         \A q \in Requests : request'[q].skips \subseteq Existing,
         IsFiniteSet(Starts'), Starts' # {}
  PROVE  RowsInv'
<1>1. /\ Existing \subseteq Existing' /\ Whole' /\ Speaks' = Speaks
      /\ \A i \in Speaks : \E c \in 1..MaxCopies : <<r, i, c>> \in Existing'
  BY RoundAdds DEF Speaks
<1>2. \A n \in Nat : Present(n) => Present(n)'
  BY <1>1 DEF Present
<1>3. r \in Nat \ {0}
  BY RoundsAreNumbers
<1>4. Present(meeting.round)'
  <2>1. \A n \in 1..r : n \in 1..(r - 1) \/ n = r
    BY <1>3
  <2>2. Present(r - 1)'
    BY <1>2, <1>3
  <2>3. Present(r)'
    BY <1>1, <2>1, <2>2 DEF Present
  <2> QED BY <2>3 DEF Present
<1>5. \A p \in Processes : Holds(process[p])'
  <2> SUFFICES ASSUME NEW p \in Processes PROVE Holds(process[p])'
    OBVIOUS
  <2>1. process' \in [Processes -> Runs]
    BY DEF TypeInv, TypeOK, Runs, Places
  <2>2. PICK run \in Runs : run = process'[p]
    BY <2>1
  <2>3. Holds(run)
    BY <2>2
  <2>4. run.round \in Nat
    <3>1. \A n \in Rounds : n \in Nat
      BY RoundsAreNumbers
    <3>2. run.round \in Rounds \/ run.round = 0
      BY DEF Runs
    <3> QED BY <3>1, <3>2
  <2>5. Present(run.round) => Present(run.round)'
    BY <1>2, <2>4
  <2>6. Holds(run)'
    BY <1>1, <2>3, <2>5 DEF Holds
  <2> QED BY <2>2, <2>6 DEF Holds, Present
<1>6. \A q \in Requests : request'[q].skips \subseteq Existing'
  BY <1>1
<1> QED BY <1>1, <1>4, <1>5, <1>6 DEF RowsInv

LEMMA RowsInitially == Init => RowsInv
<1> SUFFICES ASSUME Init PROVE RowsInv
  OBVIOUS
<1>1. \A t \in Turns : turn[t].status = "ABSENT"
  BY DEF Init, NoTurn
<1>2. Existing = {}
  BY <1>1 DEF Existing
<1>3. Starts = {} /\ IsFiniteSet(Starts)
  <2>1. Starts = {}
    BY DEF Init, Starts, Unsent
  <2> QED BY <2>1, FS_EmptySet
<1>4. 1..0 = {} /\ meeting.round = 0
  BY DEF Init
<1>5. \A p \in Processes : process[p].pc = "idle" /\ Holds(process[p])
  BY DEF Init, Idle, Holds, AtTurn
<1>6. \A q \in Requests : request[q].skips = {}
  BY DEF Init, Unsent
<1>7. meeting.status = "ABSENT"
  BY DEF Init
<1> QED BY <1>2, <1>3, <1>4, <1>5, <1>6, <1>7, TypeInitially DEF RowsInv, Whole, Present, Unstarted

(* What Look leaves a process with.                                        *)
LEMMA LookReads ==
  ASSUME RowsInv, NEW p \in Processes, Look(p)
  PROVE  /\ \A r \in Processes \ {p} : process'[r] = process[r]
         /\ \/ /\ process'[p].pc = "mirror" /\ process'[p].turn \in First(Active)
               /\ process'[p].was = turn[process'[p].turn].status
            \/ /\ process'[p].pc = "invite" /\ process'[p].turn \in First(Queued) /\ Active = {}
            \/ /\ process'[p].pc = IF meeting.round < meeting.max THEN "open" ELSE "close"
               /\ process'[p].round = meeting.round /\ Active \cup Queued = {}
<1>0. process \in [Processes -> Runs]
  BY DEF RowsInv, TypeInv, TypeOK, Runs, Places
<1>1. CASE \E t \in First(Active) :
            process' = [process EXCEPT ![p].pc = "mirror", ![p].turn = t, ![p].was = turn[t].status]
  <2>1. PICK t \in First(Active) :
            process' = [process EXCEPT ![p].pc = "mirror", ![p].turn = t, ![p].was = turn[t].status]
    BY <1>1
  <2> QED BY <1>0, <2>1 DEF Runs
<1>2. CASE Active = {} /\ \E t \in First(Queued) :
            process' = [process EXCEPT ![p].pc = "invite", ![p].turn = t]
  <2>1. PICK t \in First(Queued) : process' = [process EXCEPT ![p].pc = "invite", ![p].turn = t]
    BY <1>2
  <2> QED BY <1>0, <1>2, <2>1 DEF Runs
<1>3. CASE Active \cup Queued = {}
           /\ process' = [process EXCEPT ![p].pc =
                              IF meeting.round < meeting.max THEN "open" ELSE "close",
                              ![p].round = meeting.round]
  BY <1>0, <1>3 DEF Runs
<1> QED BY <1>1, <1>2, <1>3 DEF Look

LEMMA RowsStep == RowsInv /\ [Next]_vars => RowsInv'
<1> SUFFICES ASSUME RowsInv, [Next]_vars PROVE RowsInv'
  OBVIOUS
<1>0. /\ TypeInv' /\ turn \in [Turns -> TurnRows] /\ request \in [Requests -> Calls]
      /\ process \in [Processes -> Runs]
      /\ meeting \in Meeting /\ Planned /\ Holds(Idle)
      /\ \A p \in Processes : Holds(process[p])
      /\ \A q \in Requests : request[q].skips \subseteq Existing
  BY TypeStep DEF RowsInv, TypeInv, TypeOK, Calls, Meeting, Runs, Places, Holds, Idle, AtTurn
<1>a. (Starts = {} => Unstarted) /\ IsFiniteSet(Starts)
  BY DEF RowsInv
<1>b. SameStatuses => Existing' = Existing
  BY DEF SameStatuses, Existing
<1>c. request' = request => Starts' = Starts
  BY DEF Starts
<1>1. CASE UNCHANGED vars
  <2>1. UNCHANGED <<meeting, turn, process, request>> /\ SameStatuses
    BY <1>1 DEF vars, SameStatuses
  <2> QED BY <1>0, <1>a, <1>b, <1>c, <2>1, RowsKept DEF Unstarted
<1>2. CASE CreateMeeting
  <2>1. /\ meeting.status = "ABSENT" /\ meeting'.round = 0 /\ meeting'.status = "DRAFT"
        /\ UNCHANGED <<turn, process, request>>
    BY <1>2 DEF CreateMeeting
  <2>2. Existing = {} /\ Existing' = {}
    BY <2>1 DEF RowsInv, Existing
  <2>3. \A p \in Processes : process[p].pc = "idle"
    BY <1>0, <2>1 DEF Planned
  <2>4. \A p \in Processes : Holds(process[p])'
    BY <2>1, <2>3 DEF Holds, AtTurn
  <2>5. 1..0 = {}
    OBVIOUS
  <2>6. Whole' /\ Present(meeting.round)'
    BY <2>1, <2>2, <2>5 DEF Whole, Present
  <2>7. \A q \in Requests : request'[q].skips \subseteq Existing'
    BY <1>0, <2>1, <2>2
  <2>8. Starts' = Starts /\ Unstarted'
    BY <1>c, <2>1, <2>2, <2>3 DEF Unstarted
  <2> QED BY <1>0, <1>a, <2>1, <2>2, <2>4, <2>6, <2>7, <2>8 DEF RowsInv
<1>3. ASSUME NEW q \in Requests, NEW kind \in Kinds, BeginRequest(q, kind) PROVE RowsInv'
  <2>1. /\ UNCHANGED <<meeting, turn, process>> /\ SameStatuses /\ request[q].pc = "new"
        /\ request' = [request EXCEPT ![q] = [pc |-> "loaded", kind |-> kind, skips |-> Active \cup Queued]]
    BY <1>3 DEF BeginRequest, SameStatuses
  <2>2. Starts' = Starts
    BY <1>0, <2>1 DEF Starts
  <2>3. Active \cup Queued \subseteq Existing
    BY DEF Active, Queued, Existing, Speaking
  <2>4. \A r \in Requests : request'[r].skips \subseteq Existing
    BY <1>0, <2>1, <2>3
  <2> QED BY <1>0, <1>a, <1>b, <2>1, <2>2, <2>4, RowsKept DEF Unstarted
<1>4. ASSUME NEW q \in Requests, CommitStart(q) PROVE RowsInv'
  <2>1. /\ meeting'.status = "RUNNING" /\ meeting'.round = 1 /\ meeting'.roster = meeting.roster
        /\ turn' = WithRound(1) /\ process' = process
        /\ request[q].kind = "start" /\ request' = [request EXCEPT ![q].pc = "done"]
    BY <1>0, <1>4 DEF CommitStart, Meeting
  <2>2. meeting.max \in Rounds
    BY <1>0, <1>4 DEF CommitStart, Planned
  <2>3. 1 \in Rounds
    <3>1. meeting.max \in Nat \ {0} /\ 1..meeting.max \subseteq Rounds
      BY <2>2, RoundsAreNumbers
    <3> QED BY <3>1
  <2>4. Starts' = Starts \cup {q}
    BY <1>0, <2>1 DEF Starts, Calls
  <2>5. IsFiniteSet(Starts') /\ Starts' # {}
    BY <1>a, <2>4, FS_AddElement
  <2>6. \A r \in Requests : request'[r].skips \subseteq Existing
    BY <1>0, <2>1 DEF Calls
  <2>7. Present(1 - 1)
    BY DEF Present
  <2> QED BY <1>0, <2>1, <2>3, <2>5, <2>6, <2>7, RowsAdded
<1>5. ASSUME NEW q \in Requests, CommitEnd(q) PROVE RowsInv'
  <2>1. /\ meeting' = [meeting EXCEPT !.status = IF request[q].kind = "cancel" THEN "CANCELLED" ELSE "COMPLETED"]
        /\ turn' = [t \in Turns |-> IF t \in request[q].skips
                                    THEN [turn[t] EXCEPT !.status = "SKIPPED", !.late = FALSE]
                                    ELSE turn[t]]
        /\ request' = [request EXCEPT ![q] = [pc |-> "done", kind |-> "none", skips |-> {}]]
        /\ process' = process /\ request[q].pc = "loaded"
    BY <1>5 DEF CommitEnd
  <2>2. \A t \in Turns : turn'[t].status = IF t \in request[q].skips THEN "SKIPPED" ELSE turn[t].status
    BY <1>0, <2>1 DEF TurnRows
  <2>3. Existing' = Existing
    BY <1>0, <2>2 DEF Existing
  <2>4. Starts' = Starts
    BY <1>0, <2>1 DEF Starts
  <2>5. /\ meeting'.status \in {"CANCELLED", "COMPLETED"} /\ meeting'.roster = meeting.roster
        /\ meeting'.round = meeting.round
    BY <1>0, <2>1 DEF Meeting
  <2>6. \A r \in Requests : request'[r].skips \subseteq Existing
    BY <1>0, <2>1
  <2> QED BY <1>0, <1>a, <2>1, <2>3, <2>4, <2>5, <2>6, RowsKept DEF Unstarted
<1>6. ASSUME NEW p \in Processes, Look(p) PROVE RowsInv'
  <2>1. /\ UNCHANGED <<meeting, turn, request>> /\ SameStatuses /\ meeting.status = "RUNNING"
    BY <1>6 DEF Look, SameStatuses, Processable
  <2>2. Starts # {}
    BY <1>a, <2>1 DEF Unstarted
  <2>3. First(Active) \subseteq Existing /\ First(Queued) \subseteq Existing
        /\ \A t \in First(Active) : turn[t].status # "ABSENT"
    BY DEF First, Active, Queued, Existing, Speaking
  <2>4. Present(meeting.round)
    BY DEF RowsInv
  <2>5. Holds(process'[p])
    BY <1>6, <2>3, <2>4, LookReads DEF Holds, AtTurn
  <2>6. \A r \in Processes : Holds(process'[r])
    BY <1>0, <1>6, <2>5, LookReads
  <2> QED BY <1>0, <1>b, <1>c, <2>1, <2>2, <2>6, RowsKept
<1>7. ASSUME NEW p \in Processes, MirrorTurnDispatch(p) \/ DispatchTurn(p) \/ FinishTurn(p) PROVE RowsInv'
  <2>1. WritesItsTurn(p)
    BY <1>7, TurnStepsWriteOneTurn
  <2>2. process[p].turn \in Existing /\ process[p].pc # "idle"
    BY <1>0, <2>1 DEF WritesItsTurn, Holds, AtTurn
  <2>3. Existing' = Existing
    BY <2>1, <2>2 DEF WritesItsTurn, Existing
  <2>4. \A r \in Processes : Holds(process'[r])
    BY <1>0, <2>1, <2>2 DEF WritesItsTurn, Holds, Like, AtTurn
  <2>5. Starts # {}
    BY <1>a, <2>2 DEF Unstarted
  <2> QED BY <1>0, <1>c, <2>1, <2>3, <2>4, <2>5, RowsKept DEF WritesItsTurn
<1>8. ASSUME NEW p \in Processes, DispatchUnconfigured(p) \/ CloseDiscussion(p) PROVE RowsInv'
  <2>1. /\ UNCHANGED <<turn, request>> /\ SameStatuses /\ process[p].pc # "idle"
        /\ process' = [process EXCEPT ![p] = Idle]
    BY <1>8 DEF DispatchUnconfigured, CloseDiscussion, SameStatuses, Leave
  <2>2. /\ meeting'.roster = meeting.roster /\ meeting'.round = meeting.round
        /\ meeting'.status = "ABSENT" => meeting.status = "ABSENT"
    BY <1>0, <1>8 DEF DispatchUnconfigured, CloseDiscussion, Meeting
  <2>3. Starts # {}
    BY <1>a, <2>1 DEF Unstarted
  <2>4. \A r \in Processes : Holds(process'[r])
    BY <1>0, <2>1
  <2> QED BY <1>0, <1>b, <1>c, <2>1, <2>2, <2>3, <2>4, RowsKept
<1>9. ASSUME NEW p \in Processes, OpenRound(p) PROVE RowsInv'
  <2> DEFINE r == process[p].round + 1
  <2>1. /\ request' = request /\ process[p].pc = "open" /\ process' = [process EXCEPT ![p] = Idle]
    BY <1>9 DEF OpenRound, Leave
  <2>2. Starts # {} /\ Starts' = Starts
    BY <1>a, <1>c, <2>1 DEF Unstarted
  <2>3. \A q \in Processes : Holds(process'[q])
    BY <1>0, <2>1
  <2>4. CASE UNCHANGED <<meeting, turn>>
    BY <1>0, <1>b, <2>1, <2>2, <2>3, <2>4, RowsKept DEF SameStatuses
  <2>5. CASE turn' = WithRound(r) /\ meeting' = [meeting EXCEPT !.round = r]
    <3>1. r \in Rounds /\ meeting.status # "ABSENT"
      BY <1>0, <2>1 DEF Planned
    <3>2. process[p].round \in Rounds \cup {0}
      BY <1>0 DEF Runs
    <3>3. process[p].round \in Nat
      <4>1. \A n \in Rounds : n \in Nat
        BY RoundsAreNumbers
      <4>2. process[p].round \in Rounds \/ process[p].round = 0
        BY <3>2
      <4> QED BY <4>1, <4>2
    <3>4. Present(process[p].round) /\ r - 1 = process[p].round
      BY <1>0, <2>1, <3>3 DEF Holds
    <3>5. meeting'.roster = meeting.roster /\ meeting'.status # "ABSENT" /\ meeting'.round = r
      BY <1>0, <2>5, <3>1 DEF Meeting
    <3> HIDE DEF r
    <3> QED BY <1>0, <1>a, <2>1, <2>2, <2>3, <2>5, <3>1, <3>4, <3>5, RowsAdded
  <2> QED BY <1>9, <2>4, <2>5 DEF OpenRound
<1>10. ASSUME NEW p \in Processes, Crash(p) PROVE RowsInv'
  <2>1. /\ UNCHANGED <<meeting, turn, request>> /\ SameStatuses /\ process' = [process EXCEPT ![p] = Idle]
        /\ process[p].pc # "idle"
    BY <1>10 DEF Crash, SameStatuses
  <2>2. Starts # {} /\ \A r \in Processes : Holds(process'[r])
    BY <1>0, <1>a, <2>1 DEF Unstarted
  <2> QED BY <1>0, <1>b, <1>c, <2>1, <2>2, RowsKept
<1>11. ASSUME NEW t \in Turns, DispatchMoves(t) \/ TurnGetsLate(t) PROVE RowsInv'
  <2>1. SameStatuses
    BY <1>0, <1>11 DEF DispatchMoves, TurnGetsLate, TurnRows, SameStatuses
  <2>2. UNCHANGED <<meeting, process, request>>
    BY <1>11 DEF DispatchMoves, TurnGetsLate
  <2> QED BY <1>0, <1>a, <1>b, <1>c, <2>1, <2>2, RowsKept DEF Unstarted
<1>12. CASE LockExpires
  <2>1. UNCHANGED <<meeting, turn, process, request>> /\ SameStatuses
    BY <1>12 DEF LockExpires, SameStatuses
  <2> QED BY <1>0, <1>a, <1>b, <1>c, <2>1, RowsKept DEF Unstarted
<1> QED BY <1>1, <1>2, <1>3, <1>4, <1>5, <1>6, <1>7, <1>8, <1>9, <1>10, <1>11, <1>12
        DEF Next, Operate, ProcessMeeting

-----------------------------------------------------------------------------
(* The order of the turns, as long as no lock ran out under a process.     *)

(* Those ahead of a turn are through, nobody behind it had a turn.         *)
Heads(t) ==
    \A u \in Existing \ {t} :
        /\ Before(u, t) => turn[u].status \in Over
        /\ ~Before(u, t) => turn[u].status \in {"QUEUED", "SKIPPED"}

InOrder ==
    \A t, u \in Existing :
        Before(t, u) /\ turn[u].status \in Speaking \cup {"COMPLETED", "FAILED"} =>
            turn[t].status \in Over

(* Whoever is inside holds the head of the queue, or found it empty.       *)
Keeps(run) ==
    /\ run.pc \in AtTurn => Heads(run.turn)
    /\ run.pc \in {"open", "close"} => Active \cup Queued = {} /\ run.round = meeting.round

Ordered ==
    /\ \A t \in Existing : t[3] = 1 /\ t[1] <= meeting.round
    /\ \A t, u \in Active : t = u
    /\ InOrder
    /\ \A p \in Processes : Keeps(process[p])

(* Every speaker of every round was heard, failed or was skipped.          *)
AllHeard ==
    \A r \in 1..meeting.max : \A i \in Speaks : \E c \in 1..MaxCopies :
        <<r, i, c>> \in Existing /\ turn[<<r, i, c>>].status \in Over

Alone ==
    /\ \A p \in Processes : process[p].pc # "idle" => lock = p
    /\ meeting.status = "AWAITING_DECISION" =>
          AllHeard /\ \A p \in Processes : process[p].pc = "idle"
    /\ \A p \in Processes : process[p].pc = "close" => AllHeard
    /\ StartedOnce => Ordered

MeetingInv == RowsInv /\ (expiries = 0 => Alone)

LEMMA BeforeIsAnOrder ==
  ASSUME NEW t \in Turns, NEW u \in Turns
  PROVE  /\ ~Before(t, t)
         /\ \A v \in Turns : Before(t, u) /\ Before(u, v) => Before(t, v)
         /\ t[3] = u[3] => t = u \/ Before(t, u) \/ Before(u, t)
<1>1. ASSUME NEW v \in Turns
      PROVE  v[1] \in Nat /\ v[2] \in Nat /\ v = <<v[1], v[2], v[3]>>
  <2>1. \A roster \in Rosters : DOMAIN roster \subseteq Nat
    BY ConstantsAssumption DEF Rosters
  <2>2. Orders \subseteq Nat /\ Rounds \subseteq Nat
    BY <2>1, RoundsAreNumbers DEF Orders
  <2>3. PICK r \in Rounds, i \in Orders, c \in 1..MaxCopies : v = <<r, i, c>>
    BY DEF Turns
  <2>4. r \in Nat /\ i \in Nat
    BY <2>2
  <2> QED BY <2>3, <2>4
<1> QED BY <1>1 DEF Before

(* The first start is the only one while none has followed it.             *)
LEMMA OnlyStart ==
  ASSUME RowsInv, NEW q \in Requests, q \notin Starts, Starts' = Starts \cup {q}, StartedOnce'
  PROVE  Starts = {}
<1>1. IsFiniteSet(Starts) /\ Cardinality(Starts') <= 1
  BY DEF RowsInv, StartedOnce, Starts
<1>2. Cardinality(Starts \cup {q}) = Cardinality(Starts) + 1 /\ Cardinality(Starts) \in Nat
  BY <1>1, FS_AddElement, FS_CardinalityType
<1>3. Cardinality(Starts) = 0
  BY <1>1, <1>2
<1> QED BY <1>1, <1>3, FS_EmptySet

(* Steps that do no more to the rows than to skip some.                    *)
SkipsAtMost ==
    \A t \in Turns :
        \/ turn'[t].status = turn[t].status
        \/ turn'[t].status = "SKIPPED" /\ turn[t].status # "ABSENT"

LEMMA AloneKept ==
  ASSUME RowsInv, RowsInv', Alone, SkipsAtMost, Starts' = Starts,
         meeting'.roster = meeting.roster, meeting'.round = meeting.round, meeting'.max = meeting.max,
         \A p \in Processes : process'[p].pc # "idle" => lock' = p,
         meeting'.status = "AWAITING_DECISION" =>
            AllHeard /\ \A p \in Processes : process'[p].pc = "idle",
         \A p \in Processes : process'[p].pc = "close" => AllHeard,
         StartedOnce => \A p \in Processes : Keeps(process'[p])
  PROVE  Alone'
<1>1. Existing' = Existing /\ Active' \subseteq Active /\ Queued' \subseteq Queued
  BY DEF SkipsAtMost, Existing, Active, Queued, Speaking
<1>2. /\ \A t \in Turns : turn[t].status \in Over => turn'[t].status \in Over
      /\ Speaks' = Speaks /\ Existing \subseteq Turns
  BY DEF SkipsAtMost, Over, Speaks, Existing
<1>3. AllHeard => AllHeard'
  <2> SUFFICES ASSUME AllHeard PROVE AllHeard'
    OBVIOUS
  <2>1. ASSUME NEW r \in 1..meeting.max, NEW i \in Speaks
        PROVE  \E c \in 1..MaxCopies : <<r, i, c>> \in Existing /\ turn'[<<r, i, c>>].status \in Over
    <3>1. PICK c \in 1..MaxCopies : <<r, i, c>> \in Existing /\ turn[<<r, i, c>>].status \in Over
      BY DEF AllHeard
    <3> QED BY <1>2, <3>1
  <2> QED BY <1>1, <1>2, <2>1 DEF AllHeard
<1>4. ASSUME StartedOnce PROVE Ordered'
  <2>1. Ordered
    BY <1>4 DEF Alone
  <2>2. ASSUME NEW t \in Existing', NEW u \in Existing', Before(t, u),
               turn'[u].status \in Speaking \cup {"COMPLETED", "FAILED"}
        PROVE  turn'[t].status \in Over
    <3>1. turn[u].status \in Speaking \cup {"COMPLETED", "FAILED"}
      BY <1>1, <1>2, <2>2 DEF SkipsAtMost, Speaking
    <3>2. turn[t].status \in Over
      BY <1>1, <2>1, <2>2, <3>1 DEF Ordered, InOrder
    <3> QED BY <1>1, <1>2, <3>2
  <2>3. ASSUME NEW t, Heads(t) PROVE Heads(t)'
    <3>1. ASSUME NEW u \in Existing \ {t}
          PROVE  /\ Before(u, t) => turn'[u].status \in Over
                 /\ ~Before(u, t) => turn'[u].status \in {"QUEUED", "SKIPPED"}
      BY <1>2, <2>3 DEF Heads, SkipsAtMost
    <3> QED BY <1>1, <3>1 DEF Heads
  <2>4. ASSUME NEW p \in Processes PROVE Keeps(process[p])'
    <3>1. Keeps(process'[p])
      BY <1>4
    <3>2. process'[p] \in Runs
      BY DEF RowsInv, TypeInv, TypeOK, Runs, Places
    <3>3. PICK run \in Runs : run = process'[p]
      BY <3>2
    <3>4. Keeps(run)
      BY <3>1, <3>3
    <3>5. Keeps(run)'
      BY <1>1, <2>3, <3>4 DEF Keeps
    <3> QED BY <3>3, <3>5 DEF Keeps, Heads
  <2>5. \A t \in Existing' : t[3] = 1 /\ t[1] <= meeting'.round
    BY <1>1, <2>1 DEF Ordered
  <2>6. \A t, u \in Active' : t = u
    BY <1>1, <2>1 DEF Ordered
  <2> QED BY <2>2, <2>4, <2>5, <2>6 DEF Ordered, InOrder
<1>5. StartedOnce' = StartedOnce
  BY DEF StartedOnce, Starts
<1> QED BY <1>3, <1>4, <1>5 DEF Alone

(* A process that writes its turn was the only one inside.                 *)
LEMMA AloneAtItsTurn ==
  ASSUME RowsInv, RowsInv', Alone, NEW p \in Processes, WritesItsTurn(p)
  PROVE  Alone'
<1> DEFINE t == process[p].turn
<1>1. /\ process[p].pc \in AtTurn /\ lock = p /\ process[p].pc # "idle"
      /\ meeting.status # "AWAITING_DECISION"
      /\ \A r \in Processes \ {p} : process[r].pc = "idle"
  BY DEF WritesItsTurn, AtTurn, Alone
<1>2. /\ t \in Existing /\ Existing \subseteq Turns
      /\ turn'[t].status # "ABSENT" /\ \A u \in Turns \ {t} : turn'[u].status = turn[u].status
  BY <1>1 DEF RowsInv, Holds, WritesItsTurn, Existing
<1>3. /\ \A r \in Processes \ {p} : process'[r].pc = "idle"
      /\ \/ process'[p].pc = "waiting" /\ process'[p].turn = t /\ lock' = p
         \/ process'[p].pc = "idle"
  BY <1>1 DEF WritesItsTurn, Like, Idle
<1>4. Existing' = Existing /\ meeting' = meeting
  BY <1>2 DEF Existing, WritesItsTurn
<1>5. ASSUME StartedOnce PROVE Ordered'
  <2>1. Ordered /\ Heads(t)
    BY <1>1, <1>5 DEF Alone, Ordered, Keeps
  <2>2. ASSUME NEW u \in Existing \ {t}
        PROVE  /\ turn'[u].status = turn[u].status
               /\ Before(u, t) => turn'[u].status \in Over
               /\ ~Before(u, t) => turn'[u].status \in {"QUEUED", "SKIPPED"}
    BY <1>2, <2>1 DEF Heads
  <2>3. process'[p].turn = t => Heads(process[p].turn)'
    BY <1>4, <2>2 DEF Heads
  <2>4. \A u \in Active' : u = t
    BY <1>4, <2>2 DEF Active, Existing, Speaking, Over
  <2>5. ASSUME NEW a \in Existing, NEW b \in Existing, Before(a, b),
               turn'[b].status \in Speaking \cup {"COMPLETED", "FAILED"}
        PROVE  turn'[a].status \in Over
    <3>1. a \in Turns /\ b \in Turns /\ t \in Turns
      BY <1>2
    <3>2. b = t \/ Before(b, t)
      BY <2>2, <2>5 DEF Speaking
    <3>3. Before(a, t)
      BY <2>5, <3>1, <3>2, BeforeIsAnOrder
    <3>4. a # t
      BY <3>1, <3>3, BeforeIsAnOrder
    <3> QED BY <2>2, <3>3, <3>4
  <2>6. \A r \in Processes : Keeps(process[r])'
    <3>1. Keeps(process[p])'
      BY <1>3, <2>3 DEF Keeps, AtTurn
    <3>2. \A r \in Processes \ {p} : Keeps(process[r])'
      BY <1>3 DEF Keeps, AtTurn
    <3> QED BY <3>1, <3>2
  <2>7. \A u \in Existing' : u[3] = 1 /\ u[1] <= meeting'.round
    BY <1>4, <2>1 DEF Ordered
  <2> QED BY <1>4, <2>4, <2>5, <2>6, <2>7 DEF Ordered, InOrder
<1>6. StartedOnce' = StartedOnce
  BY DEF StartedOnce, WritesItsTurn
<1>7. \A r \in Processes : /\ process'[r].pc # "idle" => lock' = r
                           /\ process'[r].pc # "close"
  BY <1>3
<1> HIDE DEF t
<1> QED BY <1>1, <1>4, <1>5, <1>6, <1>7 DEF Alone

(* A round that is opened by the only process inside follows all others.   *)
LEMMA AloneOpening ==
  ASSUME RowsInv, RowsInv', Alone, NEW p \in Processes, OpenRound(p),
         turn' = WithRound(process[p].round + 1),
         meeting' = [meeting EXCEPT !.round = process[p].round + 1],
         ~\E t \in Existing : t[1] = process[p].round + 1
  PROVE  Alone'
<1> DEFINE r == process[p].round + 1
<1>1. /\ process[p].pc = "open" /\ lock = p /\ Starts' = Starts
      /\ meeting.status # "AWAITING_DECISION" /\ meeting \in Meeting
      /\ process' = [process EXCEPT ![p] = Idle] /\ process \in [Processes -> Runs]
      /\ \A s \in Processes \ {p} : process[s].pc = "idle"
  BY DEF OpenRound, Leave, Alone, Starts, RowsInv, TypeInv, TypeOK, Meeting, Runs, Places
<1>2. \A s \in Processes : process'[s].pc = "idle"
  BY <1>1 DEF Idle
<1>3. r \in Rounds /\ meeting'.roster = meeting.roster /\ meeting'.round = r
      /\ meeting'.status # "AWAITING_DECISION"
  BY <1>1 DEF RowsInv, TypeInv, Planned, Meeting
<1>4. /\ RoundRows(r) \subseteq Turns \ Existing /\ Existing' = Existing \cup RoundRows(r)
      /\ \A t \in Turns : turn'[t].status = IF t \in RoundRows(r) THEN "QUEUED" ELSE turn[t].status
  <2>1. turn' = WithRound(r)
    OBVIOUS
  <2> HIDE DEF r
  <2> QED BY <1>3, <2>1, RoundAdds
<1>5. \A t \in RoundRows(r) : t[1] = r /\ t[3] = 1
  <2>0. \A c \in 1..MaxCopies : (\A b \in 1..(c - 1) : \E t \in Existing : t[1] = r /\ t[3] = b) => c = 1
    <3> SUFFICES ASSUME NEW c \in 1..MaxCopies, c # 1 PROVE 1 \in 1..(c - 1)
      OBVIOUS
    <3> QED BY ConstantsAssumption
  <2> HIDE DEF r
  <2> QED BY <2>0 DEF RoundRows
<1>6. r \in Nat
  BY <1>3, RoundsAreNumbers
<1>7. ASSUME StartedOnce PROVE Ordered'
  <2>1. Ordered /\ Active = {} /\ Queued = {} /\ process[p].round = meeting.round
    BY <1>1, <1>7 DEF Alone, Ordered, Keeps
  <2>2. process[p].round \in Nat
    <3>1. \A n \in Rounds : n \in Nat
      BY RoundsAreNumbers
    <3>2. process[p].round \in Rounds \/ process[p].round = 0
      BY <1>1 DEF Runs
    <3> QED BY <3>1, <3>2
  <2>3. \A t \in Existing : t[3] = 1 /\ t[1] <= process[p].round
    BY <2>1 DEF Ordered
  <2>n. \A t \in Turns : t[1] \in Nat
    <3>1. \A t \in Turns : t[1] \in Rounds
      BY DEF Turns
    <3> QED BY <3>1, RoundsAreNumbers
  <2>e. Existing \subseteq Turns
    BY DEF Existing
  <2>4. \A t \in Existing' : t[3] = 1 /\ t[1] <= meeting'.round
    <3>1. \A t \in Existing : t[1] <= r
      BY <2>2, <2>3, <2>n, <2>e
    <3>2. \A t \in RoundRows(r) : t[1] <= r
      BY <1>5, <1>6
    <3> HIDE DEF r
    <3> QED BY <1>3, <1>4, <1>5, <2>3, <3>1, <3>2
  <2> HIDE DEF r
  <2>5. Active' = {}
    BY <1>4, <2>1 DEF Active, Speaking
  <2>6. ASSUME NEW a \in Existing', NEW b \in Existing', Before(a, b),
               turn'[b].status \in Speaking \cup {"COMPLETED", "FAILED"}
        PROVE  turn'[a].status \in Over
    <3>1. b \in Existing /\ b \notin RoundRows(r) /\ turn'[b].status = turn[b].status
      BY <1>4, <2>6, <2>e DEF Speaking
    <3>2. a[1] <= b[1]
      BY <1>4, <2>6, <2>n, <2>e DEF Before
    <3>3. a \notin RoundRows(r)
      <4>1. b[1] \in Nat /\ b[1] <= process[p].round
        BY <2>3, <2>n, <2>e, <3>1
      <4>2. a[1] # r
        BY <2>2, <3>2, <4>1 DEF r
      <4> QED BY <1>5, <4>2
    <3>4. a \in Existing /\ turn'[a].status = turn[a].status
      BY <1>4, <2>e, <3>3
    <3> QED BY <2>1, <2>6, <3>1, <3>4 DEF Ordered, InOrder
  <2>7. \A s \in Processes : Keeps(process[s])'
    BY <1>2 DEF Keeps, AtTurn
  <2> QED BY <2>4, <2>5, <2>6, <2>7 DEF Ordered, InOrder
<1>8. StartedOnce' = StartedOnce
  BY <1>1 DEF StartedOnce, Starts
<1> QED BY <1>2, <1>3, <1>7, <1>8 DEF Alone

(* The first start makes the first rows there are.                         *)
LEMMA AloneAtTheStart ==
  ASSUME RowsInv, RowsInv', Alone, NEW q \in Requests, CommitStart(q)
  PROVE  Alone'
<1>1. /\ meeting'.status = "RUNNING" /\ meeting'.round = 1 /\ meeting'.roster = meeting.roster
      /\ meeting'.max = meeting.max /\ turn' = WithRound(1) /\ process' = process /\ lock' = lock
      /\ Starts' = Starts \cup {q} /\ q \notin Starts
  <2>1. meeting \in Meeting /\ request \in [Requests -> Calls]
    BY DEF RowsInv, TypeInv, TypeOK, Meeting, Calls
  <2> QED BY <2>1 DEF CommitStart, Meeting, Calls, Starts
<1>2. 1 \in Rounds
  <2>1. meeting.max \in Rounds
    BY DEF RowsInv, TypeInv, Planned, CommitStart
  <2>2. meeting.max \in Nat \ {0} /\ 1..meeting.max \subseteq Rounds
    BY <2>1, RoundsAreNumbers
  <2> QED BY <2>2
<1>3. /\ RoundRows(1) \subseteq Turns \ Existing /\ Existing' = Existing \cup RoundRows(1)
      /\ \A t \in Turns : turn'[t].status = IF t \in RoundRows(1) THEN "QUEUED" ELSE turn[t].status
  BY <1>1, <1>2, RoundAdds
<1>4. AllHeard => AllHeard'
  <2> SUFFICES ASSUME AllHeard, NEW r \in 1..meeting.max, NEW i \in Speaks
               PROVE  \E c \in 1..MaxCopies :
                         <<r, i, c>> \in Existing' /\ turn'[<<r, i, c>>].status \in Over
    BY <1>1 DEF AllHeard, Speaks
  <2>1. PICK c \in 1..MaxCopies : <<r, i, c>> \in Existing /\ turn[<<r, i, c>>].status \in Over
    BY DEF AllHeard
  <2>2. <<r, i, c>> \in Turns
    BY <2>1 DEF Existing
  <2>3. turn'[<<r, i, c>>].status = turn[<<r, i, c>>].status
    BY <1>3, <2>1, <2>2
  <2> QED BY <1>3, <2>1, <2>3
<1>5. ASSUME StartedOnce' PROVE Ordered'
  <2>1. Starts = {}
    BY <1>1, <1>5, OnlyStart
  <2>2. Existing = {} /\ \A p \in Processes : process'[p].pc = "idle"
    BY <1>1, <2>1 DEF RowsInv, Unstarted
  <2>3. \A t \in RoundRows(1) : t[1] = 1 /\ t[3] = 1
    <3>1. ASSUME NEW c \in 1..MaxCopies,
                 \A b \in 1..(c - 1) : \E t \in Existing : t[1] = 1 /\ t[3] = b
          PROVE  c = 1
      <4>1. c # 1 => 1 \in 1..(c - 1)
        BY ConstantsAssumption
      <4> QED BY <2>2, <3>1, <4>1
    <3> QED BY <3>1 DEF RoundRows
  <2>4. \A t \in Existing' : turn'[t].status = "QUEUED" /\ t[1] = 1 /\ t[3] = 1
    BY <1>3, <2>2, <2>3
  <2>5. Active' = {} /\ InOrder'
    BY <2>4 DEF Active, Existing, InOrder, Speaking
  <2>6. \A p \in Processes : Keeps(process[p])'
    BY <2>2 DEF Keeps, AtTurn
  <2> QED BY <1>1, <2>4, <2>5, <2>6 DEF Ordered
<1> QED BY <1>1, <1>4, <1>5 DEF Alone

(* Who takes a free lock takes the head of the queue.                      *)
LEMMA AloneLooking ==
  ASSUME RowsInv, RowsInv', Alone, NEW p \in Processes, Look(p)
  PROVE  Alone'
<1>1. /\ lock = Nobody /\ lock' = p /\ meeting.status = "RUNNING" /\ Starts' = Starts
      /\ UNCHANGED <<meeting, turn>>
  BY DEF Look, LockFree, Processable, Starts
<1>2. \A r \in Processes : process[r].pc = "idle"
  BY <1>1, ConstantsAssumption DEF Alone
<1>3. \A r \in Processes \ {p} : process'[r].pc = "idle"
  BY <1>2, LookReads
<1>4. /\ turn \in [Turns -> TurnRows] /\ meeting \in Meeting /\ Existing \subseteq Turns
      /\ Active \subseteq Existing /\ Queued \subseteq Existing
      /\ First(Active) \subseteq Active /\ First(Queued) \subseteq Queued
      /\ \A u \in Existing : \/ turn[u].status \in Over \/ u \in Active \/ u \in Queued
  BY DEF RowsInv, TypeInv, TypeOK, Meeting, Existing, Active, Queued, First, Speaking,
         TurnRows, TurnStatuses
<1>5. ASSUME process'[p].pc = "close" PROVE AllHeard
  <2>1. Active \cup Queued = {} /\ ~(meeting.round < meeting.max) /\ Present(meeting.round)
    BY <1>5, LookReads DEF RowsInv
  <2>2. meeting.round \in Int /\ meeting.max \in Int
    <3>1. \A n \in Rounds : n \in Nat
      BY RoundsAreNumbers
    <3>2. (meeting.round \in Rounds \/ meeting.round = 0) /\ (meeting.max \in Rounds \/ meeting.max = 1)
      BY <1>4 DEF Meeting
    <3> QED BY <3>1, <3>2
  <2>3. 1..meeting.max \subseteq 1..meeting.round
    BY <2>1, <2>2
  <2> QED BY <1>4, <2>1, <2>3 DEF Present, AllHeard
<1>6. ASSUME StartedOnce PROVE Keeps(process'[p])
  <2>1. Ordered
    BY <1>6 DEF Alone
  <2>2. ASSUME NEW t \in Active \cup Queued, t \in Active \/ Active = {},
               \A u \in Queued : t \in Queued => ~Before(u, t)
        PROVE  Heads(t)
    <3> SUFFICES ASSUME NEW u \in Existing \ {t}
                 PROVE  /\ Before(u, t) => turn[u].status \in Over
                        /\ ~Before(u, t) => turn[u].status \in {"QUEUED", "SKIPPED"}
      BY DEF Heads
    <3>1. t \in Existing /\ t \in Turns /\ u \in Turns /\ t[3] = 1 /\ u[3] = 1
      BY <1>4, <2>1 DEF Ordered
    <3>2. u \notin Active /\ turn[t].status \notin Over
      BY <2>1, <2>2 DEF Ordered, Active, Queued, Speaking, Over
    <3>3. CASE Before(u, t)
      <4>1. t \in Active => turn[u].status \in Over
        BY <2>1, <3>1, <3>3 DEF Ordered, InOrder, Active
      <4>2. t \in Queued => turn[u].status \in Over
        BY <1>4, <2>2, <3>2, <3>3
      <4> QED BY <2>2, <3>3, <4>1, <4>2
    <3>4. CASE ~Before(u, t)
      <4>1. Before(t, u)
        BY <3>1, <3>4, BeforeIsAnOrder
      <4>2. turn[u].status \notin {"COMPLETED", "FAILED"}
        BY <2>1, <3>1, <3>2, <4>1 DEF Ordered, InOrder
      <4>3. turn[u].status \in {"QUEUED", "SKIPPED"}
        BY <1>4, <3>2, <4>2 DEF Over, Queued
      <4> QED BY <3>4, <4>3
    <3> QED BY <3>3, <3>4
  <2>3. ASSUME process'[p].pc = "mirror" PROVE Heads(process'[p].turn)
    <3>1. process'[p].turn \in First(Active)
      BY <2>3, LookReads
    <3>2. PICK t \in First(Active) : t = process'[p].turn
      BY <3>1
    <3>3. t \in Active /\ t \notin Queued
      BY <1>4 DEF Active, Queued, Speaking
    <3>4. Heads(t)
      BY <2>2, <3>3
    <3> QED BY <3>2, <3>4
  <2>4. ASSUME process'[p].pc = "invite" PROVE Heads(process'[p].turn)
    <3>1. process'[p].turn \in First(Queued) /\ Active = {}
      BY <2>4, LookReads
    <3>2. PICK t \in First(Queued) : t = process'[p].turn
      BY <3>1
    <3>3. t \in Queued /\ \A u \in Queued : ~Before(u, t)
      BY DEF First
    <3>4. Heads(t)
      BY <2>2, <3>1, <3>3
    <3> QED BY <3>2, <3>4
  <2>5. process'[p].pc # "waiting"
    BY LookReads
  <2>6. process'[p].pc \in {"open", "close"} => Active \cup Queued = {} /\ process'[p].round = meeting.round
    BY LookReads
  <2> QED BY <2>3, <2>4, <2>5, <2>6 DEF Keeps, AtTurn
<1>7. StartedOnce => \A r \in Processes : Keeps(process'[r])
  BY <1>3, <1>6 DEF Keeps, AtTurn
<1>8. SkipsAtMost /\ \A r \in Processes : process'[r].pc # "idle" => lock' = r
  BY <1>1, <1>3 DEF SkipsAtMost
<1>9. \A r \in Processes : process'[r].pc = "close" => AllHeard
  BY <1>3, <1>5
<1> QED BY <1>1, <1>7, <1>8, <1>9, AloneKept

LEMMA MeetingInitially == Init => MeetingInv
<1> SUFFICES ASSUME Init PROVE MeetingInv
  OBVIOUS
<1>1. RowsInv
  BY RowsInitially
<1>2. /\ Existing = {} /\ meeting.status = "ABSENT"
      /\ \A p \in Processes : process[p].pc = "idle"
  BY DEF Init, Existing, NoTurn, Idle
<1>3. Active = {}
  BY <1>2 DEF Active, Existing, Speaking
<1>4. Ordered
  BY <1>2, <1>3 DEF Ordered, InOrder, Keeps, AtTurn
<1> QED BY <1>1, <1>2, <1>4 DEF MeetingInv, Alone

LEMMA MeetingStep == MeetingInv /\ [Next]_vars => MeetingInv'
<1> SUFFICES ASSUME MeetingInv, [Next]_vars, expiries' = 0 PROVE Alone'
  BY RowsStep DEF MeetingInv
<1>0. RowsInv /\ RowsInv' /\ expiries \in Nat
  BY RowsStep, ConstantsAssumption DEF MeetingInv, RowsInv, TypeInv, TypeOK
<1>1. Alone /\ expiries' = expiries
  <2>1. expiries' = expiries \/ expiries' = expiries + 1
    BY DEF vars, Next, CreateMeeting, Operate, BeginRequest, CommitStart, CommitEnd, ProcessMeeting, Look,
           MirrorTurnDispatch, DispatchTurn, DispatchUnconfigured, FinishTurn, OpenRound,
           CloseDiscussion, DispatchMoves, TurnGetsLate, LockExpires, Crash
  <2>2. expiries = 0
    BY <1>0, <2>1
  <2> QED BY <2>2 DEF MeetingInv
<1>2. /\ turn \in [Turns -> TurnRows] /\ request \in [Requests -> Calls]
      /\ process \in [Processes -> Runs] /\ meeting \in Meeting /\ Planned
  BY <1>0 DEF RowsInv, TypeInv, TypeOK, Calls, Meeting, Runs, Places
<1>a. /\ \A p \in Processes : process[p].pc # "idle" => lock = p
      /\ meeting.status = "AWAITING_DECISION" =>
            AllHeard /\ \A p \in Processes : process[p].pc = "idle"
      /\ \A p \in Processes : process[p].pc = "close" => AllHeard
      /\ StartedOnce => \A p \in Processes : Keeps(process[p])
  BY <1>1 DEF Alone, Ordered
<1>b. SameStatuses => SkipsAtMost
  BY DEF SameStatuses, SkipsAtMost
<1>c. request' = request => Starts' = Starts
  BY DEF Starts
<1>d. process' = process /\ meeting' = meeting /\ lock' = lock /\ SameStatuses /\ Starts' = Starts => Alone'
  BY <1>0, <1>1, <1>a, <1>b, AloneKept
(* A process that leaves, the only one inside. *)
<1>e. ASSUME NEW p \in Processes, process[p].pc # "idle"
      PROVE  /\ meeting.status # "AWAITING_DECISION"
             /\ process' = [process EXCEPT ![p] = Idle] => \A r \in Processes : process'[r].pc = "idle"
  BY <1>2, <1>a, <1>e DEF Idle
<1>f. \A p \in Processes : process'[p].pc = "idle" => Keeps(process'[p])
  BY DEF Keeps, AtTurn
<1>3. CASE UNCHANGED vars
  BY <1>3, <1>c, <1>d DEF vars, SameStatuses
<1>4. CASE CreateMeeting
  <2>1. /\ meeting.status = "ABSENT" /\ meeting'.status = "DRAFT"
        /\ UNCHANGED <<turn, process, request>>
    BY <1>4 DEF CreateMeeting
  <2>2. Existing' = {} /\ \A p \in Processes : process'[p].pc = "idle"
    BY <1>0, <1>2, <2>1 DEF RowsInv, Planned, Existing
  <2>3. Active' = {}
    BY <2>2 DEF Active, Existing, Speaking
  <2>4. Ordered'
    BY <2>2, <2>3 DEF Ordered, InOrder, Keeps, AtTurn
  <2> QED BY <2>1, <2>2, <2>4 DEF Alone
<1>5. ASSUME NEW q \in Requests, NEW kind \in Kinds, BeginRequest(q, kind) PROVE Alone'
  <2>1. Starts' = Starts
    BY <1>2, <1>5 DEF BeginRequest, Starts
  <2> QED BY <1>5, <1>d, <2>1 DEF BeginRequest, SameStatuses
<1>6. ASSUME NEW q \in Requests, CommitStart(q) PROVE Alone'
  BY <1>0, <1>1, <1>6, AloneAtTheStart
<1>7. ASSUME NEW q \in Requests, CommitEnd(q) PROVE Alone'
  <2>1. /\ meeting' = [meeting EXCEPT !.status = IF request[q].kind = "cancel" THEN "CANCELLED" ELSE "COMPLETED"]
        /\ turn' = [t \in Turns |-> IF t \in request[q].skips
                                    THEN [turn[t] EXCEPT !.status = "SKIPPED", !.late = FALSE]
                                    ELSE turn[t]]
        /\ request' = [request EXCEPT ![q] = [pc |-> "done", kind |-> "none", skips |-> {}]]
        /\ process' = process /\ request[q].pc = "loaded" /\ lock' = lock
    BY <1>7 DEF CommitEnd
  <2>2. \A t \in Turns : turn'[t].status = IF t \in request[q].skips THEN "SKIPPED" ELSE turn[t].status
    BY <1>2, <2>1 DEF TurnRows
  <2>3. request[q].skips \subseteq Existing
    BY <1>0 DEF RowsInv
  <2>4. SkipsAtMost
    BY <2>2, <2>3 DEF SkipsAtMost, Existing
  <2>5. Starts' = Starts
    BY <1>2, <2>1 DEF Starts
  <2>6. /\ meeting'.status \in {"CANCELLED", "COMPLETED"} /\ meeting'.roster = meeting.roster
        /\ meeting'.round = meeting.round /\ meeting'.max = meeting.max
    BY <1>2, <2>1 DEF Meeting
  <2> QED BY <1>0, <1>1, <1>a, <2>1, <2>4, <2>5, <2>6, AloneKept
<1>8. ASSUME NEW p \in Processes, Look(p) PROVE Alone'
  BY <1>0, <1>1, <1>8, AloneLooking
<1>9. ASSUME NEW p \in Processes, MirrorTurnDispatch(p) \/ DispatchTurn(p) \/ FinishTurn(p) PROVE Alone'
  BY <1>0, <1>1, <1>9, TurnStepsWriteOneTurn, AloneAtItsTurn
<1>10. ASSUME NEW p \in Processes, DispatchUnconfigured(p) \/ CloseDiscussion(p) \/ Crash(p) PROVE Alone'
  <2>1. /\ UNCHANGED <<turn, request>> /\ process[p].pc # "idle"
        /\ process' = [process EXCEPT ![p] = Idle]
    BY <1>10 DEF DispatchUnconfigured, CloseDiscussion, Crash, Leave
  <2>2. \A r \in Processes : process'[r].pc = "idle"
    BY <1>e, <2>1
  <2>3. /\ meeting'.roster = meeting.roster /\ meeting'.round = meeting.round
        /\ meeting'.max = meeting.max
        /\ meeting'.status = "AWAITING_DECISION" => AllHeard
    BY <1>2, <1>10, <1>a DEF DispatchUnconfigured, CloseDiscussion, Crash, Meeting
  <2>4. SkipsAtMost
    BY <2>1 DEF SkipsAtMost
  <2> QED BY <1>0, <1>1, <1>c, <1>f, <2>1, <2>2, <2>3, <2>4, AloneKept
<1>11. ASSUME NEW p \in Processes, OpenRound(p) PROVE Alone'
  <2>1. /\ request' = request /\ process[p].pc = "open" /\ process' = [process EXCEPT ![p] = Idle]
    BY <1>11 DEF OpenRound, Leave
  <2>2. \A r \in Processes : process'[r].pc = "idle"
    BY <1>e, <2>1
  <2>3. CASE UNCHANGED <<meeting, turn>>
    <3>1. SkipsAtMost
      BY <2>3 DEF SkipsAtMost
    <3> QED BY <1>0, <1>1, <1>a, <1>c, <1>f, <2>1, <2>2, <2>3, <3>1, AloneKept
  <2>4. CASE ~\E t \in Existing : t[1] = process[p].round + 1
    <3>1. /\ turn' = WithRound(process[p].round + 1)
          /\ meeting' = [meeting EXCEPT !.round = process[p].round + 1]
      BY <1>11, <2>4 DEF OpenRound
    <3> QED BY <1>0, <1>1, <1>11, <2>4, <3>1, AloneOpening
  <2> QED BY <1>11, <2>3, <2>4 DEF OpenRound
<1>12. ASSUME NEW t \in Turns, DispatchMoves(t) \/ TurnGetsLate(t) PROVE Alone'
  <2>1. SameStatuses
    BY <1>2, <1>12 DEF DispatchMoves, TurnGetsLate, TurnRows, SameStatuses
  <2> QED BY <1>12, <1>c, <1>d, <2>1 DEF DispatchMoves, TurnGetsLate
<1>13. CASE LockExpires
  <2>1. lock \in Processes /\ process[lock].pc = "idle"
    <3>1. lock \in Processes
      BY <1>0, <1>13 DEF LockExpires, RowsInv, TypeInv, TypeOK
    <3> QED BY <1>0, <1>1, <1>13, <3>1 DEF LockExpires
  <2>2. UNCHANGED <<meeting, turn, process, request>> /\ SkipsAtMost
    BY <1>13 DEF LockExpires, SkipsAtMost
  <2>3. \A p \in Processes : process'[p].pc = "idle"
    BY <1>a, <2>1, <2>2
  <2> QED BY <1>0, <1>1, <1>a, <1>c, <1>f, <2>2, <2>3, AloneKept
<1> QED BY <1>3, <1>4, <1>5, <1>6, <1>7, <1>8, <1>9, <1>10, <1>11, <1>12, <1>13
        DEF Next, Operate, ProcessMeeting

(* As long as no lock ran out under a process, one participant speaks at a *)
(* time and in the speaking order, and a decision is asked for when every  *)
(* speaker of every round has had a turn: whatever crashes, stale reads,   *)
(* cancellations and late answers come between (meeting_service.py:520).   *)
THEOREM SpeakersTakeTurns == Spec => []OneSpeakerInOrder
<1>1. Spec => []MeetingInv
  BY MeetingInitially, MeetingStep, PTL DEF Spec
<1>2. MeetingInv => OneSpeakerInOrder
  <2> SUFFICES ASSUME RowsInv, Alone
               PROVE  /\ StartedOnce =>
                            /\ Cardinality(Active) <= 1
                            /\ \A t, u \in Existing :
                                  Before(t, u) /\ turn[u].status \in Speaking \cup {"COMPLETED", "FAILED"} =>
                                      turn[t].status \in Over
                      /\ meeting.status = "AWAITING_DECISION" =>
                            \A r \in 1..meeting.max : \A i \in DOMAIN meeting.roster :
                                meeting.roster[i].speaks =>
                                    \E c \in 1..MaxCopies : turn[<<r, i, c>>].status \in Over
    BY DEF MeetingInv, OneSpeakerInOrder
  <2>1. ASSUME StartedOnce PROVE Cardinality(Active) <= 1
    <3>1. \A t, u \in Active : t = u
      BY <2>1 DEF Alone, Ordered
    <3>2. CASE Active = {}
      BY <3>2, FS_EmptySet
    <3>3. CASE Active # {}
      <4>1. PICK t \in Active : Active = {t}
        BY <3>1, <3>3
      <4> QED BY <4>1, FS_Singleton
    <3> QED BY <3>2, <3>3
  <2> QED BY <2>1 DEF Alone, Ordered, InOrder, AllHeard, Speaks
<1> QED BY <1>1, <1>2, PTL
=========================================================================
