--------------------------- MODULE Meetings ---------------------------
(***************************************************************************)
(* One structured meeting (phase 5): rounds of speaking turns, the runtime *)
(* dispatch of each turn, and the operators' requests.                     *)
(*                                                                         *)
(* process_meeting runs in every replica's worker, at the end of start and *)
(* in POST .../tick, under a Redis lock that expires while a turn's answer *)
(* is awaited and that whoever leaves deletes.  A process works on what it *)
(* read: Look and the write that follows it are separate actions.         *)
(*                                                                         *)
(* Left out, because nothing here reads it back: the texts of turns and    *)
(* summaries, the event and message rows, the mission's waiting_for, and   *)
(* the runtime's health.                                                   *)
(***************************************************************************)
EXTENDS Integers, Sequences, FiniteSets, DispatchReports

CONSTANTS
    Processes,   \* the processes that run process_meeting
    Requests,    \* the operators' requests, each made once at most
    Plans,       \* the participants and rounds a meeting may be created with
    Occurring,   \* what runtimes come to say of the runs of turns
    MaxCopies,   \* bound: rows a round may hold for one participant
    MaxFaults,   \* bound: crashes, and locks that run out under a process
    Nobody

Participants == [speaks : BOOLEAN, required : BOOLEAN, wired : BOOLEAN]

ASSUME ConstantsAssumption ==
    /\ MaxCopies \in Nat \ {0}
    /\ MaxFaults \in Nat
    /\ Occurring \subseteq Reports
    /\ Nobody \notin Processes
    /\ Plans \subseteq [roster : Seq(Participants), rounds : Nat \ {0}]
    /\ IsFiniteSet(Plans)
    /\ \A plan \in Plans :
          Len(plan.roster) >= 2 /\ \E i \in DOMAIN plan.roster : plan.roster[i].speaks

VARIABLES
    meeting,   \* meetings: status, current_round, max_rounds, participants
    turn,      \* meeting_turns with the runtime_dispatches row of each
    lock,      \* who set meeting-lock:<key>, Nobody when it is free
    process,   \* the run of process_meeting in each process
    request,   \* the operators' requests
    tasks,     \* the requests whose decision created action tasks
    expiries,  \* how often the lock ran out under a process that was inside
    crashes

vars == <<meeting, turn, lock, process, request, tasks, expiries, crashes>>

Rosters == {plan.roster : plan \in Plans}
Rounds == UNION {1..plan.rounds : plan \in Plans}
Orders == UNION {DOMAIN roster : roster \in Rosters}
Turns == Rounds \X Orders \X (1..MaxCopies)

Ended == {"COMPLETED", "CANCELLED"}
MeetingStatuses == {"ABSENT", "DRAFT", "RUNNING", "AWAITING_DECISION"} \cup Ended
Speaking == {"DISPATCHING", "RUNNING"}
Over == {"COMPLETED", "FAILED", "SKIPPED"}
TurnStatuses == {"ABSENT", "QUEUED"} \cup Speaking \cup Over

TurnRows == [status : TurnStatuses, sent : {"NONE", "DISPATCHING"} \cup Reports, late : BOOLEAN]
NoTurn == [status |-> "ABSENT", sent |-> "NONE", late |-> FALSE]

Idle == [pc |-> "idle", round |-> 0, turn |-> <<>>, was |-> "ABSENT", owns |-> FALSE]
Unsent == [pc |-> "new", kind |-> "none", skips |-> {}]

Existing == {t \in Turns : turn[t].status # "ABSENT"}
Active == {t \in Turns : turn[t].status \in Speaking}
Queued == {t \in Turns : turn[t].status = "QUEUED"}

(* order_by(round_number, speaking_order) *)
Before(t, u) == t[1] < u[1] \/ (t[1] = u[1] /\ t[2] < u[2])
First(S) == {t \in S : \A u \in S : ~Before(u, t)}

Init ==
    /\ meeting = [status |-> "ABSENT", round |-> 0, max |-> 1, roster |-> <<>>]
    /\ turn = [t \in Turns |-> NoTurn]
    /\ lock = Nobody
    /\ process = [p \in Processes |-> Idle]
    /\ request = [q \in Requests |-> Unsent]
    /\ tasks = {}
    /\ expiries = 0
    /\ crashes = 0

-----------------------------------------------------------------------------

(* Every participant who is no observer gets a queued turn of the round.   *)
RoundRows(r) ==
    {<<r, i, c>> : i \in {i \in DOMAIN meeting.roster : meeting.roster[i].speaks},
                   c \in {c \in 1..MaxCopies :
                             /\ \A t \in Existing : t[1] = r => t[3] < c
                             /\ \A b \in 1..(c - 1) : \E t \in Existing : t[1] = r /\ t[3] = b}}

WithRound(r) ==
    [t \in Turns |-> IF t \in RoundRows(r) THEN [NoTurn EXCEPT !.status = "QUEUED"] ELSE turn[t]]

CreateMeeting ==
    /\ meeting.status = "ABSENT"
    /\ \E plan \in Plans :
          meeting' = [status |-> "DRAFT", round |-> 0, max |-> plan.rounds, roster |-> plan.roster]
    /\ UNCHANGED <<turn, lock, process, request, tasks, expiries, crashes>>

(* start refuses a meeting with a required speaker whose runtime is not    *)
(* configured.                                                             *)
Startable ==
    /\ meeting.status = "DRAFT"
    /\ \A i \in DOMAIN meeting.roster :
          meeting.roster[i].required /\ meeting.roster[i].speaks => meeting.roster[i].wired

(* Mutant: a meeting that ended may be decided.                            *)
AdmitsMutant(kind) ==
    CASE kind = "start" -> Startable
      [] kind = "cancel" -> meeting.status \notin Ended \cup {"ABSENT"}
      [] kind \in {"accept", "reject"} -> meeting.status \notin {"ABSENT", "DRAFT"}
Admits(kind) ==
    CASE kind = "start" -> Startable
      [] kind = "cancel" -> meeting.status \notin Ended \cup {"ABSENT"}
      [] kind \in {"accept", "reject"} -> meeting.status \in {"RUNNING", "AWAITING_DECISION"}

(* The handler loads the meeting, tests its status and loads the turns.    *)
BeginRequest(q, kind) ==
    /\ request[q].pc = "new"
    /\ Admits(kind)
    /\ request' = [request EXCEPT ![q] = [pc |-> "loaded", kind |-> kind,
                                          skips |-> Active \cup Queued]]
    /\ UNCHANGED <<meeting, turn, lock, process, tasks, expiries, crashes>>

CommitStart(q) ==
    /\ request[q].pc = "loaded" /\ request[q].kind = "start"
    /\ \A t \in Existing : t[3] < MaxCopies
    /\ meeting' = [meeting EXCEPT !.status = "RUNNING", !.round = 1]
    /\ turn' = WithRound(1)
    /\ request' = [request EXCEPT ![q].pc = "done"]
    /\ UNCHANGED <<lock, process, tasks, expiries, crashes>>

(* Cancellation and decision skip the turns that were open when they were  *)
(* loaded; an ACCEPTED or OVERRIDDEN decision also creates action tasks.   *)
CommitEnd(q) ==
    /\ request[q].pc = "loaded" /\ request[q].kind # "start"
    /\ meeting' = [meeting EXCEPT !.status =
                      IF request[q].kind = "cancel" THEN "CANCELLED" ELSE "COMPLETED"]
    /\ turn' = [t \in Turns |-> IF t \in request[q].skips
                                THEN [turn[t] EXCEPT !.status = "SKIPPED", !.late = FALSE]
                                ELSE turn[t]]
    /\ tasks' = IF request[q].kind = "accept" THEN tasks \cup {q} ELSE tasks
    /\ request' = [request EXCEPT ![q] = [pc |-> "done", kind |-> "none", skips |-> {}]]
    /\ UNCHANGED <<lock, process, expiries, crashes>>

-----------------------------------------------------------------------------
(* Mutant: a process enters although another holds the lock.               *)
LockFreeMutant == TRUE
LockFree == lock = Nobody

Processable == meeting.status = "RUNNING"

(* What a process does is decided by what it reads after it took the lock: *)
(* the active turn if there is one, else the next in the queue, else the   *)
(* next round, else the end of the discussion.                             *)
Look(p) ==
    /\ process[p].pc = "idle"
    /\ LockFree /\ Processable
    /\ lock' = p
    /\ \/ \E t \in First(Active) :
            process' = [process EXCEPT ![p].pc = "mirror", ![p].turn = t, ![p].was = turn[t].status]
       \/ /\ Active = {}
          /\ \E t \in First(Queued) :
                process' = [process EXCEPT ![p].pc = "invite", ![p].turn = t]
       \/ /\ Active \cup Queued = {}
          /\ process' = [process EXCEPT ![p].pc =
                            IF meeting.round < meeting.max THEN "open" ELSE "close",
                            ![p].round = meeting.round]
    /\ UNCHANGED <<meeting, turn, request, tasks, expiries, crashes>>

(* The finally clause of process_meeting deletes the lock, whoever set it. *)
Leave(p) ==
    /\ lock' = Nobody
    /\ process' = [process EXCEPT ![p] = Idle]

(* SQLAlchemy writes a status only if it differs from the one it loaded.   *)
Flush(stored, loaded, assigned) == IF assigned = loaded THEN stored ELSE assigned

(* What a turn becomes of an answer: CANCELLED counts as FAILED, and any   *)
(* word but an ending as a run that goes on.                               *)
Told(answer) ==
    CASE answer = "COMPLETED" -> "COMPLETED"
      [] answer \in {"FAILED", "CANCELLED"} -> "FAILED"
      [] OTHER -> "RUNNING"

(* Mutant: a turn whose run goes on is waited for without limit.           *)
MirroredMutant(t, was) ==
    IF turn[t].sent \in TurnStatuses THEN turn[t].sent ELSE was

(* The status mirror_turn_dispatch assigns; a dispatch that is DISPATCHING *)
(* or says an unknown word assigns none, and no time limit ends it.        *)
Mirrored(t, was) ==
    CASE turn[t].sent \in OpenReports \ {"OTHER"} -> IF turn[t].late THEN "FAILED" ELSE "RUNNING"
      [] turn[t].sent \in Endings -> Told(turn[t].sent)
      [] OTHER -> was

MirrorTurnDispatch(p) ==
    LET t == process[p].turn  was == process[p].was IN
    /\ process[p].pc = "mirror"
    /\ turn' = [turn EXCEPT ![t].status = Flush(turn[t].status, was, Mirrored(t, was)),
                            ![t].late = turn[t].late /\ Mirrored(t, was) = "RUNNING"]
    /\ Leave(p)
    /\ UNCHANGED <<meeting, request, tasks, expiries, crashes>>

(* A new dispatch row takes the place of the turn's former one: a process  *)
(* that still awaits that one no longer owns the row.                      *)
DispatchTurn(p) ==
    LET t == process[p].turn IN
    /\ process[p].pc = "invite"
    /\ meeting.roster[t[2]].wired
    /\ turn' = [turn EXCEPT ![t] = [status |-> "DISPATCHING", sent |-> "DISPATCHING", late |-> FALSE]]
    /\ process' = [r \in Processes |->
            IF r = p THEN [process[p] EXCEPT !.pc = "waiting", !.owns = TRUE]
            ELSE IF process[r].turn = t THEN [process[r] EXCEPT !.owns = FALSE]
            ELSE process[r]]
    /\ UNCHANGED <<meeting, lock, request, tasks, expiries, crashes>>

(* The runtime is not configured: the turn is marked FAILED in a session   *)
(* that is closed without a commit, so that the row stays QUEUED.          *)
DispatchUnconfigured(p) ==
    /\ process[p].pc = "invite"
    /\ ~meeting.roster[process[p].turn[2]].wired
    /\ Leave(p)
    /\ UNCHANGED <<meeting, turn, request, tasks, expiries, crashes>>

(* What the runtime answers to a turn; a call that fails counts as FAILED. *)
Heard == Occurring \cup {"FAILED"}

(* The answer, or the error, of the dispatch is stored over the turn,      *)
(* whatever became of it meanwhile.                                        *)
FinishTurn(p) ==
    LET t == process[p].turn IN
    /\ process[p].pc = "waiting"
    /\ \E answer \in Heard :
          turn' = [turn EXCEPT ![t].status = Told(answer),
                               ![t].late = FALSE,
                               ![t].sent = IF process[p].owns THEN answer ELSE turn[t].sent]
    /\ Leave(p)
    /\ UNCHANGED <<meeting, request, tasks, expiries, crashes>>

(* create_round looks for rows of the round before it adds its own.        *)
OpenRound(p) ==
    LET r == process[p].round + 1 IN
    /\ process[p].pc = "open"
    /\ IF \E t \in Existing : t[1] = r
       THEN UNCHANGED <<meeting, turn>>
       ELSE turn' = WithRound(r) /\ meeting' = [meeting EXCEPT !.round = r]
    /\ Leave(p)
    /\ UNCHANGED <<request, tasks, expiries, crashes>>

CloseDiscussion(p) ==
    /\ process[p].pc = "close"
    /\ meeting' = [meeting EXCEPT !.status = "AWAITING_DECISION"]
    /\ Leave(p)
    /\ UNCHANGED <<turn, request, tasks, expiries, crashes>>

-----------------------------------------------------------------------------
(* Polls, stops and approvals move the row of a dispatch (theorem          *)
(* RowsFollow): a late answer may hide an ending again, and nothing        *)
(* obliges the run to end.                                                 *)
DispatchMoves(t) ==
    /\ turn[t].sent \in Reports /\ turn[t].status \in Speaking
    /\ \E s \in (Occurring \cap MayFollow(turn[t].sent)) \ {turn[t].sent} :
          turn' = [turn EXCEPT ![t].sent = s]
    /\ UNCHANGED <<meeting, lock, process, request, tasks, expiries, crashes>>

(* MEETING_TURN_TIMEOUT_SECONDS have passed since the turn was started.    *)
TurnGetsLate(t) ==
    /\ turn[t].status = "RUNNING" /\ ~turn[t].late
    /\ turn' = [turn EXCEPT ![t].late = TRUE]
    /\ UNCHANGED <<meeting, lock, process, request, tasks, expiries, crashes>>

(* The lock runs out after 30 s: under a process that awaits its turn's    *)
(* answer, or after the death of the process that set it.                  *)
LockExpires ==
    /\ lock # Nobody
    /\ lock' = Nobody
    /\ \/ process[lock].pc = "idle" /\ UNCHANGED expiries
       \/ /\ process[lock].pc = "waiting"
          /\ expiries + crashes < MaxFaults /\ expiries' = expiries + 1
    /\ UNCHANGED <<meeting, turn, process, request, tasks, crashes>>

Crash(p) ==
    /\ expiries + crashes < MaxFaults
    /\ process[p].pc # "idle"
    /\ process' = [process EXCEPT ![p] = Idle]
    /\ crashes' = crashes + 1
    /\ UNCHANGED <<meeting, turn, lock, request, tasks, expiries>>

Kinds == {"start", "cancel", "accept", "reject"}

Operate(q) ==
    \/ CommitStart(q) \/ CommitEnd(q)
    \/ \E kind \in Kinds : BeginRequest(q, kind)

ProcessMeeting(p) ==
    \/ Look(p) \/ MirrorTurnDispatch(p)
    \/ DispatchTurn(p) \/ DispatchUnconfigured(p) \/ FinishTurn(p)
    \/ OpenRound(p) \/ CloseDiscussion(p)

Next ==
    \/ CreateMeeting
    \/ \E q \in Requests : Operate(q)
    \/ \E p \in Processes : ProcessMeeting(p) \/ Crash(p)
    \/ \E t \in Turns : DispatchMoves(t) \/ TurnGetsLate(t)
    \/ LockExpires

Spec == Init /\ [][Next]_vars

(* The workers tick every few seconds, requests to a runtime time out, the *)
(* clock runs and Redis drops a key in time.                               *)
Fairness ==
    /\ \A p \in Processes : WF_vars(ProcessMeeting(p))
    /\ WF_vars(\E t \in Turns : TurnGetsLate(t))
    /\ WF_vars(LockExpires)

FairSpec == Spec /\ Fairness

-----------------------------------------------------------------------------
(* Types.  The status of a turn is one of the office's words, not one of   *)
(* the runtime's (meeting_service.py:417).                                 *)
TypeOK ==
    /\ meeting \in [status : MeetingStatuses, round : Rounds \cup {0}, max : Rounds \cup {1},
                    roster : Rosters \cup {<<>>}]
    /\ turn \in [Turns -> TurnRows]
    /\ lock \in Processes \cup {Nobody}
    /\ process \in [Processes ->
            [pc : {"idle", "mirror", "invite", "waiting", "open", "close"},
             round : Rounds \cup {0}, turn : Turns \cup {<<>>}, was : TurnStatuses, owns : BOOLEAN]]
    /\ request \in [Requests -> [pc : {"new", "loaded", "done"},
                                 kind : {"none"} \cup Kinds, skips : SUBSET Turns]]
    /\ tasks \subseteq Requests
    /\ expiries \in 0..MaxFaults
    /\ crashes \in 0..MaxFaults

StartedOnce ==
    Cardinality({q \in Requests : request[q].kind = "start" /\ request[q].pc = "done"}) <= 1

(* One turn is active at a time, nobody is asked to speak before those     *)
(* ahead in the speaking order are through, and a decision is asked for    *)
(* when every round was held and everybody in it was heard, failed or was  *)
(* skipped: as long as the lock outlives the processes it excludes         *)
(* (meeting_service.py:520, :576) and two starts did not open the first    *)
(* round twice (phase5_app.py:285).                                        *)
OneSpeakerInOrder ==
    expiries = 0 =>
        /\ StartedOnce =>
            /\ Cardinality(Active) <= 1
            /\ \A t, u \in Existing :
                  Before(t, u) /\ turn[u].status \in Speaking \cup {"COMPLETED", "FAILED"} =>
                      turn[t].status \in Over
        /\ meeting.status = "AWAITING_DECISION" =>
              \A r \in 1..meeting.max : \A i \in DOMAIN meeting.roster :
                  meeting.roster[i].speaks =>
                      \E c \in 1..MaxCopies : turn[<<r, i, c>>].status \in Over

(* Work on an ended meeting is only ever what was under way when it ended: *)
(* once nobody is inside, it stays ended, no turn is opened again and no   *)
(* second decision creates tasks (phase5_app.py:381, :423).                *)
Quiet ==
    /\ meeting.status \in Ended
    /\ \A p \in Processes : process[p].pc = "idle"
    /\ \A q \in Requests : request[q].pc # "loaded"

EndedStaysEnded ==
    [][Quiet => /\ meeting'.status = meeting.status
                /\ tasks' = tasks
                /\ \A t \in Turns : turn'[t].status = turn[t].status
                /\ Quiet']_vars

(* A running discussion comes to its end: to the decision gate, to a       *)
(* decision or a cancellation, unless a crash stranded a turn that was     *)
(* being dispatched (meeting_service.py:534), a second start set the round *)
(* back to 1 (phase5_app.py:285), or a speaker's runtime has no address    *)
(* and the turn is queued again at every tick (meeting_service.py:342), or *)
(* the dispatch of a turn says a word that normalize_remote_status does    *)
(* not know, which no time limit ends (meeting_service.py:475).            *)
Stranded ==
    \E t \in Active : turn[t].sent = "DISPATCHING"
                      /\ \A p \in Processes : process[p].turn = t => process[p].pc # "waiting"

Unheard == \E t \in Queued : ~meeting.roster[t[2]].wired

NotUnderstood == \E t \in Active : turn[t].sent = "OTHER"

DiscussionEnds ==
    meeting.status = "RUNNING" ~>
        (meeting.status # "RUNNING" \/ Stranded \/ ~StartedOnce \/ Unheard \/ NotUnderstood)
==========================================================================
