---------------------------- MODULE DispatchProofs ----------------------------
(***************************************************************************)
(* Proofs about the dispatch of work.  First RuntimeDispatch, for any      *)
(* number of dispatches, workers, operator requests and crashes; then the  *)
(* registry and the scheduler (Routing), for every set of agents, tasks,   *)
(* sessions and patches, and every capacity.  The two systems are taken    *)
(* each by itself: they share no variable.                                 *)
(***************************************************************************)
EXTENDS RuntimeDispatch, Routing, FiniteSetTheorems, WellFoundedInduction, TLAPS

(***************************************************************************)
(* The inductive invariant.  TypeOK is not inductive alone: a report about *)
(* a run that does not exist would have no type.  Told(d, w): if the word  *)
(* w says how the run of d ended, the run did end so.                      *)
(***************************************************************************)
Told(d, w) == Normalize(w) \in Settled => run[d] = Normalize(w)

Linkage(d) ==
    /\ call[d].pc = "idle" <=> row[d].status = "ABSENT"
    /\ call[d].pc \in {"sent", "answered", "refused", "crashed"} => row[d].status = "DISPATCHING"
    /\ call[d].pc # "done" => ~row[d].linked
    /\ call[d].pc = "answered" /\ PlatformOf[d] \notin Polled => call[d].word = "COMPLETED"
    /\ call[d].pc = "done" => row[d].status # "DISPATCHING"
    /\ call[d].pc = "done" /\ PlatformOf[d] \notin Polled => row[d].status \in Settled
    /\ row[d].linked \/ call[d].pc = "answered" => run[d] \in RunStates
    /\ call[d].pc \in {"idle", "sent"} => run[d] = "NONE"
    /\ \A c \in Callers : InFlight(c, d) => row[d].linked /\ PlatformOf[d] \in Polled
    /\ control[d].pc # "idle" => row[d].linked /\ PlatformOf[d] \in Polled

Truth(d) ==
    /\ row[d].linked \/ row[d].status # "FAILED" => Told(d, row[d].status)
    /\ call[d].pc = "answered" => Told(d, call[d].word)
    /\ \A c \in Callers : poll[c][d].pc = "answered" => Told(d, poll[c][d].word)
    /\ control[d].pc = "answered" => Told(d, control[d].word)

IInv == TypeOK /\ \A d \in Dispatches : Linkage(d) /\ Truth(d)

--------------------------------------------------------------------------
(* Facts about the operators the handlers are built from.                  *)

(* normalize_remote_status returns a state of a run, or the word it was    *)
(* given.                                                                  *)
LEMMA NormalizeType ==
    ASSUME NEW w \in Words PROVE Normalize(w) \in Words
BY DEF Normalize, Words, OddWords, RunStates, Settled

(* What was normalized is left alone: a word tells as much after as before. *)
LEMMA NormalizeTwice ==
    ASSUME NEW w \in Words PROVE Normalize(Normalize(w)) = Normalize(w)
BY DEF Normalize

(* update_mission_from_dispatch returns a mission.                         *)
LEMMA MissionType ==
    ASSUME NEW m \in Missions, NEW s \in RowStatuses
    PROVE  UpdateMissionFromDispatch(m, s) \in Missions
BY DEF Missions, MissionStatuses, Progress, UpdateMissionFromDispatch, Max2

(* A commit of a mission stores a mission.                                 *)
LEMMA FlushMissionType ==
    ASSUME mission \in Missions, NEW l \in Missions, NEW a \in Missions
    PROVE  FlushMission(l, a) \in Missions
BY DEF Missions, FlushMission, Flush

(* What a handler loads before its await is a snapshot of the row and its  *)
(* mission.                                                                *)
LEMMA BundleType ==
    ASSUME TypeOK, NEW d \in Dispatches
    PROVE  Bundle(d) \in Snapshots
BY ConstantsAssumption DEF TypeOK, Bundle, Snapshots

(* The values of idle requests and empty snapshots have their types.       *)
LEMMA BlankType ==
    /\ NoRequest \in Requests
    /\ NoPoll \in PollRequests
    /\ NoControl \in ControlRequests
BY ConstantsAssumption
   DEF NoRequest, NoPoll, NoControl, Requests, PollRequests, ControlRequests, Blank, Snapshots,
       Phases, Words, OddWords, RunStates, Settled, RowStatuses, Missions, MissionStatuses, Progress, Healths

(* A runtime that speaks its vocabulary tells no false ending. *)
LEMMA VocabularyTells ==
    ASSUME NEW s \in RunStates, NEW w \in Vocabulary[s]
    PROVE  w \in Words /\ (Normalize(w) \in Settled => s = Normalize(w))
BY ConstantsAssumption DEF RunStates

(* The words an adapter puts in where a reply has none are no endings. *)
LEMMA DefaultsAreOpen ==
    ASSUME NEW w \in {"STARTED", "UNKNOWN", "STOPPING", "RUNNING"}
    PROVE  w \in Words /\ Normalize(w) \notin Settled
BY DEF Words, OddWords, RunStates, Settled, Normalize

(* A run that is told to stop or to go on is in a state of a run.          *)
LEMMA ControlledType ==
    ASSUME NEW s \in RunStates, NEW kind \in {"stop", "approval"}, NEW t \in Controlled(s, kind)
    PROVE  t \in RunStates /\ (s \in Settled => t = s)
BY DEF Controlled, RunStates, Settled

--------------------------------------------------------------------------
(* The inductive invariant holds before the first dispatch.                *)
LEMMA InitIInv == Init => IInv
<1> SUFFICES ASSUME Init PROVE IInv
  OBVIOUS
<1>1. TypeOK
  <2>1. /\ run \in [Dispatches -> RunStates \cup {"NONE"}]
        /\ row \in [Dispatches -> [status : RowStatuses, linked : BOOLEAN]]
        /\ mission \in Missions
        /\ health \in [Platforms -> Healths]
    BY DEF Init, RowStatuses, Missions, MissionStatuses, Progress, Healths
  <2>2. /\ call \in [Dispatches -> Requests]
        /\ poll \in [Callers -> [Dispatches -> PollRequests]]
        /\ control \in [Dispatches -> ControlRequests]
        /\ batch \in [Workers -> SUBSET Dispatches]
    BY BlankType DEF Init
  <2>3. /\ lock \in [Dispatches -> 0..LockTTL] /\ ops \in 0..MaxOps /\ crashes \in 0..MaxCrashes
    BY ConstantsAssumption DEF Init
  <2>4. overlap \in BOOLEAN
    BY DEF Init
  <2>5. QED  BY <2>1, <2>2, <2>3, <2>4 DEF TypeOK
<1>2. ASSUME NEW d \in Dispatches PROVE Linkage(d) /\ Truth(d)
  <2>1. Linkage(d)
    BY DEF Init, Linkage, InFlight, NoRequest, NoPoll, NoControl
  <2>2. Normalize("ABSENT") \notin Settled
    BY DEF Normalize, Settled
  <2>3. Truth(d)
    BY <2>2 DEF Init, Truth, Told, NoRequest, NoPoll, NoControl
  <2>4. QED  BY <2>1, <2>3
<1>3. QED  BY <1>1, <1>2 DEF IInv

--------------------------------------------------------------------------
(* One lemma per action: the types, then linkage and truth of any dispatch. *)

(* A new row is linked to no run.                                          *)
LEMMA CreateDispatchStep ==
    ASSUME IInv, NEW d \in Dispatches, CreateDispatch(d) PROVE IInv'
<1>1. TypeOK'
  <2>1. [NoRequest EXCEPT !.pc = "sent", !.saw = Bundle(d)] \in Requests
    BY BundleType, BlankType DEF IInv, Requests, Phases
  <2>2. QED  BY <2>1 DEF IInv, CreateDispatch, TypeOK, RowStatuses
<1>2. ASSUME NEW e \in Dispatches PROVE Linkage(e)' /\ Truth(e)'
  <2>1. /\ row[d].status = "ABSENT" /\ ~row[d].linked
        /\ row'[d].status = "DISPATCHING" /\ row'[d].linked = row[d].linked
        /\ call'[d].pc = "sent"
        /\ e # d => row'[e] = row[e] /\ call'[e] = call[e]
    <3>1. row[d].status = "ABSENT" /\ call[d].pc \in Phases
      BY DEF IInv, TypeOK, CreateDispatch, Requests
    <3>2. ~row[d].linked
      BY <3>1 DEF IInv, Linkage
    <3>3. QED  BY <3>1, <3>2 DEF IInv, TypeOK, CreateDispatch, NoRequest
  <2>2. Normalize("DISPATCHING") \notin Settled
    BY DEF Normalize, Settled
  <2>3. Linkage(e)'
    BY <2>1 DEF IInv, CreateDispatch, Linkage, InFlight
  <2>4. Truth(e)'
    BY <2>1, <2>2 DEF IInv, CreateDispatch, Truth, Told
  <2>5. QED  BY <2>3, <2>4
<1>3. QED  BY <1>1, <1>2 DEF IInv

(* The runtime starts a run for a request that is still without one.       *)
LEMMA RuntimeAcceptsStep ==
    ASSUME IInv, NEW d \in Dispatches, RuntimeAccepts(d) PROVE IInv'
<1>a. PICK s \in RunStates, named \in BOOLEAN : \E w \in Words :
         /\ PlatformOf[d] \in Polled => w \in Vocabulary[s] \cup {"STARTED"}
         /\ PlatformOf[d] \notin Polled => s = "COMPLETED" /\ w = "COMPLETED"
         /\ run' = [run EXCEPT ![d] = s]
         /\ call' = [call EXCEPT ![d] =
                       [@ EXCEPT !.pc = "answered", !.word = w, !.named = named]]
  BY ConstantsAssumption, DefaultsAreOpen DEF RuntimeAccepts, RunStates, Settled, Words
<1>1. PICK w \in Words :
         /\ PlatformOf[d] \in Polled => w \in Vocabulary[s] \cup {"STARTED"}
         /\ PlatformOf[d] \notin Polled => s = "COMPLETED" /\ w = "COMPLETED"
         /\ run' = [run EXCEPT ![d] = s]
         /\ call' = [call EXCEPT ![d] =
                       [@ EXCEPT !.pc = "answered", !.word = w, !.named = named]]
  BY <1>a
<1>2. Normalize(w) \in Settled => s = Normalize(w)
  <2>1. CASE w \in Vocabulary[s]
    BY <2>1, VocabularyTells
  <2>2. CASE w = "STARTED"
    BY <2>2, DefaultsAreOpen
  <2>3. CASE s = "COMPLETED" /\ w = "COMPLETED"
    BY <2>3 DEF Normalize
  <2>4. QED  BY <1>1, <2>1, <2>2, <2>3
<1>3. TypeOK'
  <2>1. call[d] \in Requests
    BY DEF IInv, TypeOK
  <2>2. [call[d] EXCEPT !.pc = "answered", !.word = w, !.named = named] \in Requests
    BY <2>1 DEF Requests, Phases
  <2>3. QED  BY <1>1, <2>2 DEF IInv, TypeOK, RuntimeAccepts
<1>4. ASSUME NEW e \in Dispatches PROVE Linkage(e)' /\ Truth(e)'
  <2>1. /\ call[d].pc = "sent"
        /\ run'[d] = s /\ call'[d].pc = "answered" /\ call'[d].word = w
        /\ e # d => run'[e] = run[e] /\ call'[e] = call[e]
    <3>1. call[d] \in Requests /\ call[d].pc = "sent"
      BY DEF IInv, RuntimeAccepts, TypeOK
    <3>2. /\ [call[d] EXCEPT !.pc = "answered", !.word = w, !.named = named].pc = "answered"
          /\ [call[d] EXCEPT !.pc = "answered", !.word = w, !.named = named].word = w
      BY <3>1 DEF Requests
    <3>3. QED  BY <1>1, <3>1, <3>2 DEF IInv, TypeOK
  <2>2. UNCHANGED <<row, poll, control>>
    BY DEF RuntimeAccepts
  <2>3. run[d] = "NONE" /\ row[d].status = "DISPATCHING" /\ ~row[d].linked
    BY <2>1 DEF IInv, Linkage
  <2>4. Normalize("DISPATCHING") \notin Settled
    BY DEF Normalize, Settled
  <2>5. Linkage(e)'
    BY <1>1, <2>1, <2>2, <2>3 DEF IInv, Linkage, InFlight
  <2>6. Truth(e)'
    BY <1>2, <2>1, <2>2, <2>3, <2>4 DEF IInv, Linkage, Truth, Told, InFlight
  <2>7. QED  BY <2>5, <2>6
<1>5. QED  BY <1>3, <1>4 DEF IInv

(* A refusal starts no run.                                                *)
LEMMA RuntimeRefusesStep ==
    ASSUME IInv, NEW d \in Dispatches, RuntimeRefuses(d) PROVE IInv'
<1>1. TypeOK'
  BY SMTT(30) DEF IInv, RuntimeRefuses, TypeOK, Requests, Phases, RunStates
<1>2. ASSUME NEW e \in Dispatches PROVE Linkage(e)' /\ Truth(e)'
  <2>1. call[d] \in Requests /\ call[d].pc = "sent" /\ run[d] = "NONE"
    BY DEF IInv, TypeOK, RuntimeRefuses, Linkage
  <2>2. row[d].status = "DISPATCHING" /\ Normalize("DISPATCHING") \notin Settled
    BY <2>1 DEF IInv, Linkage, Normalize, Settled
  <2>3. /\ call'[d].pc = "refused"
        /\ e # d => run'[e] = run[e] /\ call'[e] = call[e]
    BY <2>1 DEF IInv, TypeOK, RuntimeRefuses, Requests
  <2>4. UNCHANGED <<row, poll, control>>
    BY DEF RuntimeRefuses
  <2>5. Linkage(e)'
    BY <2>1, <2>2, <2>3, <2>4 DEF IInv, Linkage, InFlight
  <2>6. Truth(e)'
    BY <2>1, <2>2, <2>3, <2>4 DEF IInv, Linkage, Truth, Told, InFlight
  <2>7. QED  BY <2>5, <2>6
<1>3. QED  BY <1>1, <1>2 DEF IInv

(* The row says what the runtime answered, linked to the run or not.       *)
LEMMA FinishDispatchStep ==
    ASSUME IInv, NEW d \in Dispatches, FinishDispatch(d) PROVE IInv'
<1>1. call[d] \in Requests
  BY DEF IInv, TypeOK
<1>2. TypeOK'
  <2>1. call[d].word \in RowStatuses /\ call[d].saw \in Snapshots
    BY <1>1 DEF Requests, RowStatuses
  <2>2. [call[d].saw.mission EXCEPT !.progress = Max2(@, 10)] \in Missions
    BY <2>1 DEF Snapshots, Missions, Progress, Max2
  <2>3. mission' \in Missions
    BY <2>1, <2>2, FlushMissionType DEF IInv, FinishDispatch, TypeOK, Snapshots
  <2>4. health' \in [Platforms -> Healths]
    BY <2>1, ConstantsAssumption DEF IInv, FinishDispatch, TypeOK, Healths, Flush
  <2>5. [NoRequest EXCEPT !.pc = "done"] \in Requests
    BY BlankType DEF Requests, Phases
  <2>6. [status |-> call[d].word, linked |-> call[d].named] \in
           [status : RowStatuses, linked : BOOLEAN]
    BY <1>1, <2>1 DEF Requests
  <2>7. QED  BY <2>3, <2>4, <2>5, <2>6 DEF IInv, FinishDispatch, TypeOK
<1>3. ASSUME NEW e \in Dispatches PROVE Linkage(e)' /\ Truth(e)'
  <2>1. /\ call[d].pc = "answered"
        /\ row'[d].status = call[d].word /\ call'[d].pc = "done"
        /\ e # d => row'[e] = row[e] /\ call'[e] = call[e]
    BY DEF IInv, FinishDispatch, TypeOK, NoRequest
  <2>2. call[d].word \notin {"ABSENT", "DISPATCHING"} /\ "COMPLETED" \in Settled
    BY <1>1 DEF Requests, Words, OddWords, RunStates, Settled
  <2>3. ~row[d].linked /\ \A c \in Callers : ~InFlight(c, d)
    BY <2>1 DEF IInv, Linkage
  <2>4. UNCHANGED <<run, poll, control>>
    BY DEF FinishDispatch
  <2>5. Linkage(e)'
    BY <2>1, <2>2, <2>3, <2>4 DEF IInv, Linkage, InFlight
  <2>6. Truth(e)'
    BY <2>1, <2>4 DEF IInv, Truth, Told
  <2>7. QED  BY <2>5, <2>6
<1>4. QED  BY <1>2, <1>3 DEF IInv

(* A failed dispatch is settled without a run.                             *)
LEMMA FailDispatchStep ==
    ASSUME IInv, NEW d \in Dispatches, FailDispatch(d) PROVE IInv'
<1>1. TypeOK'
  <2>1. [NoRequest EXCEPT !.pc = "done"] \in Requests
    BY BlankType DEF Requests, Phases
  <2>2. health' \in [Platforms -> Healths]
    BY ConstantsAssumption DEF IInv, FailDispatch, TypeOK, Healths, Flush
  <2>3. QED
    BY <2>1, <2>2 DEF IInv, FailDispatch, TypeOK, RowStatuses, Words, OddWords, RunStates, Settled
<1>2. ASSUME NEW e \in Dispatches PROVE Linkage(e)' /\ Truth(e)'
  <2>1. call[d].pc = "refused" /\ ~row[d].linked
    BY DEF IInv, FailDispatch, Linkage
  <2>2. /\ row'[d].status = "FAILED" /\ row'[d].linked = row[d].linked /\ call'[d].pc = "done"
        /\ e # d => row'[e] = row[e] /\ call'[e] = call[e]
    BY DEF IInv, TypeOK, FailDispatch, NoRequest
  <2>3. UNCHANGED <<run, poll, control>>
    BY DEF FailDispatch
  <2>4. Linkage(e)'
    BY <2>1, <2>2, <2>3 DEF IInv, Linkage, InFlight, Settled
  <2>5. Truth(e)'
    BY <2>1, <2>2, <2>3 DEF IInv, Truth, Told
  <2>6. QED  BY <2>4, <2>5
<1>3. QED  BY <1>1, <1>2 DEF IInv

(* A run moves on and never leaves its end.                                *)
LEMMA RunMovesStep ==
    ASSUME IInv, NEW d \in Dispatches, RunMoves(d) PROVE IInv'
<1>1. TypeOK'
  BY DEF IInv, RunMoves, TypeOK, RunStates, Settled
<1>2. ASSUME NEW e \in Dispatches PROVE Linkage(e)' /\ Truth(e)'
  <2>1. run[d] \in {"RUNNING", "STOPPING"} /\ UNCHANGED <<row, call, poll, control>>
    BY DEF RunMoves
  <2>2. PICK s \in RunStates : run' = [run EXCEPT ![d] = s]
    BY DEF RunMoves, RunStates, Settled
  <2>3. run'[d] = s /\ (e # d => run'[e] = run[e])
    BY <2>2 DEF IInv, TypeOK
  <2>4. Linkage(e)'
    BY <2>1, <2>3 DEF IInv, Linkage, InFlight
  <2>5. \A w : Told(e, w) => (Normalize(w) \in Settled => run'[e] = Normalize(w))
    BY <2>1, <2>3 DEF Told, Settled
  <2>6. Truth(e)'
    BY <2>1, <2>5 DEF IInv, Truth, Told
  <2>7. QED  BY <2>4, <2>6
<1>3. QED  BY <1>1, <1>2 DEF IInv

(* Listing the active rows changes no row.                                 *)
LEMMA ScanStep ==
    ASSUME IInv, NEW w \in Workers, Scan(w) PROVE IInv'
<1>1. TypeOK'
  BY DEF IInv, Scan, TypeOK
<1>2. ASSUME NEW e \in Dispatches PROVE Linkage(e)' /\ Truth(e)'
  BY DEF IInv, Scan, Linkage, Truth, Told, InFlight
<1>3. QED  BY <1>1, <1>2 DEF IInv

(* What BeginSync does to the requests and the locks, whoever calls it. *)
LEMMA BeginSyncType ==
    ASSUME IInv, NEW c \in Callers, NEW d \in Dispatches, BeginSync(c, d)
    PROVE  /\ poll' \in [Callers -> [Dispatches -> PollRequests]]
           /\ lock' \in [Dispatches -> 0..LockTTL]
           /\ overlap' \in BOOLEAN
           /\ row[d].linked /\ PlatformOf[d] \in Polled
           /\ \A a \in Callers, e \in Dispatches :
                 \/ poll'[a][e] = poll[a][e]
                 \/ a = c /\ e = d /\ poll'[a][e].pc = "sent"
<1>1. [pc |-> "sent", word |-> "UNKNOWN", saw |-> Bundle(d), age |-> 0] \in PollRequests
  BY BundleType, ConstantsAssumption DEF IInv, PollRequests, Words, OddWords
<1>2. QED  BY <1>1, ConstantsAssumption DEF IInv, BeginSync, TypeOK

(* The worker begins a poll with a snapshot of the row.                    *)
LEMMA WorkerSyncStep ==
    ASSUME IInv, NEW w \in Workers, NEW d \in Dispatches, WorkerSync(w, d) PROVE IInv'
<1>1. BeginSync(w, d) /\ w \in Callers
  BY DEF WorkerSync, Callers
<1>2. TypeOK'
  BY <1>1, BeginSyncType DEF IInv, WorkerSync, TypeOK
<1>3. ASSUME NEW e \in Dispatches PROVE Linkage(e)' /\ Truth(e)'
  BY SMTT(30), <1>1, BeginSyncType DEF IInv, WorkerSync, Linkage, Truth, Told, InFlight
<1>4. QED  BY <1>2, <1>3 DEF IInv

(* A replica that finds the lock taken changes nothing else.               *)
LEMMA WorkerSkipsStep ==
    ASSUME IInv, NEW w \in Workers, NEW d \in Dispatches, WorkerSkips(w, d) PROVE IInv'
<1>1. TypeOK'
  BY DEF IInv, WorkerSkips, TypeOK
<1>2. ASSUME NEW e \in Dispatches PROVE Linkage(e)' /\ Truth(e)'
  BY DEF IInv, WorkerSkips, Linkage, Truth, Told, InFlight
<1>3. QED  BY <1>1, <1>2 DEF IInv

(* A manual poll begins as the worker's does.                              *)
LEMMA OperatorSyncStep ==
    ASSUME IInv, NEW d \in Dispatches, OperatorSync(d) PROVE IInv'
<1>1. BeginSync(Frontend, d) /\ Frontend \in Callers
  BY DEF OperatorSync, Callers
<1>2. TypeOK'
  BY <1>1, BeginSyncType, ConstantsAssumption DEF IInv, OperatorSync, TypeOK
<1>3. ASSUME NEW e \in Dispatches PROVE Linkage(e)' /\ Truth(e)'
  <2>1. UNCHANGED <<run, row, call, control>>
    BY DEF OperatorSync
  <2>2. Linkage(e)'
    BY <1>1, <2>1, BeginSyncType DEF IInv, Linkage, InFlight
  <2>3. Truth(e)'
    BY <1>1, <2>1, BeginSyncType DEF IInv, Truth, Told
  <2>4. QED  BY <2>2, <2>3
<1>4. QED  BY <1>2, <1>3 DEF IInv

(* A report is the word of the run at this moment.                         *)
LEMMA RuntimeReportsStep ==
    ASSUME IInv, NEW c \in Callers, NEW d \in Dispatches, RuntimeReports(c, d) PROVE IInv'
<1>1. run[d] \in RunStates /\ row[d].linked /\ PlatformOf[d] \in Polled
  BY DEF IInv, RuntimeReports, Linkage, InFlight
<1>2. PICK w \in Vocabulary[run[d]] \cup {"UNKNOWN"} :
         poll' = [poll EXCEPT ![c][d] = [@ EXCEPT !.pc = "answered", !.word = w]]
  BY DEF RuntimeReports
<1>3. w \in Words /\ (Normalize(w) \in Settled => run[d] = Normalize(w))
  BY <1>1, VocabularyTells, DefaultsAreOpen
<1>4. TypeOK'
  <2>1. poll[c][d] \in PollRequests
    BY DEF IInv, TypeOK
  <2>2. [poll[c][d] EXCEPT !.pc = "answered", !.word = w] \in PollRequests
    BY <1>3, <2>1 DEF PollRequests
  <2>3. QED  BY <1>2, <2>2 DEF IInv, TypeOK, RuntimeReports
<1>5. ASSUME NEW e \in Dispatches PROVE Linkage(e)' /\ Truth(e)'
  <2>1. \A a \in Callers : \/ poll'[a][e] = poll[a][e]
                           \/ a = c /\ e = d /\ poll'[a][e].word = w
    <3>1. poll[c][d] \in PollRequests
      BY DEF IInv, TypeOK
    <3>2. [poll[c][d] EXCEPT !.pc = "answered", !.word = w].word = w
      BY <3>1 DEF PollRequests
    <3>3. QED  BY <1>2, <3>2 DEF IInv, TypeOK
  <2>2. \A a \in Callers : InFlight(a, e)' => row[e].linked /\ PlatformOf[e] \in Polled
    BY <1>1, <2>1 DEF IInv, Linkage, InFlight
  <2>a. Linkage(e)'
    BY <2>2 DEF IInv, RuntimeReports, Linkage
  <2>3. Truth(e)'
    <3>1. run' = run /\ row' = row /\ call' = call /\ control' = control
      BY DEF RuntimeReports
    <3>2. \A a \in Callers :
             poll'[a][e].pc = "answered" => Told(e, poll'[a][e].word)
      BY <1>3, <2>1 DEF IInv, Truth, Told
    <3>3. QED  BY <3>1, <3>2 DEF IInv, Truth, Told
  <2>4. QED  BY <2>a, <2>3
<1>6. QED  BY <1>4, <1>5 DEF IInv

(* The end of a poll stores what was reported; a late report that says     *)
(* the run has ended is still true.                                        *)
LEMMA FinishSyncStep ==
    ASSUME IInv, NEW c \in Callers, NEW d \in Dispatches, FinishSync(c, d) PROVE IInv'
<1> DEFINE saw == poll[c][d].saw
           status == Normalize(poll[c][d].word)
<1>1. poll[c][d] \in PollRequests
  BY DEF IInv, TypeOK
<1>2. status \in Words /\ saw \in Snapshots
  BY <1>1, NormalizeType DEF PollRequests
<1>3. row[d].linked /\ PlatformOf[d] \in Polled /\ Told(d, status)
  BY <1>1, NormalizeTwice
     DEF IInv, FinishSync, Linkage, Truth, Told, InFlight, PollRequests
<1>4. \A a \in Callers, e \in Dispatches :
         poll'[a][e] = poll[a][e] \/ poll'[a][e] = NoPoll
  BY DEF IInv, TypeOK, FinishSync
<1>5. TypeOK'
  <2>1. UpdateMissionFromDispatch(saw.mission, status) \in Missions
    BY <1>2, MissionType DEF Snapshots, RowStatuses
  <2>2. mission' \in Missions
    BY <1>2, <2>1, FlushMissionType DEF IInv, FinishSync, TypeOK, Snapshots
  <2>3. health' \in [Platforms -> Healths]
    BY <1>2, ConstantsAssumption DEF IInv, FinishSync, TypeOK, Healths, Flush
  <2>4. row' \in [Dispatches -> [status : RowStatuses, linked : BOOLEAN]]
    BY SMTT(30), <1>2 DEF IInv, FinishSync, TypeOK, Flush, RowStatuses
  <2>5. poll' \in [Callers -> [Dispatches -> PollRequests]]
    BY BlankType DEF IInv, TypeOK, FinishSync
  <2>6. QED
    BY <2>2, <2>3, <2>4, <2>5, ConstantsAssumption DEF IInv, FinishSync, TypeOK
<1>6. ASSUME NEW e \in Dispatches PROVE Linkage(e)' /\ Truth(e)'
  <2>1. /\ row'[e].linked = row[e].linked
        /\ row'[e].status = row[e].status \/ (e = d /\ row'[e].status = status)
    <3>1. row' = [row EXCEPT ![d].status = Flush(@, saw.status, status)]
      BY DEF FinishSync
    <3>2. Flush(row[d].status, saw.status, status) \in {row[d].status, status}
      BY DEF Flush
    <3> HIDE DEF saw, status
    <3>3. QED  BY <3>1, <3>2 DEF IInv, TypeOK
  <2>2. Linkage(e)'
    <3>1. \A a \in Callers : InFlight(a, e)' => InFlight(a, e)
      BY <1>4 DEF InFlight, NoPoll
    <3>2. status \notin {"ABSENT", "DISPATCHING"}
      BY <1>2 DEF Words, OddWords, RunStates, Settled
    <3> HIDE DEF saw, status
    <3>3. QED  BY <1>3, <2>1, <3>1, <3>2 DEF IInv, FinishSync, Linkage
  <2>3. Truth(e)'
    BY <1>3, <1>4, <2>1 DEF IInv, FinishSync, Truth, Told, NoPoll
  <2>4. QED  BY <2>2, <2>3
<1>7. QED  BY <1>5, <1>6 DEF IInv

(* A failed poll records an error and no status.                           *)
LEMMA FailSyncStep ==
    ASSUME IInv, NEW c \in Callers, NEW d \in Dispatches, FailSync(c, d) PROVE IInv'
<1>1. TypeOK'
  BY BlankType, ConstantsAssumption DEF IInv, FailSync, TypeOK
<1>2. ASSUME NEW e \in Dispatches PROVE Linkage(e)' /\ Truth(e)'
  <2>1. \A a \in Callers : poll'[a][e] = poll[a][e] \/ poll'[a][e] = NoPoll
    BY DEF IInv, TypeOK, FailSync
  <2>2. QED
    BY <2>1 DEF IInv, FailSync, Linkage, Truth, Told, InFlight, NoPoll
<1>3. QED  BY <1>1, <1>2 DEF IInv

(* A stop or an approval begins with a snapshot of the row.                *)
LEMMA BeginControlStep ==
    ASSUME IInv, NEW d \in Dispatches, NEW kind \in {"stop", "approval"}, BeginControl(d, kind)
    PROVE  IInv'
<1>1. TypeOK'
  <2>1. [pc |-> "sent", word |-> "UNKNOWN", saw |-> Bundle(d), kind |-> kind] \in ControlRequests
    BY BundleType DEF IInv, ControlRequests, Words, OddWords
  <2>2. QED  BY <2>1, ConstantsAssumption DEF IInv, BeginControl, TypeOK
<1>2. ASSUME NEW e \in Dispatches PROVE Linkage(e)' /\ Truth(e)'
  <2>1. \/ control'[e] = control[e]
        \/ e = d /\ row[e].linked /\ PlatformOf[e] \in Polled /\ control'[e].pc = "sent"
    BY DEF IInv, TypeOK, BeginControl, Polled
  <2>2. QED
    BY <2>1 DEF IInv, BeginControl, Linkage, Truth, Told, InFlight
<1>3. QED  BY <1>1, <1>2 DEF IInv

(* The runtime does what a stop or an approval asks of the run.            *)
LEMMA RuntimeObeysStep ==
    ASSUME IInv, NEW d \in Dispatches, RuntimeObeys(d) PROVE IInv'
<1>1. /\ control[d] \in ControlRequests
      /\ control[d].pc = "sent"
      /\ row[d].linked
      /\ run[d] \in RunStates
  BY DEF IInv, TypeOK, RuntimeObeys, Linkage
<1>2. control[d].kind \in {"stop", "approval"}
  BY <1>1 DEF ControlRequests
<1>3. PICK s \in Controlled(run[d], control[d].kind) :
         \E w \in Vocabulary[s] \cup {ControlDefault(control[d].kind)} :
            /\ run' = [run EXCEPT ![d] = s]
            /\ control' = [control EXCEPT ![d] = [@ EXCEPT !.pc = "answered", !.word = w]]
  BY DEF RuntimeObeys
<1>4. PICK w \in Vocabulary[s] \cup {ControlDefault(control[d].kind)} :
         /\ run' = [run EXCEPT ![d] = s]
         /\ control' = [control EXCEPT ![d] = [@ EXCEPT !.pc = "answered", !.word = w]]
  BY <1>3
<1>5. s \in RunStates /\ (run[d] \in Settled => s = run[d])
  BY <1>1, <1>2, ControlledType
<1>6. w \in Words /\ (Normalize(w) \in Settled => s = Normalize(w))
  <2>1. ControlDefault(control[d].kind) \in {"STOPPING", "RUNNING"}
    BY DEF ControlDefault
  <2>2. CASE w \in Vocabulary[s]
    BY <1>5, <2>2, VocabularyTells
  <2>3. CASE w \in {"STOPPING", "RUNNING"}
    BY <2>3, DefaultsAreOpen
  <2>4. QED  BY <2>1, <2>2, <2>3
<1>7. [control[d] EXCEPT !.pc = "answered", !.word = w] \in ControlRequests
  BY <1>1, <1>6 DEF ControlRequests
<1>8. TypeOK'
  BY <1>4, <1>5, <1>7 DEF IInv, TypeOK, RuntimeObeys
<1>9. ASSUME NEW e \in Dispatches PROVE Linkage(e)' /\ Truth(e)'
  <2>1. /\ run'[d] = s
        /\ e # d => run'[e] = run[e] /\ control'[e] = control[e]
    BY <1>4 DEF IInv, TypeOK
  <2>2. control'[d].word = w
    <3>1. [control[d] EXCEPT !.pc = "answered", !.word = w].word = w
      BY <1>1 DEF ControlRequests
    <3>2. QED  BY <1>4, <3>1 DEF IInv, TypeOK
  <2>3. \A v : Told(e, v) => (Normalize(v) \in Settled => run'[e] = Normalize(v))
    BY <1>5, <2>1 DEF Told
  <2>4. Linkage(e)'
    BY <1>1, <1>5, <2>1 DEF IInv, RuntimeObeys, Linkage, InFlight
  <2>5. Truth(e)'
    BY <1>1, <1>5, <1>6, <2>1, <2>2, <2>3 DEF IInv, RuntimeObeys, Truth, Told
  <2>6. QED  BY <2>4, <2>5
<1>10. QED  BY <1>8, <1>9 DEF IInv

(* The end of a stop or an approval stores what the runtime said, or what  *)
(* the code assumes of an answer without a status.                         *)
LEMMA FinishControlStep ==
    ASSUME IInv, NEW d \in Dispatches, FinishControl(d) PROVE IInv'
<1> DEFINE saw == control[d].saw
           status == Normalize(control[d].word)
<1>1. control[d] \in ControlRequests /\ control[d].pc = "answered"
  BY DEF IInv, TypeOK, FinishControl
<1>2. status \in Words /\ saw \in Snapshots
  BY <1>1, NormalizeType DEF ControlRequests
<1>3. row[d].linked /\ PlatformOf[d] \in Polled /\ Told(d, status)
  BY <1>1, NormalizeTwice DEF IInv, Linkage, Truth, Told, ControlRequests
<1>4. \A e \in Dispatches : control'[e] = control[e] \/ control'[e] = NoControl
  BY DEF IInv, TypeOK, FinishControl
<1>5. TypeOK'
  <2>1. UpdateMissionFromDispatch(saw.mission, status) \in Missions
    BY <1>2, MissionType DEF Snapshots, RowStatuses
  <2>2. mission' \in Missions
    BY <1>2, <2>1, FlushMissionType DEF IInv, FinishControl, TypeOK, Snapshots
  <2>3. row' \in [Dispatches -> [status : RowStatuses, linked : BOOLEAN]]
    BY SMTT(30), <1>2 DEF IInv, FinishControl, TypeOK, Flush, RowStatuses
  <2>4. QED
    BY <2>2, <2>3, BlankType DEF IInv, FinishControl, TypeOK
<1>6. ASSUME NEW e \in Dispatches PROVE Linkage(e)' /\ Truth(e)'
  <2>1. /\ row'[e].linked = row[e].linked
        /\ row'[e].status = row[e].status \/ (e = d /\ row'[e].status = status)
    <3>1. row' = [row EXCEPT ![d].status = Flush(@, saw.status, status)]
      BY DEF FinishControl
    <3>2. Flush(row[d].status, saw.status, status) \in {row[d].status, status}
      BY DEF Flush
    <3> HIDE DEF saw, status
    <3>3. QED  BY <3>1, <3>2 DEF IInv, TypeOK
  <2>2. Linkage(e)'
    <3>1. status \notin {"ABSENT", "DISPATCHING"}
      BY <1>2 DEF Words, OddWords, RunStates, Settled
    <3> HIDE DEF saw, status
    <3>2. QED  BY <1>3, <1>4, <2>1, <3>1 DEF IInv, FinishControl, Linkage, InFlight, NoControl
  <2>3. Truth(e)'
    BY <1>3, <1>4, <2>1 DEF IInv, FinishControl, Truth, Told, NoControl
  <2>4. QED  BY <2>2, <2>3
<1>7. QED  BY <1>5, <1>6 DEF IInv

(* A failed stop or approval changes no row.                               *)
LEMMA FailControlStep ==
    ASSUME IInv, NEW d \in Dispatches, FailControl(d) PROVE IInv'
<1>1. TypeOK'
  BY BlankType DEF IInv, FailControl, TypeOK
<1>2. ASSUME NEW e \in Dispatches PROVE Linkage(e)' /\ Truth(e)'
  <2>1. control'[e] = control[e] \/ control'[e] = NoControl
    BY DEF IInv, TypeOK, FailControl
  <2>2. QED
    BY <2>1 DEF IInv, FailControl, Linkage, Truth, Told, InFlight, NoControl
<1>3. QED  BY <1>1, <1>2 DEF IInv

(* Time passes: locks expire and requests time out.                        *)
LEMMA TickStep == ASSUME IInv, Tick PROVE IInv'
<1>1. \A c \in Callers, d \in Dispatches :
         \/ poll'[c][d] = poll[c][d]
         \/ /\ InFlight(c, d)
            /\ poll[c][d].age < PollTimeout
            /\ poll'[c][d] = [poll[c][d] EXCEPT !.age = @ + 1]
  BY DEF IInv, TypeOK, Tick
<1>2. \A c \in Callers, d \in Dispatches :
         /\ poll'[c][d] \in PollRequests
         /\ poll'[c][d].pc = poll[c][d].pc
         /\ poll'[c][d].word = poll[c][d].word
  <2> SUFFICES ASSUME NEW c \in Callers, NEW d \in Dispatches
               PROVE  /\ poll'[c][d] \in PollRequests
                      /\ poll'[c][d].pc = poll[c][d].pc
                      /\ poll'[c][d].word = poll[c][d].word
    OBVIOUS
  <2>1. poll[c][d] \in PollRequests
    BY DEF IInv, TypeOK
  <2>2. CASE poll'[c][d] = poll[c][d]
    BY <2>1, <2>2
  <2>3. CASE /\ poll[c][d].age < PollTimeout
             /\ poll'[c][d] = [poll[c][d] EXCEPT !.age = @ + 1]
    <3>1. poll[c][d].age + 1 \in 0..PollTimeout
      BY <2>1, <2>3, ConstantsAssumption DEF PollRequests
    <3>2. QED  BY <2>1, <2>3, <3>1 DEF PollRequests
  <2>4. QED  BY <1>1, <2>2, <2>3
<1>3. TypeOK'
  <2>1. poll' \in [Callers -> [Dispatches -> PollRequests]]
    BY <1>2 DEF Tick
  <2>2. lock' \in [Dispatches -> 0..LockTTL]
    <3>1. \A n \in 0..LockTTL : n # 0 => n - 1 \in 0..LockTTL
      BY ConstantsAssumption
    <3>2. \A d \in Dispatches : lock[d] \in 0..LockTTL
      BY DEF IInv, TypeOK
    <3>3. \A d \in Dispatches : (IF lock[d] = 0 THEN 0 ELSE lock[d] - 1) \in 0..LockTTL
      BY <3>1, <3>2, ConstantsAssumption
    <3>4. QED  BY <3>3 DEF Tick
  <2>3. QED  BY <2>1, <2>2 DEF IInv, TypeOK, Tick
<1>4. ASSUME NEW e \in Dispatches PROVE Linkage(e)' /\ Truth(e)'
  BY <1>2 DEF IInv, Tick, Linkage, Truth, Told, InFlight
<1>5. QED  BY <1>3, <1>4 DEF IInv

(* The crash of a worker ends its polls and changes no row.                *)
LEMMA CrashWorkerStep ==
    ASSUME IInv, NEW w \in Workers, CrashWorker(w) PROVE IInv'
<1>1. TypeOK'
  <2>1. [d \in Dispatches |-> NoPoll] \in [Dispatches -> PollRequests]
    BY BlankType
  <2>2. poll' \in [Callers -> [Dispatches -> PollRequests]]
    BY <2>1 DEF IInv, CrashWorker, TypeOK
  <2>3. QED  BY <2>2, ConstantsAssumption DEF IInv, CrashWorker, TypeOK
<1>2. ASSUME NEW e \in Dispatches PROVE Linkage(e)' /\ Truth(e)'
  <2>1. \A a \in Callers : poll'[a][e] = poll[a][e] \/ poll'[a][e] = NoPoll
    BY DEF IInv, TypeOK, CrashWorker
  <2>2. QED
    BY <2>1 DEF IInv, CrashWorker, Linkage, Truth, Told, InFlight, NoPoll
<1>3. QED  BY <1>1, <1>2 DEF IInv

(* The crash of a web process ends its requests, and may strand a row.     *)
LEMMA CrashFrontendStep == ASSUME IInv, CrashFrontend PROVE IInv'
<1>1. [NoRequest EXCEPT !.pc = "crashed"] \in Requests
  BY BlankType DEF Requests, Phases
<1>2. TypeOK'
  <2>1. [d \in Dispatches |-> NoPoll] \in [Dispatches -> PollRequests]
    BY BlankType
  <2>2. poll' \in [Callers -> [Dispatches -> PollRequests]]
    BY <2>1 DEF IInv, CrashFrontend, TypeOK
  <2>3. call' \in [Dispatches -> Requests]
    BY <1>1 DEF IInv, CrashFrontend, TypeOK
  <2>4. control' \in [Dispatches -> ControlRequests]
    BY BlankType DEF CrashFrontend
  <2>5. crashes' \in 0..MaxCrashes
    BY ConstantsAssumption DEF IInv, CrashFrontend, TypeOK
  <2>6. QED
    BY <2>2, <2>3, <2>4, <2>5 DEF IInv, CrashFrontend, TypeOK
<1>3. ASSUME NEW e \in Dispatches PROVE Linkage(e)' /\ Truth(e)'
  <2>1. \A a \in Callers : poll'[a][e] = poll[a][e] \/ poll'[a][e] = NoPoll
    BY DEF IInv, TypeOK, CrashFrontend
  <2>2. control'[e].pc = "idle"
    BY DEF CrashFrontend, NoControl
  <2>3. \/ call'[e] = call[e]
        \/ call[e].pc \in {"sent", "answered", "refused"} /\ call'[e].pc = "crashed"
    BY DEF CrashFrontend, NoRequest
  <2>4. Linkage(e)'
    BY <2>1, <2>2, <2>3 DEF IInv, CrashFrontend, Linkage, InFlight, NoPoll
  <2>5. Truth(e)'
    BY <2>1, <2>2, <2>3 DEF IInv, CrashFrontend, Truth, Told, NoPoll
  <2>6. QED  BY <2>4, <2>5
<1>4. QED  BY <1>2, <1>3 DEF IInv

(* Every step keeps the inductive invariant.                               *)
LEMMA StepIInv == ASSUME IInv, [Next]_vars PROVE IInv'
<1>1. CASE UNCHANGED vars
  BY <1>1 DEF vars, IInv, TypeOK, Linkage, Truth, Told, InFlight
<1>2. ASSUME NEW d \in Dispatches,
             \/ CreateDispatch(d) \/ RuntimeAccepts(d) \/ RuntimeRefuses(d)
             \/ FinishDispatch(d) \/ FailDispatch(d) \/ RunMoves(d)
             \/ OperatorSync(d) \/ RuntimeObeys(d) \/ FinishControl(d) \/ FailControl(d)
             \/ \E kind \in {"stop", "approval"} : BeginControl(d, kind)
      PROVE IInv'
  BY <1>2, CreateDispatchStep, RuntimeAcceptsStep, RuntimeRefusesStep, FinishDispatchStep,
     FailDispatchStep, RunMovesStep, OperatorSyncStep, RuntimeObeysStep, FinishControlStep,
     FailControlStep, BeginControlStep
<1>3. ASSUME NEW w \in Workers, Scan(w) \/ CrashWorker(w) PROVE IInv'
  BY <1>3, ScanStep, CrashWorkerStep
<1>4. ASSUME NEW w \in Workers, NEW d \in Dispatches, WorkerSync(w, d) \/ WorkerSkips(w, d)
      PROVE IInv'
  BY <1>4, WorkerSyncStep, WorkerSkipsStep
<1>5. ASSUME NEW c \in Callers, NEW d \in Dispatches,
             RuntimeReports(c, d) \/ FinishSync(c, d) \/ FailSync(c, d)
      PROVE IInv'
  BY <1>5, RuntimeReportsStep, FinishSyncStep, FailSyncStep
<1>6. QED
  BY <1>1, <1>2, <1>3, <1>4, <1>5, TickStep, CrashFrontendStep DEF Next

(* The inductive invariant holds in every reachable state. *)
THEOREM Invariance == Spec => []IInv
BY InitIInv, StepIInv, PTL DEF Spec

(* Every reachable state has the declared types. *)
THEOREM TypeCorrect == Spec => []TypeOK
BY Invariance, PTL DEF IInv

(* A row that says how its run ended tells the truth, however the polls,   *)
(* stops and approvals of any number of callers interleave; only FAILED of *)
(* a row without an id may be the failure of the request.                  *)
THEOREM RowsTellTheTruth == Spec => []SettledRowTellsTheTruth
<1>1. IInv => SettledRowTellsTheTruth
  BY DEF IInv, Truth, Told, SettledRowTellsTheTruth, Normalize
<1>2. QED  BY <1>1, Invariance, PTL

(* An open dispatch that no worker polls is in flight, was abandoned by a  *)
(* crash of the process that was sending it, was taken over by a runtime   *)
(* that named no run, or says a word the worker does not look for: there   *)
(* is no other way to lose sight of a run.                                 *)
THEOREM OnlyLossesStrand == Spec => []StrandedOnlyByLoss
<1>1. IInv => StrandedOnlyByLoss
  <2> SUFFICES ASSUME IInv, NEW d \in Dispatches, StillOpen(d), ~Pollable(d)
               PROVE  \/ /\ row[d].status = "DISPATCHING"
                         /\ call[d].pc \in {"sent", "answered", "refused", "crashed"}
                      \/ call[d].pc = "done" /\ ~row[d].linked /\ row[d].status # "DISPATCHING"
                      \/ row[d].status \in OddWords
    BY DEF StrandedOnlyByLoss
  <2>1. call[d].pc \in Phases /\ row[d].status \in RowStatuses
    BY DEF IInv, TypeOK, Requests
  <2>2. call[d].pc # "idle" /\ Normalize(row[d].status) \notin Settled
    BY DEF IInv, Linkage, StillOpen
  <2>3. CASE call[d].pc = "done" /\ row[d].linked /\ row[d].status \notin OddWords
    <3>2. row[d].status \notin Settled /\ row[d].status # "ABSENT"
      BY <2>2 DEF Normalize, Settled, StillOpen
    <3>3. PlatformOf[d] \in Polled
      BY <2>3, <3>2 DEF IInv, Linkage
    <3>4. row[d].status \in ActiveStatuses
      BY <2>1, <2>2, <2>3, <3>2
         DEF RowStatuses, Words, RunStates, OddWords, Normalize, Settled, ActiveStatuses
    <3>5. QED  BY <2>3, <3>3, <3>4 DEF Pollable
  <2>4. CASE call[d].pc # "done"
    BY <2>1, <2>2, <2>4 DEF IInv, Linkage, Phases
  <2>5. CASE call[d].pc = "done" /\ ~row[d].linked
    BY <2>5 DEF IInv, Linkage
  <2>6. QED  BY <2>3, <2>4, <2>5
<1>2. QED  BY <1>1, Invariance, PTL

--------------------------------------------------------------------------
(* The status of a mission is only ever written from a word about a run.   *)
LEMMA EarnedByStep ==
    ASSUME IInv, VerifyingIsEarned, NEW d \in Dispatches, NEW l \in Missions, NEW w \in Words,
           row[d].linked, Told(d, w), run' = run,
           mission' = FlushMission(l, UpdateMissionFromDispatch(l, w))
    PROVE  VerifyingIsEarned'
<1>1. CASE w = "COMPLETED"
  BY <1>1 DEF VerifyingIsEarned, Told, Settled, Normalize
<1>2. CASE w # "COMPLETED"
  <2>1. UpdateMissionFromDispatch(l, w).status \in
           {"EXECUTING", "WAITING_APPROVAL", "BLOCKED", l.status}
    BY <1>2 DEF UpdateMissionFromDispatch, Missions
  <2>2. mission'.status = "VERIFYING" => mission.status = "VERIFYING"
    BY <2>1 DEF FlushMission, Flush
  <2>3. QED  BY <2>2 DEF VerifyingIsEarned
<1>3. QED  BY <1>1, <1>2

(* A finished run stays finished. *)
LEMMA EndIsFinal ==
    ASSUME IInv, [Next]_vars, NEW d \in Dispatches, run[d] \in Settled
    PROVE  run'[d] = run[d]
<1> USE DEF IInv, TypeOK
<1>1. ASSUME NEW e \in Dispatches, RuntimeAccepts(e) \/ RuntimeRefuses(e)
      PROVE  run'[d] = run[d]
  <2>1. run[e] = "NONE"
    BY <1>1 DEF RuntimeAccepts, RuntimeRefuses, Linkage
  <2>2. QED  BY <1>1, <2>1 DEF RuntimeAccepts, RuntimeRefuses, Settled
<1>2. ASSUME NEW e \in Dispatches, RunMoves(e) PROVE run'[d] = run[d]
  BY <1>2 DEF RunMoves, Settled
<1>3. ASSUME NEW e \in Dispatches, RuntimeObeys(e) PROVE run'[d] = run[d]
  <2>1. PICK s \in Controlled(run[e], control[e].kind) : run' = [run EXCEPT ![e] = s]
    BY <1>3 DEF RuntimeObeys
  <2>2. e = d => s = run[d]
    BY DEF Controlled, Settled
  <2>3. QED  BY <2>1, <2>2
<1>4. CASE UNCHANGED run
  BY <1>4
<1>5. QED
  BY <1>1, <1>2, <1>3, <1>4
     DEF Next, vars, CreateDispatch, FinishDispatch, FailDispatch, OperatorSync, FinishControl,
         FailControl, BeginControl, Scan, CrashWorker, WorkerSync, WorkerSkips, RuntimeReports,
         FinishSync, FailSync, Tick, CrashFrontend

(* A mission that every step puts up for verification has a completed      *)
(* run.                                                                    *)
LEMMA EarnedStep ==
    ASSUME IInv, VerifyingIsEarned, [Next]_vars PROVE VerifyingIsEarned'
<1>1. CASE mission' = mission
  BY <1>1, EndIsFinal DEF VerifyingIsEarned, Settled
<1>2. ASSUME NEW d \in Dispatches, FinishDispatch(d) PROVE VerifyingIsEarned'
  <2>1. mission'.status = mission.status
    BY <1>2 DEF FinishDispatch, FlushMission, Flush, IInv, TypeOK, Requests, Snapshots, Missions
  <2>2. QED  BY <2>1, EndIsFinal DEF VerifyingIsEarned, Settled
<1>3. ASSUME NEW c \in Callers, NEW d \in Dispatches, FinishSync(c, d)
      PROVE  VerifyingIsEarned'
  <2> DEFINE w == Normalize(poll[c][d].word)
             l == poll[c][d].saw.mission
  <2>1. poll[c][d] \in PollRequests
    BY DEF IInv, TypeOK
  <2>2. w \in Words /\ l \in Missions
    BY <2>1, NormalizeType DEF PollRequests, Snapshots
  <2>3. row[d].linked /\ Told(d, w)
    BY <1>3, <2>1, NormalizeTwice
       DEF IInv, FinishSync, Linkage, Truth, Told, InFlight, PollRequests
  <2>4. run' = run /\ mission' = FlushMission(l, UpdateMissionFromDispatch(l, w))
    BY <1>3 DEF FinishSync
  <2> HIDE DEF w, l
  <2>5. QED  BY <2>2, <2>3, <2>4, EarnedByStep
<1>4. ASSUME NEW d \in Dispatches, FinishControl(d) PROVE VerifyingIsEarned'
  <2> DEFINE w == Normalize(control[d].word)
             l == control[d].saw.mission
  <2>1. control[d] \in ControlRequests /\ control[d].pc = "answered"
    BY <1>4 DEF IInv, TypeOK, FinishControl
  <2>2. w \in Words /\ l \in Missions
    BY <2>1, NormalizeType DEF ControlRequests, Snapshots
  <2>3. row[d].linked /\ Told(d, w)
    BY <2>1, NormalizeTwice DEF IInv, Linkage, Truth, Told, ControlRequests
  <2>4. run' = run /\ mission' = FlushMission(l, UpdateMissionFromDispatch(l, w))
    BY <1>4 DEF FinishControl
  <2> HIDE DEF w, l
  <2>5. QED  BY <2>2, <2>3, <2>4, EarnedByStep
<1>5. QED
  BY <1>1, <1>2, <1>3, <1>4
     DEF Next, vars, CreateDispatch, RuntimeAccepts, RuntimeRefuses, FailDispatch, RunMoves,
         OperatorSync, RuntimeObeys, FailControl, BeginControl, Scan, CrashWorker, WorkerSync,
         WorkerSkips, RuntimeReports, FailSync, Tick, CrashFrontend

(* A mission is put up for verification only when one of its runs has      *)
(* completed.                                                              *)
THEOREM VerifyingIsAlwaysEarned == Spec => []VerifyingIsEarned
<1>1. Init => VerifyingIsEarned
  BY DEF Init, VerifyingIsEarned
<1>2. QED  BY <1>1, EarnedStep, Invariance, PTL DEF Spec

--------------------------------------------------------------------------
(***************************************************************************)
(* The mission.  A handler's commit leaves the mission's status as it is   *)
(* whenever the handler's own copy already had the status it assigns, so   *)
(* the last handler to settle a dispatch need not move the mission on.     *)
(* What makes it move: while the mission is EXECUTING, some dispatch is    *)
(* linked, is open, and whoever works on it has seen the mission EXECUTING:*)
(* its end will differ from what was seen, and be written.                 *)
(***************************************************************************)
CarriesMission(d) ==
    /\ row[d].linked /\ StillOpen(d)
    /\ \A c \in Callers : InFlight(c, d) => poll[c][d].saw.mission.status = "EXECUTING"
    /\ control[d].pc # "idle" => control[d].saw.mission.status = "EXECUTING"

(* Whoever works on a dispatch does it alone, and on the row as it is.     *)
WorksAlone(d) ==
    /\ \A c1, c2 \in Callers : InFlight(c1, d) /\ InFlight(c2, d) => c1 = c2
    /\ \A c \in Callers : InFlight(c, d) => /\ control[d].pc = "idle"
                                            /\ poll[c][d].saw.status = row[d].status
    /\ control[d].pc # "idle" => control[d].saw.status = row[d].status

ExecutingInv ==
    ~overlap => /\ \A d \in Dispatches : WorksAlone(d)
                /\ mission.status = "EXECUTING" => \E d \in Dispatches : CarriesMission(d)

(* A step that changes no row of a linked dispatch, not the mission's      *)
(* status and no handler's copy, except that handlers end.                 *)
LEMMA ExecutingKept ==
    ASSUME IInv, ExecutingInv, mission'.status = mission.status, overlap' = overlap,
           \A d \in Dispatches : row[d].linked => row'[d] = row[d],
           \A d \in Dispatches : control'[d].pc # "idle" =>
               control[d].pc # "idle" /\ control'[d].saw = control[d].saw,
           \A c \in Callers, d \in Dispatches : InFlight(c, d)' =>
               InFlight(c, d) /\ poll'[c][d].saw = poll[c][d].saw
    PROVE  ExecutingInv'
<1> SUFFICES ASSUME ~overlap PROVE ExecutingInv'
  BY DEF ExecutingInv
<1>1. ASSUME NEW d \in Dispatches PROVE WorksAlone(d)'
  <2>1. /\ \A c \in Callers : InFlight(c, d) => row[d].linked
        /\ control[d].pc # "idle" => row[d].linked
    BY DEF IInv, Linkage
  <2>2. WorksAlone(d)
    BY DEF ExecutingInv
  <2>3. QED  BY <2>1, <2>2 DEF WorksAlone
<1>2. ASSUME NEW d \in Dispatches, CarriesMission(d) PROVE CarriesMission(d)'
  BY <1>2 DEF CarriesMission, StillOpen
<1>3. QED  BY <1>1, <1>2 DEF ExecutingInv

(* A new poll loads the row and the mission as they are, and overlaps or   *)
(* is alone.                                                               *)
LEMMA ExecutingPolls ==
    ASSUME IInv, ExecutingInv, NEW c \in Callers, NEW d \in Dispatches, BeginSync(c, d),
           UNCHANGED <<row, mission, control>>
    PROVE  ExecutingInv'
<1> SUFFICES ASSUME ~overlap' PROVE ExecutingInv'
  BY DEF ExecutingInv
<1>1. ~overlap /\ ~AtWork(d)
  BY DEF BeginSync
<1>2. \A a \in Callers, e \in Dispatches :
         \/ poll'[a][e] = poll[a][e] /\ (e = d => ~InFlight(a, e)')
         \/ a = c /\ e = d /\ poll'[a][e].saw = Bundle(d)
  BY <1>1 DEF IInv, TypeOK, BeginSync, AtWork, InFlight
<1>3. ASSUME NEW e \in Dispatches PROVE WorksAlone(e)'
  <2>1. WorksAlone(e)
    BY <1>1 DEF ExecutingInv
  <2>2. CASE e = d
    BY <1>1, <1>2, <2>2 DEF WorksAlone, AtWork, InFlight, Bundle
  <2>3. CASE e # d
    BY <1>2, <2>1, <2>3 DEF WorksAlone, InFlight
  <2>4. QED  BY <2>2, <2>3
<1>4. ASSUME NEW e \in Dispatches, CarriesMission(e), mission.status = "EXECUTING"
      PROVE  CarriesMission(e)'
  BY <1>2, <1>4 DEF CarriesMission, StillOpen, InFlight, Bundle
<1>5. QED  BY <1>1, <1>3, <1>4 DEF ExecutingInv

(* So does a new stop or approval.                                         *)
LEMMA ExecutingControls ==
    ASSUME IInv, ExecutingInv, NEW d \in Dispatches, NEW kind \in {"stop", "approval"},
           BeginControl(d, kind)
    PROVE  ExecutingInv'
<1> SUFFICES ASSUME ~overlap' PROVE ExecutingInv'
  BY DEF ExecutingInv
<1>1. ~overlap /\ ~AtWork(d) /\ UNCHANGED <<row, mission, poll>>
  BY DEF BeginControl
<1>2. /\ control'[d].saw = Bundle(d)
      /\ \A e \in Dispatches : e # d => control'[e] = control[e]
  BY DEF IInv, TypeOK, BeginControl
<1>3. ASSUME NEW e \in Dispatches PROVE WorksAlone(e)'
  <2>1. WorksAlone(e)
    BY <1>1 DEF ExecutingInv
  <2>2. CASE e = d
    BY <1>1, <1>2, <2>2 DEF WorksAlone, AtWork, InFlight, Bundle
  <2>3. CASE e # d
    BY <1>1, <1>2, <2>1, <2>3 DEF WorksAlone, InFlight
  <2>4. QED  BY <2>2, <2>3
<1>4. ASSUME NEW e \in Dispatches, CarriesMission(e), mission.status = "EXECUTING"
      PROVE  CarriesMission(e)'
  BY <1>1, <1>2, <1>4 DEF CarriesMission, StillOpen, InFlight, Bundle
<1>5. QED  BY <1>1, <1>3, <1>4 DEF ExecutingInv

(* A handler that is alone stores its word.  Its copy of the row was the   *)
(* row, so the row says now what was reported; and the mission is          *)
(* EXECUTING afterwards only because of this run, or of another one that   *)
(* carried it before.                                                      *)
LEMMA ExecutingStored ==
    ASSUME IInv, ExecutingInv, ~overlap, NEW d \in Dispatches, NEW saw \in Snapshots, NEW w \in Words,
           AtWork(d), Normalize(w) = w, saw.status = row[d].status,
           CarriesMission(d) => saw.mission.status = "EXECUTING",
           row' = [row EXCEPT ![d].status = Flush(@, saw.status, w)],
           mission' = FlushMission(saw.mission, UpdateMissionFromDispatch(saw.mission, w)),
           control'[d].pc = "idle", \A c \in Callers : ~InFlight(c, d)',
           \A e \in Dispatches \ {d} : control'[e] = control[e],
           \A e \in Dispatches \ {d} : \A c \in Callers : poll'[c][e] = poll[c][e],
           overlap' = overlap
    PROVE  ExecutingInv'
<1>1. row[d].linked /\ w # "ABSENT"
  BY DEF IInv, Linkage, AtWork, Words, OddWords, RunStates, Settled
<1>2. /\ row'[d].status = w /\ row'[d].linked
      /\ \A e \in Dispatches : e # d => row'[e] = row[e]
  BY <1>1 DEF IInv, TypeOK, Flush
<1>3. ASSUME NEW e \in Dispatches PROVE WorksAlone(e)'
  <2>1. CASE e = d
    BY <2>1 DEF WorksAlone
  <2>2. CASE e # d
    <3>1. WorksAlone(e)
      BY DEF ExecutingInv
    <3>2. QED  BY <1>2, <2>2, <3>1 DEF WorksAlone, InFlight
  <2>3. QED  BY <2>1, <2>2
<1>4. ASSUME NEW e \in Dispatches, e # d, CarriesMission(e) PROVE CarriesMission(e)'
  BY <1>2, <1>4 DEF CarriesMission, StillOpen, InFlight
<1>5. mission'.status = Flush(mission.status, saw.mission.status,
                              UpdateMissionFromDispatch(saw.mission, w).status)
  BY DEF FlushMission
<1>6. ASSUME mission'.status = "EXECUTING"
      PROVE  \E e \in Dispatches : CarriesMission(e)'
  <2>1. CASE w \notin Settled
    <3>1. CarriesMission(d)'
      BY <1>1, <1>2, <2>1 DEF CarriesMission, StillOpen
    <3>2. QED  BY <3>1
  <2>2. CASE w \in Settled
    <3>1. UpdateMissionFromDispatch(saw.mission, w).status \in {"VERIFYING", "BLOCKED"}
      BY <2>2 DEF UpdateMissionFromDispatch, Settled, Snapshots, Missions
    <3>2. /\ mission.status = "EXECUTING"
          /\ saw.mission.status # "EXECUTING"
      BY <1>5, <1>6, <3>1 DEF Flush
    <3>3. PICK e \in Dispatches : CarriesMission(e)
      BY <3>2 DEF ExecutingInv
    <3>4. e # d
      BY <3>2, <3>3
    <3>5. QED  BY <1>4, <3>3, <3>4
  <2>3. QED  BY <2>1, <2>2
<1>7. QED  BY <1>3, <1>6 DEF ExecutingInv

(* The end of a poll.                                                      *)
LEMMA ExecutingFinishSync ==
    ASSUME IInv, ExecutingInv, NEW c \in Callers, NEW d \in Dispatches, FinishSync(c, d)
    PROVE  ExecutingInv'
<1> SUFFICES ASSUME ~overlap PROVE ExecutingInv'
  BY DEF ExecutingInv, FinishSync
<1> DEFINE saw == poll[c][d].saw
           w == Normalize(poll[c][d].word)
<1>1. poll[c][d] \in PollRequests /\ InFlight(c, d) /\ WorksAlone(d)
  BY DEF IInv, TypeOK, FinishSync, InFlight, ExecutingInv
<1>2. w \in Words /\ saw \in Snapshots /\ Normalize(w) = w
  BY <1>1, NormalizeType, NormalizeTwice DEF PollRequests
<1>3. AtWork(d) /\ saw.status = row[d].status /\ control[d].pc = "idle"
  BY <1>1 DEF WorksAlone, AtWork
<1>4. CarriesMission(d) => saw.mission.status = "EXECUTING"
  BY <1>1 DEF CarriesMission
<1>5. /\ row' = [row EXCEPT ![d].status = Flush(@, saw.status, w)]
      /\ mission' = FlushMission(saw.mission, UpdateMissionFromDispatch(saw.mission, w))
      /\ overlap' = overlap /\ control' = control
  BY DEF FinishSync
<1>6. \A a \in Callers : ~InFlight(a, d)'
  BY <1>1 DEF IInv, TypeOK, FinishSync, WorksAlone, InFlight, NoPoll
<1>7. \A e \in Dispatches \ {d} : \A a \in Callers : poll'[a][e] = poll[a][e]
  BY DEF IInv, TypeOK, FinishSync
<1> HIDE DEF saw, w
<1>8. QED  BY <1>2, <1>3, <1>4, <1>5, <1>6, <1>7, ExecutingStored

(* The end of a stop or an approval.                                       *)
LEMMA ExecutingFinishControl ==
    ASSUME IInv, ExecutingInv, NEW d \in Dispatches, FinishControl(d)
    PROVE  ExecutingInv'
<1> SUFFICES ASSUME ~overlap PROVE ExecutingInv'
  BY DEF ExecutingInv, FinishControl
<1> DEFINE saw == control[d].saw
           w == Normalize(control[d].word)
<1>1. control[d] \in ControlRequests /\ control[d].pc = "answered" /\ WorksAlone(d)
  BY DEF IInv, TypeOK, FinishControl, ExecutingInv
<1>2. w \in Words /\ saw \in Snapshots /\ Normalize(w) = w
  BY <1>1, NormalizeType, NormalizeTwice DEF ControlRequests
<1>3. AtWork(d) /\ saw.status = row[d].status /\ \A a \in Callers : ~InFlight(a, d)
  BY <1>1 DEF WorksAlone, AtWork
<1>4. CarriesMission(d) => saw.mission.status = "EXECUTING"
  BY <1>1 DEF CarriesMission
<1>5. /\ row' = [row EXCEPT ![d].status = Flush(@, saw.status, w)]
      /\ mission' = FlushMission(saw.mission, UpdateMissionFromDispatch(saw.mission, w))
      /\ overlap' = overlap /\ poll' = poll
  BY DEF FinishControl
<1>6. /\ control'[d].pc = "idle"
      /\ \A e \in Dispatches \ {d} : control'[e] = control[e]
  BY DEF IInv, TypeOK, FinishControl, NoControl
<1>7. \A a \in Callers : ~InFlight(a, d)'
  BY <1>3, <1>5 DEF InFlight
<1> HIDE DEF saw, w
<1>8. QED  BY <1>2, <1>3, <1>4, <1>5, <1>6, <1>7, ExecutingStored

(* Every step keeps the invariant.                                         *)
LEMMA ExecutingStep ==
    ASSUME IInv, ExecutingInv, [Next]_vars PROVE ExecutingInv'
<1>1. CASE UNCHANGED <<row, mission, poll, control, overlap>>
  BY <1>1, ExecutingKept DEF InFlight
<1>2. ASSUME NEW d \in Dispatches, CreateDispatch(d) \/ FailDispatch(d) PROVE ExecutingInv'
  <2>1. ~row[d].linked
    BY <1>2 DEF IInv, TypeOK, Linkage, CreateDispatch, FailDispatch
  <2>2. \A e \in Dispatches : row[e].linked => row'[e] = row[e]
    BY <1>2, <2>1 DEF IInv, TypeOK, CreateDispatch, FailDispatch
  <2>3. UNCHANGED <<mission, poll, control, overlap>>
    BY <1>2 DEF CreateDispatch, FailDispatch
  <2>4. QED  BY <2>2, <2>3, ExecutingKept DEF InFlight
<1>3. ASSUME NEW d \in Dispatches, FinishDispatch(d) PROVE ExecutingInv'
  <2>1. ~row[d].linked
    BY <1>3 DEF IInv, Linkage, FinishDispatch
  <2>2. \A e \in Dispatches : row[e].linked => row'[e] = row[e]
    BY <1>3, <2>1 DEF IInv, TypeOK, FinishDispatch
  <2>3. mission'.status = mission.status
    BY <1>3 DEF FinishDispatch, FlushMission, Flush, IInv, TypeOK, Requests, Snapshots, Missions
  <2>4. UNCHANGED <<poll, control, overlap>>
    BY <1>3 DEF FinishDispatch
  <2>5. QED  BY <2>2, <2>3, <2>4, ExecutingKept DEF InFlight
<1>4. ASSUME NEW c \in Callers, NEW d \in Dispatches, BeginSync(c, d),
             UNCHANGED <<row, mission, control>>
      PROVE  ExecutingInv'
  BY <1>4, ExecutingPolls
<1>5. ASSUME NEW d \in Dispatches, OperatorSync(d) PROVE ExecutingInv'
  BY <1>4, <1>5 DEF OperatorSync, Callers
<1>6. ASSUME NEW w \in Workers, NEW d \in Dispatches, WorkerSync(w, d) PROVE ExecutingInv'
  BY <1>4, <1>6 DEF WorkerSync, Callers
<1>7. ASSUME UNCHANGED <<row, mission, control, overlap>>,
             \A c \in Callers, d \in Dispatches : InFlight(c, d)' =>
                 InFlight(c, d) /\ poll'[c][d].saw = poll[c][d].saw
      PROVE  ExecutingInv'
  BY <1>7, ExecutingKept
<1>8. ASSUME NEW c \in Callers, NEW d \in Dispatches, RuntimeReports(c, d) PROVE ExecutingInv'
  <2>1. poll[c][d] \in PollRequests
    BY DEF IInv, TypeOK
  <2>2. \A w : [poll[c][d] EXCEPT !.pc = "answered", !.word = w].saw = poll[c][d].saw
    BY <2>1 DEF PollRequests
  <2>3. \A a \in Callers, e \in Dispatches : InFlight(a, e)' =>
           InFlight(a, e) /\ poll'[a][e].saw = poll[a][e].saw
    BY <1>8, <2>2 DEF IInv, TypeOK, RuntimeReports, InFlight
  <2>4. QED  BY <1>7, <1>8, <2>3 DEF RuntimeReports
<1>9. ASSUME NEW c \in Callers, NEW d \in Dispatches, FailSync(c, d) PROVE ExecutingInv'
  <2>1. \A a \in Callers, e \in Dispatches : InFlight(a, e)' =>
           InFlight(a, e) /\ poll'[a][e].saw = poll[a][e].saw
    BY <1>9 DEF IInv, TypeOK, FailSync, InFlight, NoPoll
  <2>2. QED  BY <1>7, <1>9, <2>1 DEF FailSync
<1>10. CASE Tick
  <2>1. \A c \in Callers, d \in Dispatches : poll[c][d] \in PollRequests
    BY DEF IInv, TypeOK
  <2>2. \A c \in Callers, d \in Dispatches : InFlight(c, d)' =>
           InFlight(c, d) /\ poll'[c][d].saw = poll[c][d].saw
    BY <1>10, <2>1 DEF Tick, InFlight, PollRequests
  <2>3. QED  BY <1>7, <1>10, <2>2 DEF Tick
<1>11. ASSUME NEW w \in Workers, CrashWorker(w) PROVE ExecutingInv'
  <2>1. \A a \in Callers, e \in Dispatches : InFlight(a, e)' =>
           InFlight(a, e) /\ poll'[a][e].saw = poll[a][e].saw
    BY <1>11 DEF IInv, TypeOK, CrashWorker, InFlight, NoPoll
  <2>2. QED  BY <1>7, <1>11, <2>1 DEF CrashWorker
<1>12. CASE CrashFrontend
  <2>1. \A a \in Callers, e \in Dispatches : InFlight(a, e)' =>
           InFlight(a, e) /\ poll'[a][e].saw = poll[a][e].saw
    BY <1>12 DEF IInv, TypeOK, CrashFrontend, InFlight, NoPoll
  <2>2. \A d \in Dispatches : control'[d].pc = "idle"
    BY <1>12 DEF CrashFrontend, NoControl
  <2>3. UNCHANGED <<row, mission, overlap>>
    BY <1>12 DEF CrashFrontend
  <2>4. QED  BY <2>1, <2>2, <2>3, ExecutingKept
<1>13. ASSUME NEW d \in Dispatches, NEW kind \in {"stop", "approval"}, BeginControl(d, kind)
       PROVE  ExecutingInv'
  BY <1>13, ExecutingControls
<1>14. ASSUME NEW d \in Dispatches, RuntimeObeys(d) PROVE ExecutingInv'
  <2>1. control[d] \in ControlRequests /\ control[d].pc = "sent"
    BY <1>14 DEF IInv, TypeOK, RuntimeObeys
  <2>2. \A w : [control[d] EXCEPT !.pc = "answered", !.word = w].saw = control[d].saw
    BY <2>1 DEF ControlRequests
  <2>3. \A e \in Dispatches : control'[e].pc # "idle" =>
           control[e].pc # "idle" /\ control'[e].saw = control[e].saw
    BY <1>14, <2>1, <2>2 DEF IInv, TypeOK, RuntimeObeys
  <2>4. UNCHANGED <<row, mission, poll, overlap>>
    BY <1>14 DEF RuntimeObeys
  <2>5. QED  BY <2>3, <2>4, ExecutingKept DEF InFlight
<1>15. ASSUME NEW d \in Dispatches, FailControl(d) PROVE ExecutingInv'
  <2>1. \A e \in Dispatches : control'[e].pc # "idle" => control'[e] = control[e]
    BY <1>15 DEF IInv, TypeOK, FailControl, NoControl
  <2>2. UNCHANGED <<row, mission, poll, overlap>>
    BY <1>15 DEF FailControl
  <2>3. QED  BY <2>1, <2>2, ExecutingKept DEF InFlight
<1>16. ASSUME NEW d \in Dispatches, FinishControl(d) PROVE ExecutingInv'
  BY <1>16, ExecutingFinishControl
<1>17. ASSUME NEW c \in Callers, NEW d \in Dispatches, FinishSync(c, d) PROVE ExecutingInv'
  BY <1>17, ExecutingFinishSync
<1>18. ASSUME NEW d \in Dispatches, RuntimeAccepts(d) \/ RuntimeRefuses(d) \/ RunMoves(d)
       PROVE  ExecutingInv'
  BY <1>1, <1>18 DEF RuntimeAccepts, RuntimeRefuses, RunMoves
<1>19. ASSUME NEW w \in Workers, Scan(w) PROVE ExecutingInv'
  BY <1>1, <1>19 DEF Scan
<1>20. ASSUME NEW w \in Workers, NEW d \in Dispatches, WorkerSkips(w, d) PROVE ExecutingInv'
  BY <1>1, <1>20 DEF WorkerSkips
<1>21. CASE UNCHANGED vars
  BY <1>1, <1>21 DEF vars
<1>22. QED
  BY <1>2, <1>3, <1>5, <1>6, <1>8, <1>9, <1>10, <1>11, <1>12, <1>13, <1>14, <1>15, <1>16,
     <1>17, <1>18, <1>19, <1>20, <1>21
     DEF Next

(* A mission that is EXECUTING has an open dispatch that is linked to its  *)
(* run, unless two handlers were at work on one dispatch at once: for any  *)
(* number of dispatches, workers, operator requests and crashes, any       *)
(* lifetime of the lock and any words of the runtimes.                     *)
THEOREM MissionsMoveOn == Spec => []NoMissionLeftExecuting
<1>1. Init => ExecutingInv
  BY DEF Init, ExecutingInv, WorksAlone, InFlight, NoPoll, NoControl
<1>2. ExecutingInv => NoMissionLeftExecuting
  BY DEF ExecutingInv, CarriesMission, NoMissionLeftExecuting
<1>3. IInv /\ ExecutingInv /\ [Next]_vars => ExecutingInv'
  BY ExecutingStep
<1>4. QED  BY <1>1, <1>2, <1>3, Invariance, PTL DEF Spec

(***************************************************************************)
(* The refinement.  RuntimeDispatch implements the safety part of          *)
(* DispatchPromise: every step of a handler, a runtime, the clock or a     *)
(* crash is a step of the promise or leaves what it speaks of unchanged.   *)
(***************************************************************************)

(* A step that touches neither runs, rows nor the mission's status is none *)
(* of the promise's.                                                       *)
LEMMA Unseen ==
    ASSUME UNCHANGED <<run, row>>, mission'.status = mission.status
    PROVE  UNCHANGED Promise!prmVars
BY DEF Promise!prmVars, RealRun, ShownRow

(* A run that starts, goes on or ends does what the promise lets it do.    *)
LEMMA RunsGoOn ==
    ASSUME IInv, NEW d \in Dispatches, NEW s \in RunStates \cup {"NONE"},
           run[d] \in Settled => s = run[d], s = "NONE" => run[d] = "NONE",
           run' = [run EXCEPT ![d] = s], UNCHANGED <<row, mission>>
    PROVE  [Promise!PrmNext]_Promise!prmVars
<1>1. run \in [Dispatches -> RunStates \cup {"NONE"}]
  BY DEF IInv, TypeOK
<1>2. RealRun' = [RealRun EXCEPT ![d] = TrueState(s)]
  BY <1>1 DEF RealRun
<1>3. ShownRow' = ShownRow /\ mission' = mission
  BY DEF ShownRow
<1>4. CASE s = run[d]
  <2>1. run' = run
    BY <1>1, <1>4
  <2>2. QED  BY <2>1, Unseen
<1>5. CASE s # run[d]
  <2>1. RealRun[d] \in {"none", "going"}
    BY <1>5 DEF RealRun, TrueState
  <2>2. TrueState(s) \in {"going"} \cup Promise!Endings
    BY <1>5 DEF TrueState, Settled, Promise!Endings
  <2>3. Promise!RunGoesOn(d)
    BY <1>2, <1>3, <2>1, <2>2 DEF Promise!RunGoesOn
  <2>4. QED  BY <2>3 DEF Promise!PrmNext
<1>6. QED  BY <1>4, <1>5

(* What a row shows changes with that row only.                            *)
LEMMA RowShows ==
    ASSUME IInv, NEW d \in Dispatches, NEW r, row' = [row EXCEPT ![d] = r]
    PROVE  ShownRow' = [ShownRow EXCEPT ![d] = ShownState(r)]
BY DEF ShownRow, IInv, TypeOK

(* What a row without a run shows.                                         *)
LEMMA UnlinkedShows ==
    ASSUME NEW r
    PROVE  /\ r.status = "ABSENT" => ShownState(r) = "absent"
           /\ r.status = "DISPATCHING" /\ ~r.linked => ShownState(r) = "sending"
           /\ r.status = "FAILED" /\ ~r.linked => ShownState(r) = "refused"
<1>1. CASE r.status = "ABSENT"
  BY <1>1 DEF ShownState
<1>2. CASE r.status = "DISPATCHING" /\ ~r.linked
  BY <1>2 DEF ShownState
<1>3. CASE r.status = "FAILED" /\ ~r.linked
  BY <1>3 DEF ShownState
<1>4. QED  BY <1>1, <1>2, <1>3

(* What a row that is linked shows: the end, or whether anybody still asks. *)
LEMMA LinkedShows ==
    ASSUME NEW r, r.linked, r.status # "ABSENT"
    PROVE  /\ Normalize(r.status) \in Settled => ShownState(r) = Normalize(r.status)
           /\ Normalize(r.status) \notin Settled => ShownState(r) \in Promise!Unended
BY DEF ShownState, Promise!Unended

(* The commit of a report shows the end the run had, hides it or leaves it *)
(* as it is, and the mission follows a run that did complete.              *)
LEMMA ReportIsKept ==
    ASSUME IInv, VerifyingIsEarned, NEW d \in Dispatches, row[d].linked,
           NEW l \in Missions, NEW seen \in RowStatuses, NEW w \in Words, Told(d, w), run' = run,
           row' = [row EXCEPT ![d].status = Flush(@, seen, w)],
           mission' = FlushMission(l, UpdateMissionFromDispatch(l, w))
    PROVE  [Promise!PrmNext]_Promise!prmVars
<1> DEFINE r == [row[d] EXCEPT !.status = Flush(row[d].status, seen, w)]
<1>1. row[d] \in [status : RowStatuses, linked : BOOLEAN] /\ row' = [row EXCEPT ![d] = r]
  BY DEF IInv, TypeOK
<1>2. r.linked /\ r.status \in {row[d].status, w}
  BY <1>1 DEF Flush
<1>3. row[d].status # "ABSENT" /\ w # "ABSENT"
  BY DEF IInv, Linkage, Words, OddWords, RunStates, Settled
<1>4. Told(d, row[d].status) /\ Told(d, r.status)
  BY <1>2 DEF IInv, Truth, Told
<1> HIDE DEF r
<1>5. ShownRow' = [ShownRow EXCEPT ![d] = ShownState(r)]
  BY <1>1, RowShows
<1>6. RealRun' = RealRun
  BY DEF RealRun
<1>7. Promise!MissionFollows
  <2>1. VerifyingIsEarned'
    BY EarnedByStep
  <2>2. QED  BY <2>1 DEF Promise!MissionFollows, VerifyingIsEarned, RealRun, TrueState, Settled
<1>8. /\ Normalize(row[d].status) \in Settled => ShownRow[d] = Normalize(row[d].status)
      /\ Normalize(row[d].status) \notin Settled => ShownRow[d] \in Promise!Unended
  BY <1>3, LinkedShows DEF ShownRow
<1>9. /\ Normalize(r.status) \in Settled => ShownState(r) = Normalize(r.status)
      /\ Normalize(r.status) \notin Settled => ShownState(r) \in Promise!Unended
  BY <1>2, <1>3, LinkedShows
<1>10. CASE ShownState(r) = ShownRow[d]
  <2>1. ShownRow' = ShownRow
    BY <1>5, <1>10 DEF ShownRow
  <2>2. Promise!Report
    BY <1>6, <1>7, <2>1 DEF Promise!Report
  <2>3. QED  BY <2>2 DEF Promise!PrmNext
<1>11. CASE Normalize(r.status) \in Settled /\ Normalize(row[d].status) \notin Settled
  <2>1. RealRun[d] = ShownState(r) /\ RealRun[d] \in Promise!Endings
    BY <1>4, <1>9, <1>11 DEF Told, RealRun, TrueState, Settled, Promise!Endings
  <2>2. Promise!ShowEnd(d)
    BY <1>5, <1>6, <1>7, <1>8, <1>11, <2>1 DEF Promise!ShowEnd
  <2>3. QED  BY <2>2 DEF Promise!PrmNext
<1>12. CASE Normalize(r.status) \notin Settled
  <2>1. ShownRow[d] \in Promise!Endings \cup Promise!Unended
    BY <1>8 DEF Settled, Promise!Endings
  <2>2. Promise!Hide(d)
    BY <1>5, <1>6, <1>7, <1>9, <1>12, <2>1 DEF Promise!Hide
  <2>3. QED  BY <2>2 DEF Promise!PrmNext
<1>13. CASE Normalize(r.status) \in Settled /\ Normalize(row[d].status) \in Settled
  <2>1. Normalize(r.status) = Normalize(row[d].status)
    BY <1>4, <1>13 DEF Told
  <2>2. QED  BY <1>8, <1>9, <1>10, <1>13, <2>1
<1>14. QED
  BY <1>11, <1>12, <1>13

--------------------------------------------------------------------------
(* One lemma per handler that is seen from outside.                        *)

(* A new dispatch is being sent.                                           *)
LEMMA CreateDispatchIsKept ==
    ASSUME IInv, NEW d \in Dispatches, CreateDispatch(d) PROVE Promise!PrmNext
<1> DEFINE r == [row[d] EXCEPT !.status = "DISPATCHING"]
<1>1. /\ row[d] \in [status : RowStatuses, linked : BOOLEAN]
      /\ row' = [row EXCEPT ![d] = r] /\ row[d].status = "ABSENT"
  BY DEF IInv, TypeOK, CreateDispatch
<1>2. ~row[d].linked
  BY <1>1 DEF IInv, Linkage, CreateDispatch
<1>3. ShownState(r) = "sending" /\ ShownRow[d] = "absent"
  <2>1. r.status = "DISPATCHING" /\ ~r.linked
    BY <1>1, <1>2
  <2> HIDE DEF r
  <2>2. ShownState(r) = "sending"
    BY <2>1, UnlinkedShows
  <2>3. ShownRow[d] = "absent"
    BY <1>1, UnlinkedShows DEF ShownRow
  <2>4. QED  BY <2>2, <2>3
<1> HIDE DEF r
<1>a. ShownRow' = [ShownRow EXCEPT ![d] = ShownState(r)]
  BY <1>1, RowShows
<1>4. ShownRow' = [ShownRow EXCEPT ![d] = "sending"]
  BY <1>a, <1>3
<1>5. RealRun' = RealRun /\ mission' = mission
  BY DEF CreateDispatch, RealRun
<1>6. Promise!Send(d)
  BY <1>3, <1>4, <1>5 DEF Promise!Send
<1>7. QED  BY <1>6 DEF Promise!PrmNext

(* The reply of the runtime opens the row, shows how the run ended, or     *)
(* names no run.                                                           *)
LEMMA FinishDispatchIsKept ==
    ASSUME IInv, NEW d \in Dispatches, FinishDispatch(d) PROVE Promise!PrmNext
<1> DEFINE w == call[d].word
           r == [status |-> w, linked |-> call[d].named]
<1>1. call[d] \in Requests /\ call[d].pc = "answered"
  BY DEF IInv, TypeOK, FinishDispatch
<1>2. w \in Words /\ Told(d, w)
  BY <1>1 DEF IInv, Truth, Requests
<1>3. ~row[d].linked /\ row[d].status = "DISPATCHING"
  BY <1>1 DEF IInv, Linkage
<1>4. ShownRow[d] = "sending" /\ w \notin {"ABSENT", "DISPATCHING"}
  BY <1>2, <1>3, UnlinkedShows DEF ShownRow, Words, OddWords, RunStates, Settled
<1>5. ShownRow' = [ShownRow EXCEPT ![d] = ShownState(r)]
  BY RowShows DEF FinishDispatch
<1>6. RealRun' = RealRun
  BY DEF FinishDispatch, RealRun
<1>7. mission'.status = mission.status
  BY <1>1 DEF FinishDispatch, FlushMission, Flush, IInv, TypeOK, Requests, Snapshots, Missions
<1>8. r.status = w
  OBVIOUS
<1>a. \/ ShownState(r) = "refused"
      \/ ShownState(r) \in Promise!Unended
      \/ Normalize(w) \in Settled /\ ShownState(r) = Normalize(w)
  BY <1>4, <1>8 DEF ShownState, Promise!Unended
<1> HIDE DEF r, w
<1>9. CASE ShownState(r) = "refused"
  <2>1. Promise!Refused(d)
    BY <1>4, <1>5, <1>6, <1>7, <1>9 DEF Promise!Refused
  <2>2. QED  BY <2>1 DEF Promise!PrmNext
<1>10. CASE ShownState(r) \in Promise!Unended
  <2>1. Promise!Accepted(d)
    BY <1>4, <1>5, <1>6, <1>7, <1>10 DEF Promise!Accepted
  <2>2. QED  BY <2>1 DEF Promise!PrmNext
<1>11. CASE Normalize(w) \in Settled /\ ShownState(r) = Normalize(w)
  <2>1. RealRun[d] = ShownState(r) /\ RealRun[d] \in Promise!Endings
    BY <1>2, <1>11 DEF Told, RealRun, TrueState, Settled, Promise!Endings
  <2>2. Promise!MissionFollows
    BY <1>7 DEF Promise!MissionFollows
  <2>3. Promise!ShowEnd(d)
    BY <1>4, <1>5, <1>6, <2>1, <2>2 DEF Promise!ShowEnd
  <2>4. QED  BY <2>3 DEF Promise!PrmNext
<1>12. QED  BY <1>a, <1>9, <1>10, <1>11

(* A refused dispatch shows as refused.                                    *)
LEMMA FailDispatchIsKept ==
    ASSUME IInv, NEW d \in Dispatches, FailDispatch(d) PROVE Promise!PrmNext
<1> DEFINE r == [row[d] EXCEPT !.status = "FAILED"]
<1>1. /\ row[d] \in [status : RowStatuses, linked : BOOLEAN]
      /\ row' = [row EXCEPT ![d] = r] /\ call[d].pc = "refused"
  BY DEF IInv, TypeOK, FailDispatch
<1>2. ~row[d].linked /\ row[d].status = "DISPATCHING"
  BY <1>1 DEF IInv, Linkage
<1>3. ShownState(r) = "refused" /\ ShownRow[d] = "sending"
  <2>1. r.status = "FAILED" /\ ~r.linked
    BY <1>1, <1>2
  <2> HIDE DEF r
  <2>2. ShownState(r) = "refused"
    BY <2>1, UnlinkedShows
  <2>3. ShownRow[d] = "sending"
    BY <1>2, UnlinkedShows DEF ShownRow
  <2>4. QED  BY <2>2, <2>3
<1> HIDE DEF r
<1>a. ShownRow' = [ShownRow EXCEPT ![d] = ShownState(r)]
  BY <1>1, RowShows
<1>4. ShownRow' = [ShownRow EXCEPT ![d] = "refused"]
  BY <1>a, <1>3
<1>5. RealRun' = RealRun /\ mission' = mission
  BY DEF FailDispatch, RealRun
<1>6. Promise!Refused(d)
  BY <1>3, <1>4, <1>5 DEF Promise!Refused
<1>7. QED  BY <1>6 DEF Promise!PrmNext

(* Runtimes start runs, let them go on and obey stops and approvals.       *)
LEMMA RuntimeIsKept ==
    ASSUME IInv, NEW d \in Dispatches,
           RuntimeAccepts(d) \/ RuntimeRefuses(d) \/ RunMoves(d) \/ RuntimeObeys(d)
    PROVE  [Promise!PrmNext]_Promise!prmVars
<1>1. CASE RuntimeAccepts(d) \/ RuntimeRefuses(d)
  <2>1. run[d] = "NONE"
    BY <1>1 DEF RuntimeAccepts, RuntimeRefuses, IInv, Linkage
  <2>2. PICK s \in RunStates \cup {"NONE"} : run' = [run EXCEPT ![d] = s]
    BY <1>1 DEF RuntimeAccepts, RuntimeRefuses, RunStates, Settled
  <2>3. run[d] \notin Settled
    BY <2>1 DEF Settled
  <2>4. UNCHANGED <<row, mission>>
    BY <1>1 DEF RuntimeAccepts, RuntimeRefuses
  <2>5. QED  BY <2>1, <2>2, <2>3, <2>4, RunsGoOn
<1>2. CASE RunMoves(d)
  <2>1. PICK s \in RunStates : run' = [run EXCEPT ![d] = s]
    BY <1>2 DEF RunMoves, RunStates, Settled
  <2>2. run[d] \notin Settled /\ s # "NONE"
    BY <1>2 DEF RunMoves, RunStates, Settled
  <2>3. UNCHANGED <<row, mission>>
    BY <1>2 DEF RunMoves
  <2>4. QED  BY <2>1, <2>2, <2>3, RunsGoOn
<1>3. CASE RuntimeObeys(d)
  <2>1. PICK s \in Controlled(run[d], control[d].kind) : run' = [run EXCEPT ![d] = s]
    BY <1>3 DEF RuntimeObeys
  <2>2. control[d] \in ControlRequests /\ control[d].pc = "sent"
    BY <1>3 DEF RuntimeObeys, IInv, TypeOK
  <2>3. run[d] \in RunStates /\ control[d].kind \in {"stop", "approval"}
    BY <2>2 DEF IInv, Linkage, ControlRequests
  <2>4. s \in RunStates /\ (run[d] \in Settled => s = run[d])
    BY <2>3, ControlledType
  <2>5. s # "NONE"
    BY <2>4 DEF RunStates, Settled
  <2>6. UNCHANGED <<row, mission>>
    BY <1>3 DEF RuntimeObeys
  <2>7. QED  BY <2>1, <2>4, <2>5, <2>6, RunsGoOn
<1>4. QED  BY <1>1, <1>2, <1>3

(* The answer to a poll.                                                   *)
LEMMA FinishSyncIsKept ==
    ASSUME IInv, VerifyingIsEarned, NEW c \in Callers, NEW d \in Dispatches, FinishSync(c, d)
    PROVE  [Promise!PrmNext]_Promise!prmVars
<1> DEFINE w == Normalize(poll[c][d].word)
           l == poll[c][d].saw.mission
           seen == poll[c][d].saw.status
<1>1. poll[c][d] \in PollRequests
  BY DEF IInv, TypeOK
<1>2. w \in Words /\ l \in Missions /\ seen \in RowStatuses
  BY <1>1, NormalizeType DEF PollRequests, Snapshots
<1>3. row[d].linked /\ Told(d, w)
  BY <1>1, NormalizeTwice
     DEF IInv, FinishSync, Linkage, Truth, Told, InFlight, PollRequests
<1>4. /\ run' = run /\ mission' = FlushMission(l, UpdateMissionFromDispatch(l, w))
      /\ row' = [row EXCEPT ![d].status = Flush(@, seen, w)]
  BY DEF FinishSync
<1> HIDE DEF w, l, seen
<1>5. QED  BY <1>2, <1>3, <1>4, ReportIsKept

(* The answer to a stop or an approval.                                    *)
LEMMA FinishControlIsKept ==
    ASSUME IInv, VerifyingIsEarned, NEW d \in Dispatches, FinishControl(d)
    PROVE  [Promise!PrmNext]_Promise!prmVars
<1> DEFINE w == Normalize(control[d].word)
           l == control[d].saw.mission
           seen == control[d].saw.status
<1>1. control[d] \in ControlRequests /\ control[d].pc = "answered"
  BY DEF IInv, TypeOK, FinishControl
<1>2. w \in Words /\ l \in Missions /\ seen \in RowStatuses
  BY <1>1, NormalizeType DEF ControlRequests, Snapshots
<1>3. row[d].linked /\ Told(d, w)
  BY <1>1, NormalizeTwice DEF IInv, Linkage, Truth, Told, ControlRequests
<1>4. /\ run' = run /\ mission' = FlushMission(l, UpdateMissionFromDispatch(l, w))
      /\ row' = [row EXCEPT ![d].status = Flush(@, seen, w)]
  BY DEF FinishControl
<1> HIDE DEF w, l, seen
<1>5. QED  BY <1>2, <1>3, <1>4, ReportIsKept

--------------------------------------------------------------------------
(* Every step is a step of the promise, or is not seen.                    *)
LEMMA StepIsKept ==
    ASSUME IInv, VerifyingIsEarned, [Next]_vars PROVE [Promise!PrmNext]_Promise!prmVars
<1>1. CASE UNCHANGED <<run, row, mission>>
  BY <1>1, Unseen
<1>2. ASSUME NEW d \in Dispatches, CreateDispatch(d) \/ FinishDispatch(d) \/ FailDispatch(d)
      PROVE  [Promise!PrmNext]_Promise!prmVars
  BY <1>2, CreateDispatchIsKept, FinishDispatchIsKept, FailDispatchIsKept
<1>3. ASSUME NEW d \in Dispatches,
             RuntimeAccepts(d) \/ RuntimeRefuses(d) \/ RunMoves(d) \/ RuntimeObeys(d)
      PROVE  [Promise!PrmNext]_Promise!prmVars
  BY <1>3, RuntimeIsKept
<1>4. ASSUME NEW c \in Callers, NEW d \in Dispatches, FinishSync(c, d)
      PROVE  [Promise!PrmNext]_Promise!prmVars
  BY <1>4, FinishSyncIsKept
<1>5. ASSUME NEW d \in Dispatches, FinishControl(d)
      PROVE  [Promise!PrmNext]_Promise!prmVars
  BY <1>5, FinishControlIsKept
<1>6. QED
  BY <1>1, <1>2, <1>3, <1>4, <1>5
     DEF Next, vars, OperatorSync, FailControl, BeginControl, Scan, CrashWorker, WorkerSync,
         WorkerSkips, RuntimeReports, FailSync, Tick, CrashFrontend

(* The handlers keep the safety part of the promise: what is shown of a    *)
(* run and asked of its mission is never invented and never contradicted,  *)
(* for any number of dispatches, workers, requests and crashes.            *)
THEOREM PromiseIsKept == Spec => Promise!PrmSafety
<1>1. Init => Promise!PrmInit
  BY UnlinkedShows DEF Init, Promise!PrmInit, RealRun, ShownRow, TrueState
<1>2. QED
  BY <1>1, StepIsKept, Invariance, VerifyingIsAlwaysEarned, PTL DEF Spec, Promise!PrmSafety

(* A row that reports an ending reports the end of its run.                *)
LEMMA EndingIsTold ==
    ASSUME IInv, NEW d \in Dispatches, row[d].linked, Reported(d) \in Endings
    PROVE  run[d] = Reported(d) /\ run[d] \in Settled
BY DEF IInv, Truth, Told, Reported, Normalize, Reports, OpenReports, Endings, Settled

(* A row that was linked to its run stays linked.                          *)
LEMMA LinkIsKept ==
    ASSUME IInv, [Next]_vars, NEW d \in Dispatches, row[d].linked
    PROVE  row'[d].linked
<1> USE DEF IInv, TypeOK
<1>1. ASSUME NEW e \in Dispatches, CreateDispatch(e) \/ FailDispatch(e)
      PROVE  row'[d].linked
  <2>1. row[e] \in [status : RowStatuses, linked : BOOLEAN]
    OBVIOUS
  <2>2. PICK s : row' = [row EXCEPT ![e].status = s]
    BY <1>1 DEF CreateDispatch, FailDispatch
  <2>3. row'[d].linked = row[d].linked
    BY <2>1, <2>2
  <2>4. QED  BY <2>3
<1>2. ASSUME NEW e \in Dispatches, FinishDispatch(e)
      PROVE  row'[d].linked
  BY <1>2 DEF FinishDispatch, Linkage
<1>3. ASSUME NEW e \in Dispatches, FinishControl(e) \/ \E c \in Callers : FinishSync(c, e)
      PROVE  row'[d].linked
  <2>1. row[e] \in [status : RowStatuses, linked : BOOLEAN]
    OBVIOUS
  <2>2. PICK s : row' = [row EXCEPT ![e].status = s]
    BY <1>3 DEF FinishControl, FinishSync
  <2>3. row'[d].linked = row[d].linked
    BY <2>1, <2>2
  <2>4. QED  BY <2>3
<1>4. CASE UNCHANGED row
  BY <1>4
<1>5. QED
  BY <1>1, <1>2, <1>3, <1>4
     DEF Next, vars, RuntimeAccepts, RuntimeRefuses, RunMoves, RuntimeObeys, OperatorSync,
         FailControl, BeginControl, Scan, CrashWorker, WorkerSync, WorkerSkips, RuntimeReports,
         FailSync, Tick, CrashFrontend

(* What every step reports next of a run that was taken over.              *)
LEMMA ReportFollows ==
    ASSUME IInv, [Next]_vars, NEW d \in Dispatches, row[d].linked
    PROVE  row'[d].linked /\ Reported(d)' \in MayFollow(Reported(d))
<1>1. IInv' /\ row'[d].linked
  BY StepIInv, LinkIsKept
<1>2. Reported(d) \in Reports /\ Reported(d)' \in Reports
  BY DEF Reported, Reports, OpenReports, Endings
<1>3. CASE Reported(d) \in Endings /\ Reported(d)' \in Endings
  <2>1. run[d] = Reported(d) /\ run'[d] = run[d]
    BY <1>3, EndingIsTold, EndIsFinal
  <2>2. (run[d] = Reported(d))'
    BY <1>1, <1>3
       DEF IInv, Truth, Told, Reported, Normalize, Reports, OpenReports, Endings, Settled
  <2>3. Reported(d)' = Reported(d)
    BY <2>1, <2>2
  <2>4. QED  BY <1>1, <1>3, <2>3 DEF MayFollow
<1>4. CASE Reported(d) \notin Endings \/ Reported(d)' \notin Endings
  BY <1>1, <1>2, <1>4 DEF MayFollow, Reports
<1>5. QED  BY <1>3, <1>4

(* The rows of dispatches keep to what the phases that read them assume:   *)
(* module CollaborationBus lets the rows move as DispatchReports allows,   *)
(* and the handlers of phases 1 to 3 never do anything else to the row of  *)
(* a run, for any number of dispatches, workers, requests and crashes.     *)
THEOREM RowsFollow == Spec => RowsFollowReports
<1>1. IInv /\ [Next]_vars =>
         [\A d \in Dispatches : row[d].linked =>
             row'[d].linked /\ Reported(d)' \in MayFollow(Reported(d))]_vars
  BY ReportFollows
<1>2. Spec => [][Next]_vars
  BY DEF Spec
<1>3. QED
  BY <1>1, <1>2, Invariance, PTL DEF RowsFollowReports

-----------------------------------------------------------------------------
(***************************************************************************)
(* The registry.  Above walks from manager to manager by a recursive       *)
(* function; what it says of a hierarchy is proved from the set of agents  *)
(* it visits.                                                              *)
(***************************************************************************)

(* Induction for a set of numbers.                                         *)
LEMMA NumbersByInduction ==
    ASSUME NEW S \in SUBSET Nat, 0 \in S, \A n \in S : n + 1 \in S
    PROVE  S = Nat
<1>1. SUFFICES ASSUME Nat \ S # {} PROVE FALSE
  OBVIOUS
<1>2. Nat \ S \in SUBSET Nat
  OBVIOUS
<1>3. \E n \in Nat \ S : \A m \in Nat \ S : ~(<<m, n>> \in OpToRel(<, Nat))
  BY <1>1, <1>2, NatLessThanWellFounded, WFMin
<1>4. PICK n \in Nat \ S : \A m \in Nat \ S : ~(m < n)
  BY <1>3 DEF OpToRel
<1>5. n - 1 \in Nat /\ n - 1 < n /\ n = (n - 1) + 1
  BY <1>4
<1>6. n - 1 \in S
  BY <1>4, <1>5
<1>7. QED  BY <1>4, <1>5, <1>6

(* The function Above is made of.                                          *)
Walk(a, n) ==
    CHOOSE up : up = [i \in 0..n |-> IF i = 0 THEN {a} ELSE {agent[b].manager : b \in up[i - 1] \ {None}}]

LEMMA WalkIsThere ==
    ASSUME NEW a, NEW n \in Nat
    PROVE  /\ Walk(a, n)[0] = {a}
           /\ \A i \in 0..n : i # 0 =>
                 Walk(a, n)[i] = {agent[b].manager : b \in Walk(a, n)[i - 1] \ {None}}
<1> DEFINE Is(up, k) == up = [i \in 0..k |-> IF i = 0 THEN {a} ELSE {agent[b].manager : b \in up[i - 1] \ {None}}]
           Lengths == {k \in Nat : \E up : Is(up, k)}
<1>1. 0 \in Lengths
  <2>1. Is([i \in 0..0 |-> {a}], 0)
    OBVIOUS
  <2>2. QED  BY <2>1
<1>2. ASSUME NEW k \in Lengths PROVE k + 1 \in Lengths
  <2>1. k \in Nat
    OBVIOUS
  <2>2. PICK up : Is(up, k)
    OBVIOUS
  <2> DEFINE next == [i \in 0..(k + 1) |->
                         IF i = k + 1 THEN {agent[b].manager : b \in up[k] \ {None}} ELSE up[i]]
  <2>3. \A i \in 0..k : up[i] = IF i = 0 THEN {a} ELSE {agent[b].manager : b \in up[i - 1] \ {None}}
    BY <2>2
  <2>4. next[k + 1] = {agent[b].manager : b \in next[k] \ {None}} /\ k + 1 # 0
    BY <2>1
  <2>5. ASSUME NEW i \in 0..k
        PROVE  next[i] = IF i = 0 THEN {a} ELSE {agent[b].manager : b \in next[i - 1] \ {None}}
    <3>1. next[i] = up[i]
      BY <2>1
    <3>2. CASE i = 0
      BY <2>3, <3>1, <3>2
    <3>3. CASE i # 0
      <4>1. next[i - 1] = up[i - 1]
        BY <2>1, <3>3
      <4>2. QED  BY <2>3, <3>1, <3>3, <4>1
    <3>4. QED  BY <3>2, <3>3
  <2>6. \A i \in 0..(k + 1) : next[i] = IF i = 0 THEN {a} ELSE {agent[b].manager : b \in next[i - 1] \ {None}}
    <3>1. \A i \in 0..(k + 1) : i = k + 1 \/ i \in 0..k
      BY <2>1
    <3>2. (k + 1) - 1 = k
      BY <2>1
    <3> HIDE DEF next
    <3>3. QED  BY <2>4, <2>5, <3>1, <3>2
  <2>7. Is(next, k + 1)
    <3>1. next = [i \in 0..(k + 1) |-> next[i]]
      OBVIOUS
    <3> HIDE DEF next
    <3>2. QED  BY <2>6, <3>1
  <2>8. \E up2 : Is(up2, k + 1)
    <3> HIDE DEF Is, next
    <3>1. QED  BY <2>7
  <2>9. k + 1 \in Nat
    BY <2>1
  <2>10. QED  BY <2>8, <2>9
<1>3. Lengths = Nat
  <2> HIDE DEF Is
  <2>1. Lengths \in SUBSET Nat
    OBVIOUS
  <2> HIDE DEF Lengths
  <2>2. QED  BY <1>1, <1>2, <2>1, NumbersByInduction
<1>4. \E up : Is(up, n)
  BY <1>3
<1>5. Is(Walk(a, n), n)
  BY <1>4 DEF Walk
<1>6. QED  BY <1>5

LEMMA AboveIsTheWalk ==
    ASSUME NEW a, NEW n \in Nat
    PROVE  Above(a, n) = (UNION {Walk(a, n)[i] : i \in 1..n}) \ {None}
BY DEF Above, Walk
(* Nobody is his own superior: in every set of agents somebody's manager   *)
(* is not in it.                                                           *)
Hierarchy(m) == \A S \in SUBSET Agents : S # {} => \E a \in S : m[a] \notin S

Managers == [a \in Agents |-> agent[a].manager]

LEMMA ManagersAre == \A a \in Agents : Managers[a] = agent[a].manager
BY DEF Managers

(* Whoever comes back to where he was has found a set that is closed.      *)
LEMMA NoWayBack ==
    ASSUME NEW m, Hierarchy(m), NEW x \in Nat, NEW y \in Nat, x < y,
           NEW f, \A i \in x..y : f[i] \in Agents, \A i \in x..(y - 1) : f[i + 1] = m[f[i]]
    PROVE  f[x] # f[y]
<1> SUFFICES ASSUME f[x] = f[y] PROVE FALSE
  OBVIOUS
<1> DEFINE S == {f[i] : i \in x..(y - 1)}
<1>1. S \in SUBSET Agents /\ S # {}
  <2>1. x \in x..(y - 1) /\ x..(y - 1) \subseteq x..y
    OBVIOUS
  <2>2. QED  BY <2>1
<1>2. ASSUME NEW i \in x..(y - 1) PROVE m[f[i]] \in S
  <2>1. m[f[i]] = f[i + 1]
    OBVIOUS
  <2>2. CASE i = y - 1
    <3>1. i + 1 = y /\ x \in x..(y - 1)
      BY <2>2
    <3>2. QED  BY <2>1, <3>1
  <2>3. CASE i # y - 1
    <3>1. i + 1 \in x..(y - 1)
      BY <2>3
    <3>2. QED  BY <2>1, <3>1
  <2>4. QED  BY <2>2, <2>3
<1>3. \A b \in S : m[b] \in S
  BY <1>2
<1> HIDE DEF S
<1>4. QED  BY <1>1, <1>3 DEF Hierarchy

(* Each agent has one manager, so at each step the walk has one place or   *)
(* none.                                                                   *)
LEMMA WalkIsNarrow ==
    ASSUME NEW a \in Agents, NEW n \in Nat, \A b \in Agents : agent[b].manager \in Agents \cup {None}
    PROVE  \A i \in 0..n : \/ Walk(a, n)[i] = {}
                           \/ \E b \in Agents \cup {None} : Walk(a, n)[i] = {b}
<1> DEFINE w == Walk(a, n)
           Narrow(i) == w[i] = {} \/ \E b \in Agents \cup {None} : w[i] = {b}
           S == {i \in Nat : i <= n => Narrow(i)}
<1>1. 0 \in S
  BY WalkIsThere
<1>2. ASSUME NEW i \in S PROVE i + 1 \in S
  <2>1. i \in Nat /\ i + 1 \in Nat
    OBVIOUS
  <2>2. ASSUME i + 1 <= n PROVE Narrow(i + 1)
    <3>1. i + 1 \in 0..n /\ i + 1 # 0 /\ (i + 1) - 1 = i /\ i <= n
      BY <2>1, <2>2
    <3>2. w[i + 1] = {agent[b].manager : b \in w[i] \ {None}}
      BY <3>1, WalkIsThere
    <3>3. Narrow(i)
      BY <3>1
    <3>4. CASE w[i] \ {None} = {}
      BY <3>2, <3>4
    <3>5. CASE w[i] \ {None} # {}
      <4>1. PICK b \in Agents : w[i] = {b} /\ b # None
        BY <3>3, <3>5
      <4>2. w[i + 1] = {agent[b].manager}
        BY <3>2, <4>1
      <4>3. QED  BY <4>2
    <3>6. QED  BY <3>4, <3>5
  <2>3. QED  BY <2>1, <2>2
<1>3. S = Nat
  <2>1. S \in SUBSET Nat
    OBVIOUS
  <2> HIDE DEF S
  <2>2. QED  BY <1>1, <1>2, <2>1, NumbersByInduction
<1>4. \A i \in 0..n : Narrow(i)
  BY <1>3
<1>5. QED  BY <1>4

(* In a hierarchy nobody is above himself.                                 *)
LEMMA NobodyAboveHimself ==
    ASSUME Hierarchy(Managers), NEW a \in Agents, NEW n \in Nat,
           \A b \in Agents : agent[b].manager \in Agents \cup {None}
    PROVE  a \notin Above(a, n)
<1> SUFFICES ASSUME a \in Above(a, n) PROVE FALSE
  OBVIOUS
<1> DEFINE w == Walk(a, n)
<1>1. PICK k \in 1..n : a \in w[k]
  BY AboveIsTheWalk
<1>2. \A i \in 0..n : w[i] = {} \/ \E b \in Agents \cup {None} : w[i] = {b}
  BY WalkIsNarrow
<1>3. \A i \in 0..(k - 1) : w[i + 1] = {agent[b].manager : b \in w[i] \ {None}}
  <2>1. \A i \in 0..(k - 1) : i + 1 \in 0..n /\ i + 1 # 0 /\ (i + 1) - 1 = i
    OBVIOUS
  <2>2. QED  BY <2>1, WalkIsThere
<1>4. w[0] = {a}
  BY WalkIsThere
<1> HIDE DEF w
<1> DEFINE Passed(i) == \E b \in Agents : w[i] = {b}
           S == {j \in Nat : j <= k => Passed(k - j)}
<1>5. 0 \in S
  <2>1. k \in 0..n /\ k - 0 = k
    OBVIOUS
  <2>2. w[k] = {a}
    BY <1>1, <1>2, <2>1
  <2>3. QED  BY <2>1, <2>2
<1>6. ASSUME NEW j \in S PROVE j + 1 \in S
  <2>1. j \in Nat /\ j + 1 \in Nat
    OBVIOUS
  <2>2. ASSUME j + 1 <= k PROVE Passed(k - (j + 1))
    <3> DEFINE i == k - (j + 1)
    <3>1. i \in 0..(k - 1) /\ i \in 0..n /\ i + 1 = k - j /\ j <= k
      BY <2>1, <2>2
    <3>2. Passed(i + 1)
      BY <3>1
    <3> HIDE DEF i
    <3>3. w[i] \ {None} # {}
      BY <1>3, <3>1, <3>2
    <3>4. PICK b \in Agents \cup {None} : w[i] = {b}
      BY <1>2, <3>1, <3>3
    <3>5. b \in Agents
      BY <3>3, <3>4
    <3>6. QED  BY <3>4, <3>5 DEF i
  <2>3. QED  BY <2>1, <2>2
<1>7. S = Nat
  <2>1. S \in SUBSET Nat
    OBVIOUS
  <2> HIDE DEF S
  <2>2. QED  BY <1>5, <1>6, <2>1, NumbersByInduction
<1>8. \A i \in 0..k : Passed(i)
  <2>1. ASSUME NEW i \in 0..k PROVE Passed(i)
    <3>1. k - i \in S /\ k - i <= k /\ k - (k - i) = i
      BY <1>7
    <3>2. QED  BY <3>1
  <2>2. QED  BY <2>1
<1> DEFINE f == [i \in 0..k |-> CHOOSE b \in Agents : w[i] = {b}]
<1>9. \A i \in 0..k : f[i] \in Agents /\ w[i] = {f[i]}
  BY <1>8
<1> HIDE DEF f
<1>10. \A i \in 0..(k - 1) : f[i + 1] = Managers[f[i]]
  <2>1. ASSUME NEW i \in 0..(k - 1) PROVE f[i + 1] = Managers[f[i]]
    <3>1. i \in 0..k /\ i + 1 \in 0..k
      OBVIOUS
    <3>2. f[i] \in Agents /\ w[i] = {f[i]} /\ w[i + 1] = {f[i + 1]}
      BY <1>9, <3>1
    <3>3. f[i] # None
      BY <3>2, RegistryAssumption
    <3>4. {f[i + 1]} = {agent[f[i]].manager}
      BY <1>3, <3>2, <3>3
    <3>5. QED  BY <3>2, <3>4, ManagersAre
  <2>2. QED  BY <2>1
<1>11. f[0] = a /\ f[k] = a
  <2>1. 0 \in 0..k /\ k \in 0..k /\ k \in 0..n
    OBVIOUS
  <2>2. w[0] = {f[0]} /\ w[k] = {f[k]}
    BY <1>9, <2>1
  <2>3. QED  BY <1>1, <1>4, <2>2
<1>12. f[0] # f[k]
  BY <1>9, <1>10, NoWayBack
<1>13. QED  BY <1>11, <1>12

(* A manager who passes validate_manager does not close a circle: were     *)
(* there one, the walk from him would never leave it and never meet the    *)
(* agent, and has more steps than there are agents.                        *)
LEMMA ValidManagerKeepsHierarchy ==
    ASSUME Hierarchy(Managers), NEW a \in Agents, NEW v \in Agents \cup {None}, ManagerValid(a, v),
           \A b \in Agents : agent[b].manager \in Agents \cup {None}
    PROVE  Hierarchy([Managers EXCEPT ![a] = v])
<1> DEFINE N == Cardinality(Agents)
           w == Walk(v, N)
           new == [Managers EXCEPT ![a] = v]
<1> SUFFICES ASSUME NEW S \in SUBSET Agents, S # {}, \A b \in S : new[b] \in S PROVE FALSE
  BY DEF Hierarchy
<1>1. new[a] = v /\ \A b \in Agents \ {a} : new[b] = agent[b].manager
  BY DEF Managers
<1>2. a \in S
  <2>1. SUFFICES ASSUME a \notin S PROVE FALSE
    OBVIOUS
  <2>2. \A b \in S : Managers[b] \in S
    BY <1>1, <2>1, ManagersAre
  <2>3. QED  BY <2>2 DEF Hierarchy
<1>3. v \in S /\ v # None /\ v \in Agents /\ v # a /\ a \notin Above(v, N)
  BY <1>1, <1>2, RegistryAssumption DEF ManagerValid
<1>4. N \in Nat
  BY RegistryAssumption, FS_CardinalityType
<1> HIDE DEF N, new
<1>5. w[0] = {v} /\ \A i \in 0..N : i # 0 => w[i] = {agent[b].manager : b \in w[i - 1] \ {None}}
  <2>1. Walk(v, N)[0] = {v}
    BY <1>4, WalkIsThere
  <2>2. \A i \in 0..N : i # 0 =>
           Walk(v, N)[i] = {agent[b].manager : b \in Walk(v, N)[i - 1] \ {None}}
    BY <1>4, WalkIsThere
  <2>3. QED  BY <2>1, <2>2
<1>6. \A i \in 1..N : \A b \in w[i] : b = None \/ b # a
  <2>1. Above(v, N) = (UNION {Walk(v, N)[i] : i \in 1..N}) \ {None}
    BY <1>4, AboveIsTheWalk
  <2>2. ASSUME NEW i \in 1..N, NEW b \in w[i], b # None PROVE b # a
    <3>1. b \in Above(v, N)
      BY <2>1, <2>2
    <3>2. QED  BY <1>3, <3>1
  <2>3. QED  BY <2>2
<1> HIDE DEF w
<1> DEFINE Inside(i) == \E b \in S \ {a} : w[i] = {b}
           T == {i \in Nat : i <= N => Inside(i)}
<1>7. 0 \in T
  BY <1>3, <1>5
<1>8. ASSUME NEW i \in T PROVE i + 1 \in T
  <2>1. i \in Nat /\ i + 1 \in Nat
    OBVIOUS
  <2>2. ASSUME i + 1 <= N PROVE Inside(i + 1)
    <3>1. i <= N /\ i + 1 \in 0..N /\ i + 1 \in 1..N /\ i + 1 # 0 /\ (i + 1) - 1 = i
      BY <1>4, <2>1, <2>2
    <3>2. PICK b \in S \ {a} : w[i] = {b}
      BY <3>1
    <3>3. agent[b].manager \in S /\ b # None
      BY <1>1, <3>2, RegistryAssumption
    <3>4. w[i + 1] = {agent[b].manager}
      BY <1>5, <3>1, <3>2, <3>3
    <3>5. agent[b].manager # a
      BY <1>6, <3>1, <3>3, <3>4, RegistryAssumption
    <3>6. QED  BY <3>3, <3>4, <3>5
  <2>3. QED  BY <2>1, <2>2
<1>9. T = Nat
  <2>1. T \in SUBSET Nat
    OBVIOUS
  <2> HIDE DEF T
  <2>2. QED  BY <1>7, <1>8, <2>1, NumbersByInduction
<1>10. \A i \in 0..N : Inside(i)
  BY <1>4, <1>9
<1> DEFINE f == [i \in 0..N |-> CHOOSE b \in S \ {a} : w[i] = {b}]
<1>11. f \in [0..N -> Agents] /\ \A i \in 0..N : f[i] \in S \ {a} /\ w[i] = {f[i]}
  BY <1>10
<1> HIDE DEF f
<1>12. \A i \in 0..(N - 1) : f[i + 1] = Managers[f[i]]
  <2>1. ASSUME NEW i \in 0..(N - 1) PROVE f[i + 1] = Managers[f[i]]
    <3>1. i \in 0..N /\ i + 1 \in 0..N /\ i + 1 # 0 /\ (i + 1) - 1 = i
      BY <1>4
    <3>2. f[i] \in Agents /\ w[i] = {f[i]} /\ w[i + 1] = {f[i + 1]}
      BY <1>11, <3>1
    <3>3. f[i] # None
      BY <3>2, RegistryAssumption
    <3>4. {f[i + 1]} = {agent[f[i]].manager}
      BY <1>5, <3>1, <3>2, <3>3
    <3>5. QED  BY <3>2, <3>4, ManagersAre
  <2>2. QED  BY <2>1
<1>13. IsFiniteSet(0..N) /\ Cardinality(0..N) = N + 1
  BY <1>4, FS_Interval
<1>14. \E x, y \in 0..N : x # y /\ f[x] = f[y]
  <2>1. N < Cardinality(0..N) /\ IsFiniteSet(Agents)
    BY <1>4, <1>13, RegistryAssumption
  <2>2. Cardinality(Agents) < Cardinality(0..N)
    BY <2>1 DEF N
  <2>3. f \in [0..N -> Agents]
    BY <1>11
  <2>4. PICK K : K = 0..N
    OBVIOUS
  <2>5. IsFiniteSet(K) /\ IsFiniteSet(Agents) /\ Cardinality(Agents) < Cardinality(K) /\ f \in [K -> Agents]
    BY <1>13, <2>1, <2>2, <2>3, <2>4
  <2>6. \E x, y \in K : x # y /\ f[x] = f[y]
    BY <2>5, FS_PigeonHole
  <2>7. QED  BY <2>4, <2>6
<1>15. PICK x \in 0..N, y \in 0..N : x < y /\ f[x] = f[y]
  BY <1>4, <1>14
<1>16. /\ x \in Nat /\ y \in Nat /\ \A i \in x..y : f[i] \in Agents
       /\ \A i \in x..(y - 1) : f[i + 1] = Managers[f[i]]
  <2>1. x..y \subseteq 0..N /\ x..(y - 1) \subseteq 0..(N - 1)
    BY <1>4
  <2>2. QED  BY <1>11, <1>12, <2>1
<1>17. QED  BY <1>15, <1>16, NoWayBack

(* An agent nobody reports to may get any manager but himself.             *)
LEMMA NewAgentKeepsHierarchy ==
    ASSUME NEW m \in [Agents -> Agents \cup {None}], Hierarchy(m), NEW b \in Agents,
           NEW v \in (Agents \ {b}) \cup {None}, \A a \in Agents : m[a] # b
    PROVE  Hierarchy([m EXCEPT ![b] = v])
<1> DEFINE new == [m EXCEPT ![b] = v]
<1> SUFFICES ASSUME NEW S \in SUBSET Agents, S # {}, \A a \in S : new[a] \in S PROVE FALSE
  BY DEF Hierarchy
<1>1. b \notin S \/ v \in S
  OBVIOUS
<1>2. S \ {b} # {}
  BY <1>1, RegistryAssumption
<1>3. \A a \in S \ {b} : m[a] \in S \ {b}
  OBVIOUS
<1>4. QED  BY <1>2, <1>3 DEF Hierarchy
-----------------------------------------------------------------------------
(***************************************************************************)
(* The invariant.  On the registry: unless two patches crossed, a patch    *)
(* that nobody overtook is as sound as when it was validated.  On the      *)
(* scheduler: a session's copies of tasks agree with the table in all that *)
(* decides a route, but for the copies that are late and the tasks that    *)
(* were overwritten; and what a task was failed over from is excluded.     *)
(***************************************************************************)
PatchRows == [pc : {"new", "loaded", "done"}, agent : Agents \cup {None}, change : Changes,
              row : AgentRows, late : BOOLEAN]

(* A patch on a row nobody has patched since it was loaded: the copy has   *)
(* the row's status and manager, and the change keeps the hierarchy.       *)
PatchIsSound(q) ==
    LET p == patch[q] IN
    /\ p.agent \in Registered
    /\ p.row.status = agent[p.agent].status /\ p.row.manager = agent[p.agent].manager
    /\ p.change.column = "manager" =>
          /\ p.change.value \in Registered \cup {None}
          /\ Hierarchy([Managers EXCEPT ![p.agent] = p.change.value])

IdentityIsRight(a) == agent[a].identity = "ACTIVE" => agent[a].status = "ACTIVE"

RegistrySound ==
    /\ Hierarchy(Managers)
    /\ \A a \in Agents : agent[a].manager \in Registered \cup {None} /\ IdentityIsRight(a)
    /\ \A q \in Patches : patch[q].pc = "loaded" /\ ~patch[q].late => PatchIsSound(q)

RegistryTyped ==
    /\ agent \in [Agents -> AgentRows]
    /\ patch \in [Patches -> PatchRows]
    /\ \A q \in Patches : patch[q].pc = "loaded" => patch[q].agent \in Agents
    /\ raced \in BOOLEAN

RegistryInv == RegistryTyped /\ (raced \/ RegistrySound)

(* All that decides where a task goes, but for attempts and back-off.      *)
Alike(x, y) ==
    /\ x.status = y.status /\ x.target = y.target /\ x.key = y.key
    /\ x.context.status = y.context.status /\ x.context.selected = y.context.selected
    /\ x.context.failovers = y.context.failovers /\ x.context.force = y.context.force
    /\ x.context.runtimes = y.context.runtimes

(* A task's row, with the agents the task was failed over from.            *)
RowIsRight(rec, over) ==
    /\ rec.context.status = "SELECTED" => rec.target \in Agents /\ rec.context.selected = rec.target
    /\ rec.key => rec.target \in Agents
    /\ rec.target # "auto" => RuntimeOf[rec.target] \notin rec.context.runtimes
    /\ over \in Seq(Agents) /\ Len(over) = rec.context.failovers
    /\ \A i \in DOMAIN over : RuntimeOf[over[i]] \in rec.context.runtimes

SessionTyped(n) ==
    /\ DOMAIN n = {"pc", "rows", "agents", "late", "behind"}
    /\ n.pc \in {"unused", "closed", "tick", "dispatch", "reroute", "sent"}
    /\ n.behind \in BOOLEAN /\ n.late \subseteq DOMAIN n.rows
    /\ n.pc \notin {"unused", "closed"} =>
        DOMAIN n.rows \subseteq Tasks /\ \A t \in DOMAIN n.rows : n.rows[t] \in TaskRows
    /\ n.pc \in {"tick", "dispatch", "reroute"} => n.agents \in [Agents -> AgentRows]
    /\ n.pc = "sent" => \A t \in DOMAIN n.rows : n.rows[t].context.status = "SELECTED"

Recent(n) ==
    n.pc \notin {"unused", "closed"} =>
        \A t \in DOMAIN n.rows : t \in n.late \cup stale \/ Alike(n.rows[t], task[t])

(* A tick nobody has committed after.                                      *)
Alone(n) ==
    n.pc = "tick" /\ ~n.behind =>
        /\ \A t \in DOMAIN n.rows : n.rows[t].status = "QUEUED" /\ Alike(n.rows[t], task[t])
        /\ \A a \in Agents : n.agents[a].status = "ACTIVE" => n.agents[a].workload = Workload(a)

SessionInv(s) == SessionTyped(session[s]) /\ Recent(session[s]) /\ Alone(session[s])

SchedulerInv ==
    /\ task \in [Tasks -> TaskRows]
    /\ DOMAIN failed = Tasks /\ DOMAIN session = Sessions
    /\ \A t \in Tasks \ stale : RowIsRight(task[t], failed[t])
    /\ \A s \in Sessions : SessionInv(s)

RoutingInv == RegistryInv /\ SchedulerInv

-----------------------------------------------------------------------------
(* Changes of a row that leave its status, manager and identity alone.     *)
LEMMA RegistryIsLeft ==
    ASSUME RegistryInv, agent' \in [Agents -> AgentRows], patch' = patch, raced' = raced,
           \A a \in Agents : /\ agent'[a].status = agent[a].status
                             /\ agent'[a].manager = agent[a].manager
                             /\ agent'[a].identity = agent[a].identity
    PROVE  RegistryInv'
<1>1. RegistryTyped'
  BY DEF RegistryInv, RegistryTyped
<1>2. Managers' = Managers
  BY DEF Managers
<1>3. Registered' = Registered
  BY DEF Registered
<1>4. ASSUME RegistrySound PROVE RegistrySound'
  <2>1. Hierarchy(Managers)'
    BY <1>2, <1>4 DEF RegistrySound, Hierarchy
  <2>2. \A a \in Agents : (agent[a].manager \in Registered \cup {None} /\ IdentityIsRight(a))'
    BY <1>3, <1>4 DEF RegistrySound, IdentityIsRight
  <2>3. ASSUME NEW q \in Patches, patch[q].pc = "loaded", ~patch[q].late PROVE PatchIsSound(q)'
    <3>1. PatchIsSound(q) /\ patch[q].agent \in Agents
      BY <1>4, <2>3 DEF RegistrySound, RegistryInv, RegistryTyped
    <3>2. QED  BY <1>2, <1>3, <3>1 DEF PatchIsSound, Hierarchy
  <2>4. QED  BY <2>1, <2>2, <2>3 DEF RegistrySound
<1>5. QED  BY <1>1, <1>4 DEF RegistryInv

LEMMA CreateAgentStep ==
    ASSUME RegistryInv, NEW b \in Agents, CreateAgent(b)
    PROVE  RegistryInv'
<1>1. PICK m \in Registered \cup {None} :
          agent' = [agent EXCEPT ![b] = [status |-> "ACTIVE", availability |-> "AVAILABLE",
                                         workload |-> 0, manager |-> m, identity |-> "ACTIVE"]]
  BY DEF CreateAgent
<1>2. patch' = patch /\ raced' = raced /\ agent[b].status = "ABSENT"
  BY DEF CreateAgent
<1>3. agent \in [Agents -> AgentRows] /\ m \in Agents \cup {None} /\ m # b
  BY <1>2, RegistryAssumption DEF RegistryInv, RegistryTyped, Registered
<1>4. [status |-> "ACTIVE", availability |-> "AVAILABLE",
       workload |-> 0, manager |-> m, identity |-> "ACTIVE"] \in AgentRows
  BY <1>3 DEF AgentRows, Lifecycle, Availability, Identity
<1>5. RegistryTyped'
  <2>1. agent' \in [Agents -> AgentRows]
    BY <1>1, <1>3, <1>4
  <2>2. QED  BY <1>2, <2>1 DEF RegistryInv, RegistryTyped
<1>6. /\ agent'[b].manager = m /\ agent'[b].status = "ACTIVE" /\ agent'[b].identity = "ACTIVE"
      /\ \A a \in Agents \ {b} : agent'[a] = agent[a]
  BY <1>1, <1>3
<1>7. Registered' = Registered \cup {b}
  BY <1>6 DEF Registered
<1>8. Managers' = [Managers EXCEPT ![b] = m]
  BY <1>6 DEF Managers
<1>9. ASSUME RegistrySound PROVE RegistrySound'
  <2>1. Managers \in [Agents -> Agents \cup {None}] /\ \A a \in Agents : Managers[a] # b
    <3>1. b \notin Registered /\ b # None
      BY <1>2, RegistryAssumption DEF Registered
    <3>2. \A a \in Agents : agent[a].manager \in (Registered \cup {None}) /\ Registered \subseteq Agents
      BY <1>9 DEF RegistrySound, Registered
    <3>3. QED  BY <3>1, <3>2 DEF Managers
  <2>2. Hierarchy(Managers)'
    <3>1. Hierarchy([Managers EXCEPT ![b] = m])
      BY <1>3, <1>9, <2>1, NewAgentKeepsHierarchy DEF RegistrySound
    <3>2. QED  BY <1>8, <3>1 DEF Hierarchy
  <2>3. \A a \in Agents : (agent[a].manager \in Registered \cup {None} /\ IdentityIsRight(a))'
    BY <1>6, <1>7, <1>9 DEF RegistrySound, IdentityIsRight
  <2>4. ASSUME NEW q \in Patches, patch[q].pc = "loaded", ~patch[q].late PROVE PatchIsSound(q)'
    <3> DEFINE p == patch[q]
    <3>1. PatchIsSound(q)
      BY <1>9, <2>4 DEF RegistrySound
    <3>2. p.agent \in Registered /\ p.agent \in Agents /\ p.agent # b
      BY <1>2, <3>1 DEF PatchIsSound, Registered
    <3>3. p.agent \in Registered' /\ p.row.status = agent'[p.agent].status
          /\ p.row.manager = agent'[p.agent].manager
      BY <1>6, <1>7, <3>1, <3>2 DEF PatchIsSound
    <3>4. ASSUME p.change.column = "manager"
          PROVE  /\ p.change.value \in Registered' \cup {None}
                 /\ Hierarchy([Managers' EXCEPT ![p.agent] = p.change.value])
      <4> DEFINE v == p.change.value
                 old == [Managers EXCEPT ![p.agent] = v]
      <4>1. v \in Registered \cup {None} /\ Hierarchy(old)
        BY <3>1, <3>4 DEF PatchIsSound
      <4>2. v \in Agents \cup {None} /\ v # b
        BY <1>2, <4>1, RegistryAssumption DEF Registered
      <4>3. old \in [Agents -> Agents \cup {None}] /\ \A a \in Agents : old[a] # b
        BY <2>1, <4>2
      <4>4. [Managers' EXCEPT ![p.agent] = v] = [old EXCEPT ![b] = m]
        BY <1>8, <2>1, <3>2
      <4> HIDE DEF old, v
      <4>5. Hierarchy([old EXCEPT ![b] = m])
        BY <1>3, <4>1, <4>3, NewAgentKeepsHierarchy
      <4>6. Hierarchy([Managers' EXCEPT ![p.agent] = v])
        BY <4>4, <4>5
      <4>7. v \in Registered' \cup {None}
        BY <1>7, <4>1
      <4>8. QED  BY <4>6, <4>7 DEF v
    <3>5. QED  BY <1>2, <3>3, <3>4 DEF PatchIsSound, Hierarchy
  <2>5. QED  BY <1>2, <2>2, <2>3, <2>4 DEF RegistrySound
<1>10. QED  BY <1>2, <1>5, <1>9 DEF RegistryInv

LEMMA BeginPatchStep ==
    ASSUME RegistryInv, NEW q \in Patches, NEW a \in Agents, NEW c \in Changes, BeginPatch(q, a, c)
    PROVE  RegistryInv'
<1> DEFINE p == [pc |-> "loaded", agent |-> a, change |-> c, row |-> agent[a], late |-> FALSE]
<1>1. /\ patch' = [patch EXCEPT ![q] = p] /\ agent' = agent /\ raced' = raced
      /\ a \in Registered /\ (c.column = "manager" => ManagerValid(a, c.value))
  BY DEF BeginPatch
<1>2. agent \in [Agents -> AgentRows] /\ patch \in [Patches -> PatchRows]
  BY DEF RegistryInv, RegistryTyped
<1>3. p \in PatchRows
  BY <1>2 DEF PatchRows
<1>4. patch' \in [Patches -> PatchRows] /\ patch'[q] = p /\ \A r \in Patches \ {q} : patch'[r] = patch[r]
  BY <1>1, <1>2, <1>3
<1>5. RegistryTyped'
  <2>1. p.agent \in Agents
    OBVIOUS
  <2> HIDE DEF p
  <2>2. QED  BY <1>1, <1>4, <2>1 DEF RegistryInv, RegistryTyped
<1>6. ASSUME RegistrySound PROVE RegistrySound'
  <2>1. Hierarchy(Managers)' /\ Registered' = Registered /\ Managers' = Managers
    BY <1>1, <1>6 DEF RegistrySound, Hierarchy, Managers, Registered
  <2>2. \A b \in Agents : (agent[b].manager \in Registered \cup {None} /\ IdentityIsRight(b))'
    BY <1>1, <1>6, <2>1 DEF RegistrySound, IdentityIsRight
  <2>3. ASSUME NEW r \in Patches, patch'[r].pc = "loaded", ~patch'[r].late PROVE PatchIsSound(r)'
    <3>1. CASE r # q
      <4>1. PatchIsSound(r) /\ patch'[r] = patch[r]
        BY <1>4, <1>6, <2>3, <3>1 DEF RegistrySound
      <4>2. QED  BY <1>1, <2>1, <4>1 DEF PatchIsSound, Hierarchy
    <3>2. CASE r = q
      <4>1. ASSUME c.column = "manager"
            PROVE  c.value \in Registered \cup {None} /\ Hierarchy([Managers EXCEPT ![a] = c.value])
        <5> DEFINE v == c.value
        <5>1. ManagerValid(a, v)
          BY <1>1, <4>1
        <5>2. v \in Registered \cup {None} /\ v \in Agents \cup {None}
          BY <5>1 DEF ManagerValid, Registered
        <5>3. \A b \in Agents : agent[b].manager \in Agents \cup {None}
          BY <1>6 DEF RegistrySound, Registered
        <5> HIDE DEF v
        <5>4. Hierarchy([Managers EXCEPT ![a] = v])
          BY <1>6, <5>1, <5>2, <5>3, ValidManagerKeepsHierarchy DEF RegistrySound
        <5>5. QED  BY <5>2, <5>4 DEF v
      <4>2. /\ patch'[r].agent = a /\ patch'[r].change = c
            /\ patch'[r].row.status = agent[a].status /\ patch'[r].row.manager = agent[a].manager
        BY <1>4, <3>2
      <4>3. QED  BY <1>1, <2>1, <4>1, <4>2 DEF PatchIsSound, Hierarchy
    <3>3. QED  BY <3>1, <3>2
  <2>4. QED  BY <2>1, <2>2, <2>3 DEF RegistrySound
<1>7. QED  BY <1>1, <1>5, <1>6 DEF RegistryInv

LEMMA CommitPatchStep ==
    ASSUME RegistryInv, NEW q \in Patches, CommitPatch(q)
    PROVE  RegistryInv'
<1> DEFINE p == patch[q]
           b == p.agent
           column == p.change.column
           seen == IF p.change.column = "status" THEN p.change.value ELSE p.row.status
           made == [agent[b] EXCEPT !.status = Patched(q, "status"),
                                    !.availability = Patched(q, "availability"),
                                    !.manager = Patched(q, "manager"),
                                    !.identity = IdentityOf(seen)]
<1>1. /\ p.pc = "loaded" /\ raced' = (raced \/ p.late)
      /\ patch' = [r \in Patches |->
                    IF r = q THEN [NoPatch EXCEPT !.pc = "done"]
                    ELSE [patch[r] EXCEPT !.late = patch[r].pc = "loaded"]]
  BY DEF CommitPatch
<1>2. agent \in [Agents -> AgentRows] /\ p \in PatchRows /\ b \in Agents /\ agent[b] \in AgentRows
  BY <1>1 DEF RegistryInv, RegistryTyped
<1>3. agent' = [agent EXCEPT ![b] = made]
  <2>1. agent' = [agent EXCEPT ![b].status = Patched(q, "status"),
                               ![b].availability = Patched(q, "availability"),
                               ![b].manager = Patched(q, "manager"),
                               ![b].identity = IdentityOf(seen)]
    BY DEF CommitPatch
  <2>2. QED  BY <1>2, <2>1
<1>4. /\ p.change \in Changes /\ p.row \in AgentRows /\ p.late \in BOOLEAN
  BY <1>2 DEF PatchRows
<1>5. /\ column = "status" => p.change.value \in Lifecycle
      /\ column = "manager" => p.change.value \in Agents \cup {None}
      /\ column = "availability" => p.change.value \in Availability
  BY <1>4 DEF Changes
<1>6. /\ Patched(q, "status") \in Lifecycle \cup {"ABSENT"}
      /\ Patched(q, "availability") \in Availability
      /\ Patched(q, "manager") \in Agents \cup {None}
      /\ IdentityOf(seen) \in Identity
  <2>1. /\ agent[b].status \in Lifecycle \cup {"ABSENT"} /\ agent[b].availability \in Availability
        /\ agent[b].manager \in Agents \cup {None}
    BY <1>2 DEF AgentRows
  <2>2. QED  BY <1>5, <2>1 DEF Patched, Flushed, IdentityOf, Identity
<1>7. made \in AgentRows
  BY <1>2, <1>6 DEF AgentRows
<1>8. /\ made.status = Patched(q, "status") /\ made.manager = Patched(q, "manager")
      /\ made.identity = IdentityOf(seen)
  BY <1>2 DEF AgentRows
<1> HIDE DEF made
<1>9. /\ agent' \in [Agents -> AgentRows] /\ agent'[b] = made
      /\ \A a \in Agents \ {b} : agent'[a] = agent[a]
  BY <1>2, <1>3, <1>7
<1>10. /\ \A r \in Patches \ {q} : patch'[r] = [patch[r] EXCEPT !.late = patch[r].pc = "loaded"]
       /\ patch'[q] = [NoPatch EXCEPT !.pc = "done"] /\ DOMAIN patch' = Patches
  BY <1>1
<1>11. ASSUME NEW r \in Patches \ {q}
       PROVE  /\ patch'[r] \in PatchRows /\ patch'[r].pc = patch[r].pc /\ patch'[r].agent = patch[r].agent
              /\ patch'[r].late = (patch[r].pc = "loaded")
  <2>1. patch[r] \in PatchRows
    BY DEF RegistryInv, RegistryTyped
  <2>2. QED  BY <1>10, <2>1 DEF PatchRows
<1>12. patch'[q] \in PatchRows /\ patch'[q].pc = "done"
  <2>1. NoAgent \in AgentRows
    BY DEF NoAgent, AgentRows, Availability, Identity
  <2>2. [column |-> "other", value |-> None] \in Changes
    BY DEF Changes
  <2>3. NoPatch \in PatchRows
    BY <2>1, <2>2 DEF NoPatch, PatchRows
  <2>4. QED  BY <1>10, <2>3 DEF PatchRows
<1>13. RegistryTyped'
  <2>1. patch' \in [Patches -> PatchRows]
    <3>1. patch' = [r \in Patches |-> patch'[r]]
      BY <1>1
    <3>2. \A r \in Patches : patch'[r] \in PatchRows
      BY <1>11, <1>12
    <3>3. QED  BY <3>1, <3>2
  <2>2. \A r \in Patches : patch'[r].pc = "loaded" => patch'[r].agent \in Agents
    BY <1>11, <1>12 DEF RegistryInv, RegistryTyped
  <2>3. raced' \in BOOLEAN
    BY <1>1, <1>4 DEF RegistryInv, RegistryTyped
  <2>4. QED  BY <1>9, <2>1, <2>2, <2>3 DEF RegistryTyped
<1>14. ASSUME RegistrySound, ~p.late PROVE RegistrySound'
  <2>1. PatchIsSound(q)
    BY <1>1, <1>14 DEF RegistrySound
  <2>2. /\ b \in Registered /\ p.row.status = agent[b].status /\ p.row.manager = agent[b].manager
        /\ column = "manager" =>
             /\ p.change.value \in Registered \cup {None}
             /\ Hierarchy([Managers EXCEPT ![b] = p.change.value])
    BY <2>1 DEF PatchIsSound
  <2>3. /\ made.status = seen
        /\ made.manager = IF column = "manager" THEN p.change.value ELSE agent[b].manager
    BY <1>8, <2>2 DEF Patched, Flushed
  <2>4. Registered' = Registered
    <3>1. made.status # "ABSENT"
      BY <1>5, <2>2, <2>3 DEF Registered, Lifecycle
    <3>2. QED  BY <1>9, <2>2, <3>1 DEF Registered
  <2>5. Hierarchy(Managers)'
    <3>1. CASE column = "manager"
      <4>1. Managers' = [Managers EXCEPT ![b] = p.change.value]
        BY <1>9, <2>3, <3>1 DEF Managers
      <4>2. QED  BY <2>2, <3>1, <4>1 DEF Hierarchy
    <3>2. CASE column # "manager"
      <4>1. Managers' = Managers
        BY <1>9, <2>3, <3>2 DEF Managers
      <4>2. QED  BY <1>14, <4>1 DEF Hierarchy, RegistrySound
    <3>3. QED  BY <3>1, <3>2
  <2>6. \A a \in Agents : (agent[a].manager \in Registered \cup {None} /\ IdentityIsRight(a))'
    <3>1. agent'[b].manager \in Registered' \cup {None}
      BY <1>2, <1>9, <1>14, <2>2, <2>3, <2>4 DEF RegistrySound
    <3>2. agent'[b].identity = "ACTIVE" => agent'[b].status = "ACTIVE"
      BY <1>8, <1>9, <2>3 DEF IdentityOf
    <3>3. QED  BY <1>9, <1>14, <2>4, <3>1, <3>2 DEF RegistrySound, IdentityIsRight
  <2>7. \A r \in Patches : ~(patch'[r].pc = "loaded" /\ ~patch'[r].late)
    BY <1>11, <1>12
  <2>8. QED  BY <2>5, <2>6, <2>7 DEF RegistrySound
<1>15. QED  BY <1>1, <1>13, <1>14 DEF RegistryInv

LEMMA HeartbeatStep ==
    ASSUME RegistryInv, NEW a \in Agents, Heartbeat(a)
    PROVE  RegistryInv'
<1>1. PICK v \in Availability, w \in {agent[a].workload, 0} :
          agent' = [agent EXCEPT ![a].availability = v, ![a].workload = w]
  BY DEF Heartbeat
<1>2. agent \in [Agents -> AgentRows] /\ agent[a] \in AgentRows
  BY DEF RegistryInv, RegistryTyped
<1>3. agent' = [agent EXCEPT ![a] = [agent[a] EXCEPT !.availability = v, !.workload = w]]
  BY <1>1, <1>2
<1>4. [agent[a] EXCEPT !.availability = v, !.workload = w] \in AgentRows
  <2>1. agent[a].workload \in Nat /\ w \in Nat
    BY <1>2 DEF AgentRows
  <2>2. QED  BY <1>2, <2>1 DEF AgentRows
<1>5. agent' \in [Agents -> AgentRows]
  BY <1>2, <1>3, <1>4
<1>6. \A b \in Agents : /\ agent'[b].status = agent[b].status
                        /\ agent'[b].manager = agent[b].manager
                        /\ agent'[b].identity = agent[b].identity
  BY <1>2, <1>3 DEF AgentRows
<1>7. patch' = patch /\ raced' = raced
  BY DEF Heartbeat
<1>8. QED  BY <1>5, <1>6, <1>7, RegistryIsLeft

LEMMA RegistryStays ==
    ASSUME RegistryInv, UNCHANGED <<agent, patch, raced>>
    PROVE  RegistryInv'
<1>1. agent' \in [Agents -> AgentRows]
  BY DEF RegistryInv, RegistryTyped
<1>2. QED  BY <1>1, RegistryIsLeft

LEMMA AdministerStep == RegistryInv /\ Administer => RegistryInv'
<1> SUFFICES ASSUME RegistryInv, Administer PROVE RegistryInv'
  OBVIOUS
<1>1. CASE \E a \in Agents : CreateAgent(a)
  BY <1>1, CreateAgentStep
<1>2. CASE \E a \in Agents : Heartbeat(a)
  BY <1>2, HeartbeatStep
<1>3. CASE \E a \in Agents : DelegationFallsDue(a)
  BY <1>3, RegistryStays DEF DelegationFallsDue
<1>4. CASE \E a, b \in Agents : CreateDelegation(a, b)
  BY <1>4, RegistryStays DEF CreateDelegation
<1>5. CASE \E q \in Patches : CommitPatch(q)
  BY <1>5, CommitPatchStep
<1>6. CASE \E q \in Patches, a \in Agents, c \in Changes : BeginPatch(q, a, c)
  BY <1>6, BeginPatchStep
<1>7. QED  BY <1>1, <1>2, <1>3, <1>4, <1>5, <1>6 DEF Administer

-----------------------------------------------------------------------------
(***************************************************************************)
(* What the scheduler makes of a task's row.                               *)
(***************************************************************************)
LEMMA RowsAreTyped ==
    ASSUME NEW rec \in TaskRows
    PROVE  /\ rec.context \in Contexts /\ rec.status \in TaskStatuses
           /\ rec.target \in Agents \cup {"auto"} /\ rec.key \in BOOLEAN
           /\ DOMAIN rec = {"status", "target", "key", "context"}
BY DEF TaskRows

LEMMA RowFromItsParts ==
    ASSUME NEW status \in TaskStatuses, NEW target \in Agents \cup {"auto"}, NEW key \in BOOLEAN,
           NEW c \in Contexts
    PROVE  [status |-> status, target |-> target, key |-> key, context |-> c] \in TaskRows
BY DEF TaskRows

LEMMA RaisedIsABound == \A n \in 0..MaxRouteAttempts : Raised(n) \in 0..MaxRouteAttempts
BY RoutingAssumption DEF Raised

(* Rows that agree in all that decides a route are right together.         *)
LEMMA AlikeAreRight ==
    ASSUME NEW x, NEW y, Alike(x, y), NEW over, RowIsRight(x, over)
    PROVE  RowIsRight(y, over)
BY DEF Alike, RowIsRight

LEMMA UnroutedRow ==
    ASSUME NEW rec \in TaskRows
    PROVE  /\ Unrouted(rec) \in TaskRows
           /\ Unrouted(rec).target = rec.target /\ Unrouted(rec).key = rec.key
           /\ \A over : RowIsRight(rec, over) => RowIsRight(Unrouted(rec), over)
<1> DEFINE c == rec.context
           cover == c.attempts + 1 >= MaxRouteAttempts
           d == [c EXCEPT !.status = IF cover THEN "NO_ROUTE" ELSE "WAITING",
                          !.attempts = Raised(c.attempts),
                          !.selected = None, !.force = FALSE, !.wait = TRUE]
           made == [rec EXCEPT !.status = IF cover THEN "BLOCKED" ELSE rec.status, !.context = d]
<1>1. Unrouted(rec) = made
  BY RowsAreTyped DEF Unrouted, Contexts
<1>2. c \in Contexts
  BY RowsAreTyped
<1>3. d \in Contexts
  <2>1. Raised(c.attempts) \in 0..MaxRouteAttempts
    BY <1>2, RaisedIsABound DEF Contexts
  <2>2. QED  BY <1>2, <2>1 DEF Contexts
<1>4. /\ d.failovers = c.failovers /\ d.runtimes = c.runtimes /\ d.status # "SELECTED"
  BY <1>2 DEF Contexts
<1> HIDE DEF d
<1>5. made \in TaskRows /\ made.target = rec.target /\ made.key = rec.key /\ made.context = d
  <2>1. "BLOCKED" \in TaskStatuses
    BY DEF TaskStatuses
  <2>2. QED  BY <1>3, <2>1 DEF TaskRows
<1>6. QED  BY <1>1, <1>4, <1>5 DEF RowIsRight
LEMMA SelectedRow ==
    ASSUME NEW rec \in TaskRows, NEW a \in Agents
    PROVE  /\ Selected(rec, a) \in TaskRows
           /\ Selected(rec, a).target = a
           /\ Selected(rec, a).context.status = "SELECTED"
           /\ \A over : RowIsRight(rec, over) /\ RuntimeOf[a] \notin rec.context.runtimes
                        => RowIsRight(Selected(rec, a), over)
<1> DEFINE c == rec.context
           d == [c EXCEPT !.status = "SELECTED", !.selected = a,
                          !.attempts = Raised(c.attempts), !.force = FALSE, !.wait = FALSE]
           made == [rec EXCEPT !.target = a, !.context = d]
<1>1. Selected(rec, a) = made
  BY RowsAreTyped DEF Selected, Contexts
<1>2. c \in Contexts
  BY RowsAreTyped
<1>3. d \in Contexts
  <2>1. Raised(c.attempts) \in 0..MaxRouteAttempts
    BY <1>2, RaisedIsABound DEF Contexts
  <2>2. QED  BY <1>2, <2>1 DEF Contexts
<1>4. /\ d.failovers = c.failovers /\ d.runtimes = c.runtimes /\ d.status = "SELECTED" /\ d.selected = a
  BY <1>2 DEF Contexts
<1> HIDE DEF d
<1>5. made \in TaskRows /\ made.target = a /\ made.context = d
  BY <1>3 DEF TaskRows
<1>6. QED  BY <1>1, <1>4, <1>5 DEF RowIsRight

(* What is failed over from is excluded from then on.                      *)
LEMMA ExcludingRow ==
    ASSUME NEW rec \in TaskRows
    PROVE  LET c == rec.context
               d == Excluding(rec).context
           IN /\ Excluding(rec) \in TaskRows
              /\ d.failovers = c.failovers /\ d.selected = c.selected
              /\ c.runtimes \subseteq d.runtimes
              /\ c.selected \in Agents => RuntimeOf[c.selected] \in d.runtimes
<1> DEFINE c == rec.context
           a == c.selected
           d == [c EXCEPT !.agents = c.agents \cup {a}, !.runtimes = c.runtimes \cup {RuntimeOf[a]}]
           made == [rec EXCEPT !.context = d]
<1>1. c \in Contexts
  BY RowsAreTyped
<1>2. a \in Agents \cup {None}
  BY <1>1 DEF Contexts
<1>3. CASE a = None
  BY <1>3, RegistryAssumption DEF Excluding
<1>4. CASE a # None
  <2>1. Excluding(rec) = made
    BY <1>4, RowsAreTyped DEF Excluding
  <2>2. d \in Contexts
    BY <1>1, <1>2, <1>4, RoutingAssumption DEF Contexts
  <2>3. d.failovers = c.failovers /\ d.selected = a /\ d.runtimes = c.runtimes \cup {RuntimeOf[a]}
    BY <1>1 DEF Contexts
  <2> HIDE DEF d
  <2>4. made \in TaskRows /\ made.context = d
    BY <2>2 DEF TaskRows
  <2>5. QED  BY <2>1, <2>3, <2>4
<1>5. QED  BY <1>3, <1>4

LEMMA FailedOverRow ==
    ASSUME NEW rec \in TaskRows, rec.context.status = "SELECTED", MayFailOver(rec)
    PROVE  /\ FailedOver(rec) \in TaskRows
           /\ \A over : RowIsRight(rec, over)
                        => RowIsRight(FailedOver(rec), Append(over, rec.context.selected))
<1> DEFINE from == Excluding(rec)
           c == from.context
           d == [c EXCEPT !.status = "WAITING", !.failovers = rec.context.failovers + 1,
                          !.selected = None, !.force = TRUE, !.wait = FALSE]
           made == [from EXCEPT !.status = "QUEUED", !.target = "auto", !.key = FALSE, !.context = d]
<1>1. /\ from \in TaskRows /\ rec.context.runtimes \subseteq c.runtimes
      /\ rec.context.selected \in Agents => RuntimeOf[rec.context.selected] \in c.runtimes
  BY ExcludingRow
<1> HIDE DEF from
<1>2. FailedOver(rec) = made
  BY ZenonT(30), <1>1, RowsAreTyped DEF FailedOver, Contexts, from
<1>3. c \in Contexts /\ rec.context \in Contexts
  BY <1>1, RowsAreTyped
<1>4. rec.context.failovers \in Nat /\ rec.context.failovers + 1 \in 0..MaxFailovers
  BY <1>3, RoutingAssumption DEF Contexts, MayFailOver
<1>5. d \in Contexts
  BY <1>3, <1>4 DEF Contexts
<1>6. /\ d.failovers = rec.context.failovers + 1 /\ d.runtimes = c.runtimes /\ d.status = "WAITING"
  BY <1>3 DEF Contexts
<1> HIDE DEF d, c
<1>7. made \in TaskRows /\ made.target = "auto" /\ ~made.key /\ made.context = d
  <2>1. "QUEUED" \in TaskStatuses
    BY DEF TaskStatuses
  <2>2. QED  BY <1>1, <1>5, <2>1 DEF TaskRows
<1> HIDE DEF made
<1>8. ASSUME NEW over, RowIsRight(rec, over)
      PROVE  RowIsRight(made, Append(over, rec.context.selected))
  <2> DEFINE b == rec.context.selected
             more == Append(over, b)
  <2>1. over \in Seq(Agents) /\ b \in Agents /\ Len(over) = rec.context.failovers
        /\ \A i \in DOMAIN over : RuntimeOf[over[i]] \in rec.context.runtimes
    BY <1>8 DEF RowIsRight
  <2>2. more \in Seq(Agents) /\ Len(more) = Len(over) + 1
    BY <2>1
  <2>3. ASSUME NEW i \in DOMAIN more PROVE RuntimeOf[more[i]] \in c.runtimes
    <3>1. i \in 1..(Len(over) + 1) /\ Len(over) \in Nat
      BY <2>1, <2>2
    <3>2. CASE i = Len(over) + 1
      BY <1>1, <2>1, <3>2
    <3>3. CASE i # Len(over) + 1
      <4>1. i \in DOMAIN over /\ more[i] = over[i]
        BY <2>1, <3>1, <3>3
      <4>2. QED  BY <1>1, <2>1, <4>1
    <3>4. QED  BY <3>2, <3>3
  <2>4. Len(more) = rec.context.failovers + 1
    BY <2>1, <2>2
  <2> HIDE DEF more
  <2>5. RowIsRight(made, more)
    BY <1>6, <1>7, <2>2, <2>3, <2>4 DEF RowIsRight
  <2>6. QED  BY <2>5 DEF more
<1>9. QED  BY <1>2, <1>7, <1>8

LEMMA RequeuedRow ==
    ASSUME NEW rec \in TaskRows
    PROVE  /\ Requeued(rec) \in TaskRows
           /\ \A over : RowIsRight(rec, over) => RowIsRight(Requeued(rec), over)
<1> DEFINE from == Excluding(rec)
           c == from.context
           d == [c EXCEPT !.status = "WAITING", !.force = TRUE, !.wait = FALSE]
           made == [from EXCEPT !.status = "QUEUED", !.target = "auto", !.key = FALSE, !.context = d]
<1>1. /\ from \in TaskRows /\ rec.context.runtimes \subseteq c.runtimes
      /\ c.failovers = rec.context.failovers
  BY ExcludingRow
<1> HIDE DEF from
<1>2. Requeued(rec) = made
  BY <1>1, RowsAreTyped DEF Requeued, Contexts, from
<1>3. c \in Contexts
  BY <1>1, RowsAreTyped
<1>4. d \in Contexts
  BY <1>3 DEF Contexts
<1>5. /\ d.failovers = c.failovers /\ d.runtimes = c.runtimes /\ d.status = "WAITING"
  BY <1>3 DEF Contexts
<1> HIDE DEF d, c
<1>6. made \in TaskRows /\ made.target = "auto" /\ ~made.key /\ made.context = d
  <2>1. "QUEUED" \in TaskStatuses
    BY DEF TaskStatuses
  <2>2. QED  BY <1>1, <1>4, <2>1 DEF TaskRows
<1> HIDE DEF made
<1>7. QED  BY <1>1, <1>2, <1>5, <1>6 DEF RowIsRight

(* A status and a key alone change nothing of what is right.               *)
LEMMA MarkedRow ==
    ASSUME NEW rec \in TaskRows, NEW status \in TaskStatuses, NEW key \in BOOLEAN
    PROVE  LET made == [rec EXCEPT !.status = status, !.key = key] IN
           /\ made \in TaskRows /\ made.target = rec.target /\ made.context = rec.context
           /\ \A over : RowIsRight(rec, over) /\ (key => rec.key \/ rec.target \in Agents)
                        => RowIsRight(made, over)
<1> DEFINE made == [rec EXCEPT !.status = status, !.key = key]
<1>1. made \in TaskRows /\ made.target = rec.target /\ made.context = rec.context /\ made.key = key
  BY DEF TaskRows
<1> HIDE DEF made
<1>2. \A over : RowIsRight(rec, over) /\ (key => rec.key \/ rec.target \in Agents)
                => RowIsRight(made, over)
  BY <1>1 DEF RowIsRight
<1>3. QED  BY <1>1, <1>2 DEF made

(* SQLAlchemy's write of a row is a row; and of a copy that agrees with    *)
(* the table it stores what the session made of the copy.                  *)
LEMMA StoredRow ==
    ASSUME NEW t \in Tasks, task \in [Tasks -> TaskRows], NEW loaded \in TaskRows, NEW made \in TaskRows
    PROVE  /\ Stored(t, loaded, made) \in TaskRows
           /\ Alike(loaded, task[t]) => Alike(made, Stored(t, loaded, made))
<1> DEFINE rec == Stored(t, loaded, made)
           Fl(c) == Flushed(task[t][c], loaded[c], made[c])
<1>1. rec = [c \in {"status", "target", "key", "context"} |-> Fl(c)]
  BY RowsAreTyped DEF Stored
<1>2. /\ rec.status = Fl("status") /\ rec.target = Fl("target")
      /\ rec.key = Fl("key") /\ rec.context = Fl("context")
      /\ rec = [status |-> Fl("status"), target |-> Fl("target"), key |-> Fl("key"), context |-> Fl("context")]
  BY <1>1
<1>3. /\ Fl("status") \in TaskStatuses /\ Fl("target") \in Agents \cup {"auto"}
      /\ Fl("key") \in BOOLEAN /\ Fl("context") \in Contexts
  BY RowsAreTyped DEF Flushed
<1>4. rec \in TaskRows
  <2> HIDE DEF rec, Fl
  <2>1. QED  BY <1>2, <1>3, RowFromItsParts
<1>5. Alike(loaded, task[t]) => Alike(made, rec)
  <2>1. Alike(loaded, task[t]) => made.context.status = rec.context.status
                                  /\ made.context.selected = rec.context.selected
                                  /\ made.context.failovers = rec.context.failovers
                                  /\ made.context.force = rec.context.force
                                  /\ made.context.runtimes = rec.context.runtimes
    BY <1>2 DEF Flushed, Alike
  <2>2. Alike(loaded, task[t]) => made.status = rec.status /\ made.target = rec.target /\ made.key = rec.key
    BY <1>2 DEF Flushed, Alike
  <2>3. QED  BY <2>1, <2>2 DEF Alike
<1>6. QED  BY <1>4, <1>5

-----------------------------------------------------------------------------
(***************************************************************************)
(* Sessions: what they assign, what a commit outdates, and what it leaves. *)
(***************************************************************************)
LEMMA CountIsANumber ==
    ASSUME NEW S \in SUBSET Tasks
    PROVE  IsFiniteSet(S) /\ Cardinality(S) \in Nat
<1>1. IsFiniteSet(S)
  BY RoutingAssumption, FS_Subset
<1>2. QED  BY <1>1, FS_CardinalityType

LEMMA AssignedAgents ==
    ASSUME agent \in [Agents -> AgentRows], NEW s, NEW f, DOMAIN f \subseteq Tasks,
           DOMAIN f = {} \/ session[s].agents \in [Agents -> AgentRows]
    PROVE  /\ Assigned(s, f) \in [Agents -> AgentRows]
           /\ \A a \in Agents : /\ Assigned(s, f)[a].status = agent[a].status
                                /\ Assigned(s, f)[a].manager = agent[a].manager
                                /\ Assigned(s, f)[a].identity = agent[a].identity
<1> DEFINE n(a) == Cardinality({t \in DOMAIN f : f[t] = a})
           load(a) == session[s].agents[a].workload + n(a)
           state(a) == Flushed(agent[a].availability, session[s].agents[a].availability, "BUSY")
           made(a) == IF n(a) = 0 THEN agent[a]
                      ELSE [agent[a] EXCEPT !.workload = load(a), !.availability = state(a)]
<1>1. ASSUME NEW a \in Agents
      PROVE  /\ Assigned(s, f)[a] = made(a)
             /\ made(a) \in AgentRows
             /\ made(a).status = agent[a].status /\ made(a).manager = agent[a].manager
             /\ made(a).identity = agent[a].identity
  <2>1. agent[a] \in AgentRows
    OBVIOUS
  <2>2. Assigned(s, f)[a] = made(a)
    BY <2>1 DEF Assigned, AgentRows
  <2>3. CASE n(a) = 0
    BY <2>1, <2>2, <2>3
  <2>4. CASE n(a) # 0
    <3>1. DOMAIN f # {}
      <4>1. SUFFICES ASSUME DOMAIN f = {} PROVE n(a) = 0
        BY <2>4
      <4>2. {t \in DOMAIN f : f[t] = a} = {}
        BY <4>1
      <4>3. QED  BY <4>2, FS_EmptySet
    <3>2. n(a) \in Nat
      <4>1. {t \in DOMAIN f : f[t] = a} \in SUBSET Tasks
        OBVIOUS
      <4>2. QED  BY <4>1, CountIsANumber
    <3>3. session[s].agents[a].workload \in Nat
      BY <3>1 DEF AgentRows
    <3>4. load(a) \in Nat
      BY <3>2, <3>3
    <3>5. state(a) \in Availability
      BY <2>1 DEF Flushed, AgentRows, Availability
    <3> HIDE DEF n, load, state
    <3>6. made(a) = [agent[a] EXCEPT !.workload = load(a), !.availability = state(a)]
      BY <2>4
    <3>7. QED  BY <2>1, <2>2, <3>4, <3>5, <3>6 DEF AgentRows
  <2>5. QED  BY <2>3, <2>4
<1>2. Assigned(s, f) = [a \in Agents |-> Assigned(s, f)[a]]
  BY DEF Assigned
<1> HIDE DEF made
<1>3. QED  BY <1>1, <1>2

LEMMA ClosedIsTyped == SessionTyped(Closed) /\ Closed.pc = "closed"
BY DEF Closed, SessionTyped

(* A session that somebody else's commit of the tasks in S overtakes.      *)
LEMMA OutdatedSession ==
    ASSUME NEW r \in Sessions, SessionTyped(session[r]), NEW S
    PROVE  LET n == session[r]
               m == Outdate(session, S)[r]
           IN /\ SessionTyped(m) /\ m.pc = n.pc /\ m.rows = n.rows
              /\ m.late = n.late \cup (S \cap DOMAIN n.rows)
              /\ m.pc \notin {"unused", "closed"} => m.behind
<1> DEFINE n == session[r]
           m == [n EXCEPT !.late = n.late \cup (S \cap DOMAIN n.rows),
                          !.behind = n.pc \notin {"closed", "unused"}]
<1>1. Outdate(session, S)[r] = m
  BY DEF Outdate
<1>2. DOMAIN n = {"pc", "rows", "agents", "late", "behind"}
  BY DEF SessionTyped
<1>3. /\ m.pc = n.pc /\ m.rows = n.rows /\ m.agents = n.agents
      /\ m.late = n.late \cup (S \cap DOMAIN n.rows)
      /\ m.behind = (n.pc \notin {"closed", "unused"})
      /\ DOMAIN m = {"pc", "rows", "agents", "late", "behind"}
  BY <1>2
<1> HIDE DEF m
<1>4. SessionTyped(m)
  BY <1>3 DEF SessionTyped
<1>5. QED  BY <1>1, <1>3, <1>4

LEMMA OvertakenSession ==
    ASSUME NEW r \in Sessions, SessionInv(r), NEW S, session'[r] = Outdate(session, S)[r],
           \A t \in Tasks \ S : task'[t] = task[t], stale \subseteq stale'
    PROVE  SessionInv(r)'
<1> DEFINE n == session[r]
           m == session'[r]
<1>1. /\ SessionTyped(m) /\ m.pc = n.pc /\ m.rows = n.rows
      /\ m.late = n.late \cup (S \cap DOMAIN n.rows)
      /\ m.pc \notin {"unused", "closed"} => m.behind
  BY OutdatedSession DEF SessionInv
<1>2. Recent(session[r])'
  <2>1. SUFFICES ASSUME m.pc \notin {"unused", "closed"}, NEW t \in DOMAIN m.rows, t \notin m.late \cup stale'
                 PROVE  Alike(m.rows[t], task'[t])
    BY DEF Recent
  <2>2. t \in Tasks /\ t \notin S /\ t \notin n.late \cup stale
    BY <1>1, <2>1 DEF SessionTyped
  <2>3. Alike(n.rows[t], task[t])
    BY <1>1, <2>1, <2>2 DEF SessionInv, Recent
  <2>4. QED  BY <1>1, <2>2, <2>3
<1>3. Alone(session[r])'
  BY <1>1 DEF Alone
<1>4. SessionTyped(session[r])'
  BY <1>1 DEF SessionTyped
<1>5. QED  BY <1>2, <1>3, <1>4 DEF SessionInv

(* A session that goes on while the tables stay as they are, or change in  *)
(* what decides no route.                                                  *)
LEMMA UndisturbedSession ==
    ASSUME NEW r \in Sessions, SessionInv(r), session'[r] = session[r], stale' = stale,
           task \in [Tasks -> TaskRows], \A t \in Tasks : Alike(task[t], task'[t])
    PROVE  SessionInv(r)'
<1> DEFINE n == session[r]
<1>1. SessionTyped(session[r])'
  BY DEF SessionInv, SessionTyped
<1>2. Recent(session[r])'
  BY DEF SessionInv, Recent, Alike, SessionTyped
<1>3. Alone(session[r])'
  <2>1. SUFFICES ASSUME n.pc = "tick", ~n.behind
                 PROVE  /\ \A t \in DOMAIN n.rows : n.rows[t].status = "QUEUED" /\ Alike(n.rows[t], task'[t])
                        /\ \A a \in Agents : n.agents[a].status = "ACTIVE" => n.agents[a].workload = Workload(a)'
    BY DEF Alone
  <2>2. \A t \in DOMAIN n.rows : n.rows[t].status = "QUEUED" /\ Alike(n.rows[t], task'[t])
    BY <2>1 DEF SessionInv, Alone, Alike, SessionTyped
  <2>3. ASSUME NEW a \in Agents PROVE Workload(a)' = Workload(a)
    BY DEF Workload, Alike
  <2>4. QED  BY <2>1, <2>2, <2>3 DEF SessionInv, Alone
<1>4. QED  BY <1>1, <1>2, <1>3 DEF SessionInv

(* A commit: the rows made of the copies are right if the copies were, and *)
(* the session goes on closed, or with the row as it committed it.         *)
LEMMA CommitStep ==
    ASSUME RoutingInv, NEW s \in Sessions, NEW made, NEW f, NEW next, Commit(s, made, f, next),
           session[s].pc \notin {"unused", "closed"},
           DOMAIN made \subseteq DOMAIN session[s].rows,
           \A t \in DOMAIN made : made[t] \in TaskRows,
           DOMAIN f \subseteq Tasks, DOMAIN f = {} \/ session[s].pc # "sent",
           DOMAIN failed' = Tasks, \A t \in Tasks \ DOMAIN made : failed'[t] = failed[t],
           \A t \in DOMAIN made : RowIsRight(session[s].rows[t], failed[t])
                                  => RowIsRight(made[t], failed'[t]),
           SessionTyped(next), next.pc \in {"closed", "sent"},
           next.pc = "sent" => \A t \in DOMAIN next.rows : t \in DOMAIN made /\ next.rows[t] = made[t]
    PROVE  RoutingInv'
<1> DEFINE n == session[s]
<1>1. /\ task' = [t \in Tasks |-> IF t \in DOMAIN made THEN Stored(t, n.rows[t], made[t]) ELSE task[t]]
      /\ agent' = Assigned(s, f) /\ stale' = stale \cup (DOMAIN made \cap n.late)
      /\ session' = [Outdate(session, DOMAIN made) EXCEPT ![s] = next]
      /\ patch' = patch /\ raced' = raced
  BY DEF Commit
<1>2. /\ RegistryInv /\ agent \in [Agents -> AgentRows] /\ task \in [Tasks -> TaskRows]
      /\ \A r \in Sessions : SessionInv(r)
  BY DEF RoutingInv, SchedulerInv, RegistryInv, RegistryTyped
<1>3. /\ SessionTyped(n) /\ Recent(n) /\ DOMAIN n.rows \subseteq Tasks
      /\ \A t \in DOMAIN n.rows : n.rows[t] \in TaskRows
      /\ DOMAIN f = {} \/ n.agents \in [Agents -> AgentRows]
  BY <1>2 DEF SessionInv, SessionTyped
<1>4. RegistryInv'
  <2>1. /\ agent' \in [Agents -> AgentRows]
        /\ \A a \in Agents : /\ agent'[a].status = agent[a].status
                             /\ agent'[a].manager = agent[a].manager
                             /\ agent'[a].identity = agent[a].identity
    BY <1>1, <1>2, <1>3, AssignedAgents
  <2>2. QED  BY <1>1, <1>2, <2>1, RegistryIsLeft
<1>5. ASSUME NEW t \in DOMAIN made
      PROVE  /\ t \in Tasks /\ task'[t] \in TaskRows
             /\ t \notin stale' => Alike(n.rows[t], task[t]) /\ Alike(made[t], task'[t])
  <2>1. t \in Tasks /\ t \in DOMAIN n.rows /\ n.rows[t] \in TaskRows /\ made[t] \in TaskRows
    BY <1>3
  <2>2. task'[t] = Stored(t, n.rows[t], made[t])
    BY <1>1, <2>1
  <2>3. t \notin stale' => Alike(n.rows[t], task[t])
    BY <1>1, <1>3, <2>1 DEF Recent
  <2>4. QED  BY <1>2, <2>1, <2>2, <2>3, StoredRow
<1>6. \A t \in Tasks \ DOMAIN made : task'[t] = task[t]
  BY <1>1
<1>7. task' \in [Tasks -> TaskRows]
  <2>1. \A t \in Tasks : task'[t] \in TaskRows
    BY <1>2, <1>5, <1>6
  <2>2. task' = [t \in Tasks |-> task'[t]]
    BY <1>1
  <2>3. QED  BY <2>1, <2>2
<1>8. ASSUME NEW t \in Tasks \ stale' PROVE RowIsRight(task[t], failed[t])'
  <2>1. RowIsRight(task[t], failed[t])
    BY <1>1 DEF RoutingInv, SchedulerInv
  <2>2. CASE t \notin DOMAIN made
    BY <1>6, <2>1, <2>2 DEF RowIsRight
  <2>3. CASE t \in DOMAIN made
    <3>1. Alike(n.rows[t], task[t]) /\ Alike(made[t], task'[t])
      BY <1>5, <2>3
    <3>2. Alike(task[t], n.rows[t])
      BY <3>1 DEF Alike
    <3>3. RowIsRight(n.rows[t], failed[t])
      BY <2>1, <3>2, AlikeAreRight
    <3>4. RowIsRight(made[t], failed'[t])
      BY <2>3, <3>3
    <3>5. RowIsRight(task'[t], failed'[t])
      BY <3>1, <3>4, AlikeAreRight
    <3>6. QED  BY <3>5 DEF RowIsRight
  <2>4. QED  BY <2>2, <2>3
<1>9. ASSUME NEW r \in Sessions PROVE SessionInv(r)'
  <2>1. CASE r # s
    <3>1. session'[r] = Outdate(session, DOMAIN made)[r]
      BY <1>1, <2>1 DEF Outdate
    <3>2. QED  BY <1>1, <1>2, <1>6, <3>1, OvertakenSession
  <2>2. CASE r = s
    <3>1. session'[s] = next
      BY <1>1 DEF Outdate
    <3>2. SessionTyped(session[s])'
      BY <3>1 DEF SessionTyped
    <3>3. Recent(session[s])'
      <4>1. SUFFICES ASSUME next.pc = "sent", NEW t \in DOMAIN next.rows, t \notin stale'
                     PROVE  Alike(next.rows[t], task'[t])
        BY <3>1 DEF Recent
      <4>2. QED  BY <1>5, <4>1
    <3>4. Alone(session[s])'
      BY <3>1 DEF Alone
    <3>5. QED  BY <2>2, <3>2, <3>3, <3>4 DEF SessionInv
  <2>3. QED  BY <2>1, <2>2
<1>10. DOMAIN session' = Sessions
  BY <1>1 DEF Outdate
<1>11. SchedulerInv'
  BY <1>7, <1>8, <1>9, <1>10 DEF SchedulerInv
<1>12. QED  BY <1>4, <1>11 DEF RoutingInv

-----------------------------------------------------------------------------
(***************************************************************************)
(* The actions.                                                            *)
(***************************************************************************)
LEMMA EligibleIsRight ==
    ASSUME NEW t \in Tasks, NEW rec, NEW agents, NEW a \in Eligible(t, rec, agents)
    PROVE  a \in Agents /\ RuntimeOf[a] \notin rec.context.runtimes /\ agents[a].status = "ACTIVE"
BY RoutingAssumption DEF Eligible

LEMMA OnlyIsOneRow == \A t, v : DOMAIN Only(t, v) = {t} /\ Only(t, v)[t] = v
BY DEF Only

LEMMA EmptyAssignment == DOMAIN (<<>>) = {}
OBVIOUS

LEMMA FromAutoIsPart ==
    ASSUME NEW rows, NEW f
    PROVE  /\ \A t : t \in DOMAIN FromAuto(rows, f) <=> t \in DOMAIN f /\ rows[t].target = "auto"
           /\ \A t \in DOMAIN FromAuto(rows, f) : FromAuto(rows, f)[t] = f[t]
BY DEF FromAuto

(* What a session that is open has loaded.                                 *)
LEMMA OpenSession ==
    ASSUME RoutingInv, NEW s \in Sessions, session[s].pc \notin {"unused", "closed"}
    PROVE  /\ DOMAIN session[s].rows \subseteq Tasks
           /\ \A t \in DOMAIN session[s].rows : session[s].rows[t] \in TaskRows
           /\ session[s].pc = "sent" =>
                 \A t \in DOMAIN session[s].rows : session[s].rows[t].context.status = "SELECTED"
           /\ session[s].pc # "sent" => session[s].agents \in [Agents -> AgentRows]
BY DEF RoutingInv, SchedulerInv, SessionInv, SessionTyped

LEMMA RoutedRow ==
    ASSUME NEW rec \in TaskRows, NEW t \in Tasks, NEW agents,
           NEW a \in Eligible(t, rec, agents) \cup {None}
    PROVE  /\ Routed(rec, a) \in TaskRows
           /\ \A over : RowIsRight(rec, over) => RowIsRight(Routed(rec, a), over)
<1>1. CASE a = None
  BY <1>1, UnroutedRow DEF Routed
<1>2. CASE a # None
  BY <1>2, SelectedRow, EligibleIsRight DEF Routed
<1>3. QED  BY <1>1, <1>2

LEMMA SentIsTyped ==
    ASSUME NEW t \in Tasks, NEW made \in TaskRows, made.context.status = "SELECTED", NEW n,
           DOMAIN n = {"pc", "rows", "agents", "late", "behind"}, n.pc = "sent",
           DOMAIN n.rows = {t}, n.rows[t] = made, n.late = {}, n.behind = FALSE
    PROVE  SessionTyped(n)
BY DEF SessionTyped

LEMMA TickCommitStep ==
    ASSUME RoutingInv, NEW s \in Sessions, TickCommit(s)
    PROVE  RoutingInv'
<1> DEFINE rows == session[s].rows
           waiting == {t \in DOMAIN rows : NeedsRoute(rows[t]) /\ ~rows[t].context.wait}
<1>1. PICK f \in [waiting -> Agents \cup {None}] :
          /\ \A t \in waiting : f[t] \in Eligible(t, rows[t], session[s].agents) \cup {None}
          /\ Commit(s, [t \in waiting |-> Routed(rows[t], f[t])], FromAuto(rows, f), Closed)
  BY DEF TickCommit
<1>2. session[s].pc = "tick" /\ failed' = failed
  BY DEF TickCommit
<1>3. PICK made : made = [t \in waiting |-> Routed(rows[t], f[t])]
  OBVIOUS
<1>4. PICK g : g = FromAuto(rows, f)
  OBVIOUS
<1>5. Commit(s, made, g, Closed)
  BY <1>1, <1>3, <1>4
<1>6. DOMAIN rows \subseteq Tasks /\ (\A t \in DOMAIN rows : rows[t] \in TaskRows)
  BY <1>2, OpenSession
<1>7. DOMAIN f = waiting /\ waiting \subseteq DOMAIN rows
  OBVIOUS
<1>8. DOMAIN g \subseteq Tasks
  BY <1>4, <1>6, <1>7, FromAutoIsPart
<1> HIDE DEF waiting
<1>9. ASSUME NEW t \in DOMAIN made
      PROVE  made[t] \in TaskRows /\ (RowIsRight(rows[t], failed[t]) => RowIsRight(made[t], failed'[t]))
  <2>1. t \in waiting /\ made[t] = Routed(rows[t], f[t])
    BY <1>3
  <2>2. t \in Tasks /\ rows[t] \in TaskRows /\ f[t] \in Eligible(t, rows[t], session[s].agents) \cup {None}
    BY <1>1, <1>6, <1>7, <2>1
  <2>3. QED  BY <1>2, <2>1, <2>2, RoutedRow
<1>10. DOMAIN made \subseteq DOMAIN rows
  BY <1>3, <1>7
<1>11. DOMAIN failed' = Tasks /\ \A t \in Tasks \ DOMAIN made : failed'[t] = failed[t]
  BY <1>2 DEF RoutingInv, SchedulerInv
<1>12. QED  BY <1>2, <1>5, <1>8, <1>9, <1>10, <1>11, ClosedIsTyped, CommitStep

(* A commit of one row.                                                    *)
LEMMA CommitOneStep ==
    ASSUME RoutingInv, NEW s \in Sessions, NEW t \in Tasks, t \in DOMAIN session[s].rows,
           NEW made \in TaskRows, NEW f, NEW next, Commit(s, Only(t, made), f, next),
           session[s].pc \notin {"unused", "closed"},
           DOMAIN f \subseteq {t}, DOMAIN f = {} \/ session[s].pc # "sent",
           DOMAIN failed' = Tasks, \A u \in Tasks \ {t} : failed'[u] = failed[u],
           RowIsRight(session[s].rows[t], failed[t]) => RowIsRight(made, failed'[t]),
           \/ next = Closed
           \/ /\ SessionTyped(next) /\ next.pc = "sent"
              /\ DOMAIN next.rows = {t} /\ next.rows[t] = made
    PROVE  RoutingInv'
<1>1. PICK all : all = Only(t, made)
  OBVIOUS
<1>2. DOMAIN all = {t} /\ all[t] = made /\ Commit(s, all, f, next)
  BY <1>1, OnlyIsOneRow
<1>3. /\ SessionTyped(next) /\ next.pc \in {"closed", "sent"}
      /\ next.pc = "sent" => \A u \in DOMAIN next.rows : u \in DOMAIN all /\ next.rows[u] = all[u]
  BY <1>2, ClosedIsTyped
<1>4. DOMAIN f \subseteq Tasks /\ DOMAIN all \subseteq DOMAIN session[s].rows
  BY <1>2
<1>5. /\ \A u \in DOMAIN all : all[u] \in TaskRows
      /\ \A u \in DOMAIN all : RowIsRight(session[s].rows[u], failed[u]) => RowIsRight(all[u], failed'[u])
      /\ \A u \in Tasks \ DOMAIN all : failed'[u] = failed[u]
  BY <1>2
<1>6. QED  BY <1>2, <1>3, <1>4, <1>5, CommitStep

LEMMA DispatchCommitStep ==
    ASSUME RoutingInv, NEW s \in Sessions, NEW t \in Tasks, DispatchCommit(s, t)
    PROVE  RoutingInv'
<1> DEFINE rec == session[s].rows[t]
           sent(made) == [Closed EXCEPT !.pc = "sent", !.rows = Only(t, made)]
           sending(r) == [r EXCEPT !.status = "DISPATCHING", !.key = TRUE]
<1>1. session[s].pc = "dispatch" /\ t \in DOMAIN session[s].rows /\ failed' = failed
  BY DEF DispatchCommit
<1>2. rec \in TaskRows
  BY <1>1, OpenSession
<1>3. "DISPATCHING" \in TaskStatuses
  BY DEF TaskStatuses
<1>4. DOMAIN failed' = Tasks /\ \A u \in Tasks \ {t} : failed'[u] = failed[u]
  BY <1>1 DEF RoutingInv, SchedulerInv
<1>5. CASE ~NeedsRoute(rec) /\ Commit(s, Only(t, sending(rec)), <<>>, sent(sending(rec)))
  <2>1. PICK made : made = sending(rec)
    OBVIOUS
  <2>2. /\ made \in TaskRows /\ made.context = rec.context
        /\ RowIsRight(rec, failed[t]) => RowIsRight(made, failed'[t])
    <3>1. rec.target \in Agents
      BY <1>2, <1>5, RowsAreTyped DEF NeedsRoute
    <3>2. QED  BY <1>1, <1>2, <1>3, <2>1, <3>1, MarkedRow
  <2>3. made.context.status = "SELECTED"
    BY <1>5, <2>2 DEF NeedsRoute
  <2>4. PICK next : next = sent(made)
    OBVIOUS
  <2>5. SessionTyped(next) /\ next.pc = "sent" /\ DOMAIN next.rows = {t} /\ next.rows[t] = made
    <3>1. /\ DOMAIN next = {"pc", "rows", "agents", "late", "behind"} /\ next.pc = "sent"
          /\ next.rows = Only(t, made) /\ next.late = {} /\ next.behind = FALSE
      BY <2>4 DEF Closed
    <3>2. DOMAIN next.rows = {t} /\ next.rows[t] = made
      BY <3>1 DEF Only
    <3>3. QED  BY <2>2, <2>3, <3>1, <3>2, SentIsTyped
  <2>6. Commit(s, Only(t, made), <<>>, next)
    BY <1>5, <2>1, <2>4
  <2>7. QED  BY <1>1, <1>4, <2>2, <2>5, <2>6, EmptyAssignment, CommitOneStep
<1>6. CASE /\ session' = [session EXCEPT ![s] = Closed]
           /\ UNCHANGED <<registryVars, task, active, stale>>
  <2>1. RegistryInv'
    BY <1>6, RegistryStays DEF registryVars, RoutingInv
  <2>2. ASSUME NEW r \in Sessions PROVE SessionInv(r)'
    <3>1. CASE r = s
      <4>1. session'[s] = Closed
        BY <1>6 DEF RoutingInv, SchedulerInv
      <4>2. QED  BY <3>1, <4>1, ClosedIsTyped DEF SessionInv, SessionTyped, Recent, Alone
    <3>2. CASE r # s
      <4>1. session'[r] = session[r] /\ SessionInv(r) /\ task \in [Tasks -> TaskRows]
        BY <1>6, <3>2 DEF RoutingInv, SchedulerInv
      <4>2. QED  BY <1>6, <4>1, UndisturbedSession DEF Alike
    <3>3. QED  BY <3>1, <3>2
  <2>3. SchedulerInv'
    BY <1>1, <1>6, <2>2 DEF RoutingInv, SchedulerInv, RowIsRight
  <2>4. QED  BY <2>1, <2>3 DEF RoutingInv
<1>7. CASE Commit(s, Only(t, Unrouted(rec)), <<>>, Closed)
  <2>1. PICK made : made = Unrouted(rec)
    OBVIOUS
  <2>2. made \in TaskRows /\ (RowIsRight(rec, failed[t]) => RowIsRight(made, failed'[t]))
    BY <1>1, <1>2, <2>1, UnroutedRow
  <2>3. Commit(s, Only(t, made), <<>>, Closed)
    BY <1>7, <2>1
  <2>4. QED  BY <1>1, <1>4, <2>2, <2>3, EmptyAssignment, CommitOneStep
<1>8. CASE \E a \in Eligible(t, rec, session[s].agents) :
              Commit(s, Only(t, sending(Selected(rec, a))), FromAuto(session[s].rows, Only(t, a)),
                     sent(sending(Selected(rec, a))))
  <2>1. PICK a \in Eligible(t, rec, session[s].agents) :
              Commit(s, Only(t, sending(Selected(rec, a))), FromAuto(session[s].rows, Only(t, a)),
                     sent(sending(Selected(rec, a))))
    BY <1>8
  <2>2. PICK there : there = Selected(rec, a)
    OBVIOUS
  <2>3. PICK made : made = sending(there)
    OBVIOUS
  <2>4. /\ there \in TaskRows /\ there.context.status = "SELECTED" /\ there.target \in Agents
        /\ RowIsRight(rec, failed[t]) => RowIsRight(there, failed[t])
    BY <1>2, <2>2, SelectedRow, EligibleIsRight
  <2>5. /\ made \in TaskRows /\ made.context = there.context
        /\ RowIsRight(there, failed[t]) => RowIsRight(made, failed[t])
    BY <1>3, <2>3, <2>4, MarkedRow
  <2>6. PICK next : next = sent(made)
    OBVIOUS
  <2>7. SessionTyped(next) /\ next.pc = "sent" /\ DOMAIN next.rows = {t} /\ next.rows[t] = made
    <3>1. /\ DOMAIN next = {"pc", "rows", "agents", "late", "behind"} /\ next.pc = "sent"
          /\ next.rows = Only(t, made) /\ next.late = {} /\ next.behind = FALSE
      BY <2>6 DEF Closed
    <3>2. DOMAIN next.rows = {t} /\ next.rows[t] = made
      BY <3>1 DEF Only
    <3>3. QED  BY <2>4, <2>5, <3>1, <3>2, SentIsTyped
  <2>8. PICK one : one = Only(t, a)
    OBVIOUS
  <2>9. PICK g : g = FromAuto(session[s].rows, one)
    OBVIOUS
  <2>10. DOMAIN g \subseteq {t}
    BY <2>8, <2>9, FromAutoIsPart, OnlyIsOneRow
  <2>11. Commit(s, Only(t, made), g, next)
    BY <2>1, <2>2, <2>3, <2>6, <2>8, <2>9
  <2>12. QED  BY <1>1, <1>4, <2>4, <2>5, <2>7, <2>10, <2>11, CommitOneStep
<1>9. QED  BY <1>5, <1>6, <1>7, <1>8 DEF DispatchCommit

LEMMA DispatchAcceptedStep ==
    ASSUME RoutingInv, NEW s \in Sessions, NEW t \in Tasks, DispatchAccepted(s, t)
    PROVE  RoutingInv'
<1> DEFINE rec == session[s].rows[t]
<1>1. PICK made : made = [rec EXCEPT !.status = "RUNNING"]
  OBVIOUS
<1>2. /\ session[s].pc = "sent" /\ t \in DOMAIN session[s].rows /\ failed' = failed
      /\ Commit(s, Only(t, made), <<>>, Closed)
  BY <1>1 DEF DispatchAccepted
<1>3. rec \in TaskRows /\ rec.key \in BOOLEAN
  BY <1>2, OpenSession, RowsAreTyped
<1>4. made = [rec EXCEPT !.status = "RUNNING", !.key = rec.key] /\ "RUNNING" \in TaskStatuses
  BY <1>1, <1>3 DEF TaskStatuses, TaskRows
<1>5. made \in TaskRows /\ (RowIsRight(rec, failed[t]) => RowIsRight(made, failed'[t]))
  BY <1>2, <1>3, <1>4, MarkedRow
<1>6. DOMAIN failed' = Tasks /\ \A u \in Tasks \ {t} : failed'[u] = failed[u]
  BY <1>2 DEF RoutingInv, SchedulerInv
<1>7. QED  BY <1>2, <1>5, <1>6, EmptyAssignment, CommitOneStep

LEMMA DispatchRefusedStep ==
    ASSUME RoutingInv, NEW s \in Sessions, NEW t \in Tasks, DispatchRefused(s, t)
    PROVE  RoutingInv'
<1> DEFINE rec == session[s].rows[t]
<1>1. /\ session[s].pc = "sent" /\ t \in DOMAIN session[s].rows
      /\ Commit(s, Only(t, IF MayFailOver(rec) THEN FailedOver(rec) ELSE [rec EXCEPT !.status = "BLOCKED"]),
                <<>>, Closed)
      /\ failed' = IF MayFailOver(rec) THEN [failed EXCEPT ![t] = Append(@, rec.context.selected)] ELSE failed
  BY DEF DispatchRefused
<1>2. rec \in TaskRows /\ rec.key \in BOOLEAN /\ rec.context.status = "SELECTED"
  BY <1>1, OpenSession, RowsAreTyped
<1>3. DOMAIN failed' = Tasks /\ \A u \in Tasks \ {t} : failed'[u] = failed[u]
  BY <1>1 DEF RoutingInv, SchedulerInv
<1>4. CASE MayFailOver(rec)
  <2>1. PICK made : made = FailedOver(rec)
    OBVIOUS
  <2>2. Commit(s, Only(t, made), <<>>, Closed)
    BY <1>1, <1>4, <2>1
  <2>3. failed'[t] = Append(failed[t], rec.context.selected)
    BY <1>1, <1>4 DEF RoutingInv, SchedulerInv
  <2>4. made \in TaskRows /\ (RowIsRight(rec, failed[t]) => RowIsRight(made, failed'[t]))
    BY <1>2, <1>4, <2>1, <2>3, FailedOverRow
  <2>5. QED  BY <1>1, <1>3, <2>2, <2>4, EmptyAssignment, CommitOneStep
<1>5. CASE ~MayFailOver(rec)
  <2>1. PICK made : made = [rec EXCEPT !.status = "BLOCKED"]
    OBVIOUS
  <2>2. Commit(s, Only(t, made), <<>>, Closed)
    BY <1>1, <1>5, <2>1
  <2>3. made = [rec EXCEPT !.status = "BLOCKED", !.key = rec.key] /\ "BLOCKED" \in TaskStatuses
    BY <1>2, <2>1 DEF TaskStatuses, TaskRows
  <2>4. made \in TaskRows /\ (RowIsRight(rec, failed[t]) => RowIsRight(made, failed'[t]))
    BY <1>1, <1>2, <1>5, <2>3, MarkedRow
  <2>5. QED  BY <1>1, <1>3, <2>2, <2>4, EmptyAssignment, CommitOneStep
<1>6. QED  BY <1>4, <1>5

LEMMA RerouteCommitStep ==
    ASSUME RoutingInv, NEW s \in Sessions, NEW t \in Tasks, RerouteCommit(s, t)
    PROVE  RoutingInv'
<1> DEFINE loaded == session[s].rows[t]
<1>1. PICK rec : rec = Requeued(loaded)
  OBVIOUS
<1>2. PICK a \in Eligible(t, rec, session[s].agents) \cup {None} :
          Commit(s, Only(t, Routed(rec, a)), Only(t, a), Closed)
  BY <1>1 DEF RerouteCommit
<1>3. session[s].pc = "reroute" /\ t \in DOMAIN session[s].rows /\ failed' = failed
  BY DEF RerouteCommit
<1>4. rec \in TaskRows /\ (RowIsRight(loaded, failed[t]) => RowIsRight(rec, failed[t]))
  BY <1>1, <1>3, OpenSession, RequeuedRow
<1>5. PICK made : made = Routed(rec, a)
  OBVIOUS
<1>6. made \in TaskRows /\ (RowIsRight(rec, failed[t]) => RowIsRight(made, failed[t]))
  BY <1>4, <1>5, RoutedRow
<1>7. PICK f : f = Only(t, a)
  OBVIOUS
<1>8. Commit(s, Only(t, made), f, Closed) /\ DOMAIN f \subseteq {t}
  BY <1>2, <1>5, <1>7, OnlyIsOneRow
<1>9. DOMAIN failed' = Tasks /\ \A u \in Tasks \ {t} : failed'[u] = failed[u]
  BY <1>3 DEF RoutingInv, SchedulerInv
<1>10. QED  BY <1>3, <1>4, <1>6, <1>8, <1>9, CommitOneStep

(* A session is opened on the rows as they are.                            *)
LEMMA OpenStep ==
    ASSUME SchedulerInv, NEW s \in Sessions, NEW pc \in {"tick", "dispatch", "reroute"},
           NEW S \in SUBSET Tasks, NEW agents \in [Agents -> AgentRows], Open(s, pc, S, agents),
           task' = task, stale' = stale, failed' = failed,
           pc = "tick" => /\ \A t \in S : task[t].status = "QUEUED"
                          /\ \A a \in Agents : agents[a].status = "ACTIVE" => agents[a].workload = Workload(a)
    PROVE  SchedulerInv'
<1> DEFINE n == [pc |-> pc, rows |-> [t \in S |-> task[t]], agents |-> agents, late |-> {}, behind |-> FALSE]
<1>1. session' = [session EXCEPT ![s] = n] /\ DOMAIN session = Sessions /\ task \in [Tasks -> TaskRows]
  BY DEF Open, SchedulerInv
<1>2. /\ DOMAIN n = {"pc", "rows", "agents", "late", "behind"} /\ n.pc = pc /\ n.agents = agents
      /\ DOMAIN n.rows = S /\ n.late = {} /\ n.behind = FALSE
      /\ \A t \in S : n.rows[t] = task[t]
  OBVIOUS
<1> HIDE DEF n
<1>3. session'[s] = n
  BY <1>1
<1>4. SessionInv(s)'
  <2>1. SessionTyped(n)
    BY <1>1, <1>2 DEF SessionTyped
  <2>2. \A t \in S : Alike(n.rows[t], task'[t])
    BY <1>2 DEF Alike
  <2>3. \A a \in Agents : Workload(a)' = Workload(a)
    BY DEF Workload
  <2>4. Recent(session[s])'
    BY <1>2, <1>3, <2>2 DEF Recent
  <2>5. Alone(session[s])'
    BY <1>2, <1>3, <2>2, <2>3 DEF Alone
  <2>6. QED  BY <1>3, <2>1, <2>4, <2>5 DEF SessionInv, SessionTyped
<1>5. ASSUME NEW r \in Sessions \ {s} PROVE SessionInv(r)'
  <2>1. session'[r] = session[r] /\ SessionInv(r)
    BY <1>1 DEF SchedulerInv
  <2>2. QED  BY <1>1, <2>1, UndisturbedSession DEF Alike
<1>6. QED  BY <1>1, <1>4, <1>5 DEF SchedulerInv, RowIsRight

LEMMA ReconciliationStep ==
    ASSUME agent \in [Agents -> AgentRows], NEW late
    PROVE  /\ Reconciliation(late) \in [Agents -> AgentRows]
           /\ \A a \in Agents : LET rec == Reconciliation(late)[a] IN
                 /\ rec.status = agent[a].status /\ rec.manager = agent[a].manager
                 /\ rec.identity = agent[a].identity
                 /\ a \in Registered => rec.workload = Workload(a)
<1>1. ASSUME NEW a \in Agents
      PROVE  LET rec == Reconciliation(late)[a] IN
             /\ rec \in AgentRows
             /\ rec.status = agent[a].status /\ rec.manager = agent[a].manager
             /\ rec.identity = agent[a].identity
             /\ a \in Registered => rec.workload = Workload(a)
  <2> DEFINE count == Workload(a)
             state == IF agent[a].status # "ACTIVE" \/ (a \in late /\ a \in HeartbeatRequired) THEN "OFFLINE"
                      ELSE IF count > 0 THEN "BUSY"
                      ELSE IF agent[a].availability = "BUSY" THEN "AVAILABLE"
                      ELSE agent[a].availability
             made == [agent[a] EXCEPT !.workload = count, !.availability = state]
  <2>1. Reconciliation(late)[a] = IF a \in Registered THEN made ELSE agent[a]
    BY DEF Reconciliation, Reconciled
  <2>2. agent[a] \in AgentRows
    OBVIOUS
  <2>3. count \in Nat
    <3>1. {t \in Tasks : task[t].target = a /\ task[t].status \in ActiveTaskStatuses} \in SUBSET Tasks
      OBVIOUS
    <3>2. QED  BY <3>1, CountIsANumber DEF Workload
  <2>4. state \in Availability
    BY <2>2 DEF AgentRows, Availability
  <2> HIDE DEF count, state
  <2>5. /\ made \in AgentRows /\ made.status = agent[a].status /\ made.manager = agent[a].manager
        /\ made.identity = agent[a].identity /\ made.workload = count
    BY <2>2, <2>3, <2>4 DEF AgentRows
  <2>6. QED  BY <2>1, <2>2, <2>5 DEF count
<1>2. Reconciliation(late) = [a \in Agents |-> Reconciliation(late)[a]]
  BY DEF Reconciliation
<1>3. QED  BY <1>1, <1>2

LEMMA StayingStep ==
    ASSUME SchedulerInv, UNCHANGED <<task, session, failed, stale>>
    PROVE  SchedulerInv'
<1>1. ASSUME NEW r \in Sessions PROVE SessionInv(r)'
  BY UndisturbedSession DEF SchedulerInv, Alike
<1>2. QED  BY <1>1 DEF SchedulerInv, RowIsRight

LEMMA TickLoadStep ==
    ASSUME RoutingInv, NEW s \in Sessions, TickLoad(s)
    PROVE  RoutingInv'
<1> DEFINE waiting == {t \in Tasks : task[t].status = "QUEUED"}
<1>1. PICK late \in SUBSET HeartbeatRequired :
          /\ agent' = Reconciliation(late)
          /\ IF waiting = {} THEN UNCHANGED session ELSE Open(s, "tick", waiting, Reconciliation(late))
  BY DEF TickLoad
<1>2. UNCHANGED <<patch, raced, task, failed, stale>> /\ RegistryInv /\ SchedulerInv
      /\ agent \in [Agents -> AgentRows]
  BY DEF TickLoad, RoutingInv, RegistryInv, RegistryTyped
<1>3. PICK agents : agents = Reconciliation(late)
  OBVIOUS
<1>4. /\ agents \in [Agents -> AgentRows]
      /\ \A a \in Agents : /\ agents[a].status = agent[a].status /\ agents[a].manager = agent[a].manager
                           /\ agents[a].identity = agent[a].identity
                           /\ a \in Registered => agents[a].workload = Workload(a)
  BY <1>2, <1>3, ReconciliationStep
<1>5. RegistryInv'
  BY <1>1, <1>2, <1>3, <1>4, RegistryIsLeft
<1>6. SchedulerInv'
  <2>1. CASE waiting = {}
    BY <1>1, <1>2, <2>1, StayingStep
  <2>2. CASE waiting # {}
    <3>1. PICK S : S = waiting
      OBVIOUS
    <3>2. Open(s, "tick", S, agents) /\ S \in SUBSET Tasks /\ \A t \in S : task[t].status = "QUEUED"
      BY <1>1, <1>3, <2>2, <3>1
    <3>3. \A a \in Agents : agents[a].status = "ACTIVE" => agents[a].workload = Workload(a)
      BY <1>4 DEF Registered
    <3>4. QED  BY <1>2, <1>4, <3>2, <3>3, OpenStep
  <2>3. QED  BY <2>1, <2>2
<1>7. QED  BY <1>5, <1>6 DEF RoutingInv

LEMMA LoadStep ==
    ASSUME RoutingInv, NEW s \in Sessions, NEW t \in Tasks, DispatchLoad(s, t) \/ RerouteLoad(s, t)
    PROVE  RoutingInv'
<1>1. PICK pc \in {"dispatch", "reroute"} : Open(s, pc, {t}, agent)
  BY DEF DispatchLoad, RerouteLoad
<1>2. UNCHANGED <<agent, patch, raced>> /\ UNCHANGED <<task, failed, stale>>
  BY DEF DispatchLoad, RerouteLoad, registryVars
<1>3. RegistryInv /\ SchedulerInv /\ agent \in [Agents -> AgentRows]
  BY DEF RoutingInv, RegistryInv, RegistryTyped
<1>4. RegistryInv'
  BY <1>2, <1>3, RegistryStays
<1>5. PICK S : S = {t}
  OBVIOUS
<1>6. S \in SUBSET Tasks /\ Open(s, pc, S, agent) /\ pc \in {"tick", "dispatch", "reroute"} /\ pc # "tick"
  BY <1>1, <1>5
<1>7. SchedulerInv'
  BY <1>2, <1>3, <1>6, OpenStep
<1>8. QED  BY <1>4, <1>7 DEF RoutingInv

LEMMA CrashStep ==
    ASSUME RoutingInv, NEW s \in Sessions, Crash(s)
    PROVE  RoutingInv'
<1>1. UNCHANGED <<agent, patch, raced>> /\ UNCHANGED <<task, failed, stale>>
      /\ session' = [session EXCEPT ![s] = Closed]
  BY DEF Crash, registryVars
<1>2. RegistryInv' /\ SchedulerInv
  BY <1>1, RegistryStays DEF RoutingInv
<1>3. ASSUME NEW r \in Sessions PROVE SessionInv(r)'
  <2>1. CASE r = s
    <3>1. session'[s] = Closed
      BY <1>1 DEF RoutingInv, SchedulerInv
    <3>2. QED  BY <2>1, <3>1, ClosedIsTyped DEF SessionInv, SessionTyped, Recent, Alone
  <2>2. CASE r # s
    <3>1. session'[r] = session[r] /\ SessionInv(r) /\ task \in [Tasks -> TaskRows]
      BY <1>1, <2>2 DEF RoutingInv, SchedulerInv
    <3>2. QED  BY <1>1, <3>1, UndisturbedSession DEF Alike
  <2>3. QED  BY <2>1, <2>2
<1>4. SchedulerInv'
  BY <1>1, <1>2, <1>3 DEF SchedulerInv, RowIsRight
<1>5. QED  BY <1>2, <1>4 DEF RoutingInv

(* The bus marks one task: the open sessions fall behind.                  *)
LEMMA MarkStep ==
    ASSUME RoutingInv, NEW t \in Tasks, NEW made \in TaskRows, task' = [task EXCEPT ![t] = made],
           RowIsRight(task[t], failed[t]) => RowIsRight(made, failed[t]),
           session' = Outdate(session, {t}), UNCHANGED <<agent, patch, raced>>,
           UNCHANGED <<failed, stale>>
    PROVE  RoutingInv'
<1>1. RegistryInv'
  BY RegistryStays DEF RoutingInv
<1>2. /\ task' \in [Tasks -> TaskRows] /\ task'[t] = made
      /\ \A u \in Tasks \ {t} : task'[u] = task[u]
  BY DEF RoutingInv, SchedulerInv
<1>3. ASSUME NEW r \in Sessions PROVE SessionInv(r)'
  <2>1. PICK S : S = {t}
    OBVIOUS
  <2>2. session'[r] = Outdate(session, S)[r] /\ SessionInv(r) /\ \A u \in Tasks \ S : task'[u] = task[u]
    BY <1>2, <2>1 DEF RoutingInv, SchedulerInv
  <2>3. QED  BY <2>2, OvertakenSession
<1>4. \A u \in Tasks \ stale' : RowIsRight(task[u], failed[u])'
  BY <1>2 DEF RoutingInv, SchedulerInv, RowIsRight
<1>5. DOMAIN session' = Sessions /\ DOMAIN failed' = Tasks
  BY DEF Outdate, RoutingInv, SchedulerInv
<1>6. QED  BY <1>1, <1>2, <1>3, <1>4, <1>5 DEF RoutingInv, SchedulerInv

LEMMA RunEndsStep ==
    ASSUME RoutingInv, NEW t \in Tasks, NEW a \in Agents, RunEnds(t, a)
    PROVE  RoutingInv'
<1>1. UNCHANGED <<agent, patch, raced>> /\ UNCHANGED <<failed, stale>>
  BY DEF RunEnds, registryVars
<1>2. CASE UNCHANGED <<task, session>>
  BY <1>1, <1>2, StayingStep, RegistryStays DEF RoutingInv
<1>3. CASE task' = [task EXCEPT ![t].status = "COMPLETED"] /\ session' = Outdate(session, {t})
  <2>1. task[t] \in TaskRows /\ task[t].key \in BOOLEAN /\ "COMPLETED" \in TaskStatuses
    BY RowsAreTyped DEF RoutingInv, SchedulerInv, TaskStatuses
  <2>2. PICK made : made = [task[t] EXCEPT !.status = "COMPLETED", !.key = task[t].key]
    OBVIOUS
  <2>3. task' = [task EXCEPT ![t] = made]
    <3>1. made = [task[t] EXCEPT !.status = "COMPLETED"]
      BY <2>1, <2>2 DEF TaskRows
    <3>2. QED  BY <1>3, <3>1
  <2>4. made \in TaskRows /\ (RowIsRight(task[t], failed[t]) => RowIsRight(made, failed[t]))
    BY <2>1, <2>2, MarkedRow
  <2>5. QED  BY <1>1, <1>3, <2>3, <2>4, MarkStep
<1>4. QED  BY <1>2, <1>3 DEF RunEnds

LEMMA BusMovesStep ==
    ASSUME RoutingInv, NEW t \in Tasks, BusMoves(t)
    PROVE  RoutingInv'
<1>1. UNCHANGED <<agent, patch, raced>> /\ UNCHANGED <<failed, stale>> /\ session' = Outdate(session, {t})
  BY DEF BusMoves, registryVars
<1>2. task[t] \in TaskRows /\ task[t].key \in BOOLEAN
  BY RowsAreTyped DEF RoutingInv, SchedulerInv
<1>3. PICK status \in {"WAITING_APPROVAL", "QUEUED", "BLOCKED", "COMPLETED"}, key \in {task[t].key, FALSE} :
          task' = [task EXCEPT ![t].status = status, ![t].key = key]
  BY <1>2 DEF BusMoves
<1>4. PICK made : made = [task[t] EXCEPT !.status = status, !.key = key]
  OBVIOUS
<1>5. task' = [task EXCEPT ![t] = made]
  BY <1>3, <1>4 DEF RoutingInv, SchedulerInv
<1>6. status \in TaskStatuses /\ key \in BOOLEAN /\ (key => task[t].key)
  BY <1>2 DEF TaskStatuses
<1>7. made \in TaskRows /\ (RowIsRight(task[t], failed[t]) => RowIsRight(made, failed[t]))
  BY <1>2, <1>4, <1>6, MarkedRow
<1>8. QED  BY <1>1, <1>5, <1>7, MarkStep

LEMMA RetryFallsDueStep ==
    ASSUME RoutingInv, NEW t \in Tasks, RetryFallsDue(t)
    PROVE  RoutingInv'
<1>1. UNCHANGED <<agent, patch, raced>> /\ UNCHANGED <<session, failed, stale>>
      /\ task' = [task EXCEPT ![t].context.wait = FALSE]
  BY DEF RetryFallsDue, registryVars
<1>2. task \in [Tasks -> TaskRows] /\ task[t] \in TaskRows /\ task[t].context \in Contexts
  BY RowsAreTyped DEF RoutingInv, SchedulerInv
<1>3. PICK c : c = [task[t].context EXCEPT !.wait = FALSE]
  OBVIOUS
<1>4. c \in Contexts /\ c.status = task[t].context.status /\ c.selected = task[t].context.selected
      /\ c.failovers = task[t].context.failovers /\ c.force = task[t].context.force
      /\ c.runtimes = task[t].context.runtimes
  BY <1>2, <1>3 DEF Contexts
<1>5. PICK made : made = [task[t] EXCEPT !.context = c]
  OBVIOUS
<1>6. task' = [task EXCEPT ![t] = made]
  BY <1>1, <1>2, <1>3, <1>5
<1>7. made \in TaskRows /\ Alike(task[t], made)
  BY <1>2, <1>4, <1>5 DEF TaskRows, Alike
<1>8. task' \in [Tasks -> TaskRows] /\ \A u \in Tasks : Alike(task[u], task'[u])
  BY <1>2, <1>6, <1>7 DEF Alike
<1>9. ASSUME NEW r \in Sessions PROVE SessionInv(r)'
  BY <1>1, <1>2, <1>8, UndisturbedSession DEF RoutingInv, SchedulerInv
<1>10. ASSUME NEW u \in Tasks \ stale' PROVE RowIsRight(task[u], failed[u])'
  <2>1. RowIsRight(task[u], failed[u]) /\ Alike(task[u], task'[u])
    BY <1>1, <1>8 DEF RoutingInv, SchedulerInv
  <2>2. RowIsRight(task'[u], failed[u])
    BY <2>1, AlikeAreRight
  <2>3. QED  BY <1>1, <2>2 DEF RowIsRight
<1>11. SchedulerInv'
  BY <1>1, <1>8, <1>9, <1>10 DEF RoutingInv, SchedulerInv
<1>12. QED  BY <1>1, <1>11, RegistryStays DEF RoutingInv

LEMMA AdministeringStep ==
    ASSUME RoutingInv, Administer, session' = Outdate(session, {}), UNCHANGED <<task, failed, stale>>
    PROVE  RoutingInv'
<1>1. RegistryInv'
  BY AdministerStep DEF RoutingInv
<1>2. ASSUME NEW r \in Sessions PROVE SessionInv(r)'
  <2>1. PICK S : S = {}
    OBVIOUS
  <2>2. session'[r] = Outdate(session, S)[r] /\ SessionInv(r)
    BY <2>1 DEF RoutingInv, SchedulerInv
  <2>3. QED  BY <2>2, OvertakenSession
<1>3. DOMAIN session' = Sessions
  BY DEF Outdate
<1>4. SchedulerInv'
  BY <1>2, <1>3 DEF RoutingInv, SchedulerInv, RowIsRight
<1>5. QED  BY <1>1, <1>4 DEF RoutingInv

LEMMA RoutingInitially == RoutingInit => RoutingInv
<1> SUFFICES ASSUME RoutingInit PROVE RoutingInv
  OBVIOUS
<1>1. RegistryInit
  BY DEF RoutingInit
<1>2. RegistryInv
  <2> DEFINE rec == [NoAgent EXCEPT !.status = "ACTIVE", !.identity = "ACTIVE", !.availability = "AVAILABLE"]
  <2>1. NoAgent \in AgentRows /\ rec \in AgentRows
    BY DEF NoAgent, AgentRows, Lifecycle, Availability, Identity
  <2>2. /\ NoAgent.manager = None /\ NoAgent.identity = "NONE"
        /\ rec.manager = None /\ rec.status = "ACTIVE"
    BY DEF NoAgent
  <2> HIDE DEF rec
  <2>3. agent \in [Agents -> {NoAgent, rec}]
    BY <1>1 DEF RegistryInit, rec
  <2>4. agent \in [Agents -> AgentRows] /\ \A a \in Agents : agent[a].manager = None /\ IdentityIsRight(a)
    BY <2>1, <2>2, <2>3 DEF IdentityIsRight
  <2>5. patch \in [Patches -> PatchRows] /\ \A q \in Patches : patch[q].pc # "loaded"
    <3>1. PICK S \in SUBSET Patches :
             patch = [q \in Patches |-> [NoPatch EXCEPT !.pc = IF q \in S THEN "new" ELSE "done"]]
      BY <1>1 DEF RegistryInit
    <3>2. [column |-> "other", value |-> None] \in Changes
      BY DEF Changes
    <3>3. NoPatch \in PatchRows
      BY <2>1, <3>2 DEF NoPatch, PatchRows
    <3>4. ASSUME NEW v \in {"new", "done"}
          PROVE  [NoPatch EXCEPT !.pc = v] \in PatchRows /\ [NoPatch EXCEPT !.pc = v].pc = v
      BY <3>3 DEF PatchRows
    <3>5. ASSUME NEW q \in Patches PROVE patch[q] \in PatchRows /\ patch[q].pc # "loaded"
      <4>1. CASE q \in S
        <5>1. patch[q] = [NoPatch EXCEPT !.pc = "new"]
          BY <3>1, <4>1
        <5>2. QED  BY <3>4, <5>1
      <4>2. CASE q \notin S
        <5>1. patch[q] = [NoPatch EXCEPT !.pc = "done"]
          BY <3>1, <4>2
        <5>2. QED  BY <3>4, <5>1
      <4>3. QED  BY <4>1, <4>2
    <3>6. patch = [q \in Patches |-> patch[q]]
      BY <3>1
    <3>7. QED  BY <3>5, <3>6
  <2>6. raced = FALSE
    BY <1>1 DEF RegistryInit
  <2>7. Hierarchy(Managers)
    BY <2>4, RegistryAssumption DEF Hierarchy, Managers
  <2>8. QED  BY <2>4, <2>5, <2>6, <2>7 DEF RegistryInv, RegistryTyped, RegistrySound
<1>3. SchedulerInv
  <2> DEFINE queued == [NoTask EXCEPT !.status = "QUEUED"]
  <2>1. PICK s \in Scenarios :
           /\ session = [r \in Sessions |-> [Closed EXCEPT !.pc = IF r \in s.sessions THEN "closed" ELSE "unused"]]
           /\ task = [t \in Tasks |-> IF t \in s.tasks THEN queued ELSE NoTask]
    BY DEF RoutingInit
  <2>2. NoTask \in TaskRows /\ queued \in TaskRows
    <3>1. PICK c : c = [status |-> "QUEUED", selected |-> None, attempts |-> 0, failovers |-> 0,
                        force |-> FALSE, wait |-> FALSE, agents |-> {}, runtimes |-> {}]
      OBVIOUS
    <3>2. c \in Contexts
      BY <3>1, RoutingAssumption DEF Contexts
    <3>3. NoTask = [status |-> "ABSENT", target |-> "auto", key |-> FALSE, context |-> c]
      BY <3>1 DEF NoTask
    <3>4. "ABSENT" \in TaskStatuses /\ "QUEUED" \in TaskStatuses
      BY DEF TaskStatuses
    <3>5. NoTask \in TaskRows
      BY <3>2, <3>3, <3>4, RowFromItsParts
    <3>6. QED  BY <3>4, <3>5 DEF TaskRows
  <2>3. /\ NoTask.context.status = "QUEUED" /\ NoTask.target = "auto" /\ NoTask.context.failovers = 0
        /\ queued.context = NoTask.context /\ queued.target = "auto"
        /\ NoTask.key = FALSE /\ queued.key = FALSE
    BY DEF NoTask
  <2>4. \A over : over = <<>> => RowIsRight(NoTask, over) /\ RowIsRight(queued, over)
    <3> HIDE DEF queued
    <3>1. <<>> \in Seq(Agents) /\ Len(<<>>) = 0 /\ DOMAIN (<<>>) = {}
      BY EmptyAssignment
    <3>2. QED  BY <2>3, <3>1 DEF RowIsRight
  <2> HIDE DEF queued
  <2>5. task \in [Tasks -> TaskRows] /\ \A t \in Tasks : task[t] \in {NoTask, queued}
    BY <2>1, <2>2
  <2>6. failed = [t \in Tasks |-> <<>>]
    BY DEF RoutingInit
  <2>7. ASSUME NEW r \in Sessions PROVE SessionInv(r)
    <3>1. PICK pc \in {"closed", "unused"} : session[r] = [Closed EXCEPT !.pc = pc]
      BY <2>1
    <3>2. /\ DOMAIN session[r] = {"pc", "rows", "agents", "late", "behind"} /\ session[r].pc = pc
          /\ session[r].late = {} /\ session[r].behind = FALSE
      BY <3>1 DEF Closed
    <3>3. QED  BY <3>2 DEF SessionInv, SessionTyped, Recent, Alone
  <2>8. QED  BY <2>1, <2>4, <2>5, <2>6, <2>7 DEF SchedulerInv
<1>4. QED  BY <1>2, <1>3 DEF RoutingInv

LEMMA RoutingStep == RoutingInv /\ [RoutingNext]_routingVars => RoutingInv'
<1> SUFFICES ASSUME RoutingInv, [RoutingNext]_routingVars PROVE RoutingInv'
  OBVIOUS
<1>1. CASE \E s \in Sessions : TickLoad(s)
  BY <1>1, TickLoadStep
<1>2. CASE \E s \in Sessions : TickCommit(s)
  BY <1>2, TickCommitStep
<1>3. CASE \E s \in Sessions, t \in Tasks : DispatchCommit(s, t)
  BY <1>3, DispatchCommitStep
<1>4. CASE \E s \in Sessions, t \in Tasks : DispatchAccepted(s, t)
  BY <1>4, DispatchAcceptedStep
<1>5. CASE \E s \in Sessions, t \in Tasks : DispatchRefused(s, t)
  BY <1>5, DispatchRefusedStep
<1>6. CASE \E s \in Sessions : Crash(s)
  BY <1>6, CrashStep
<1>7. CASE \E s \in Sessions, t \in Tasks : DispatchLoad(s, t) \/ RerouteLoad(s, t)
  BY <1>7, LoadStep
<1>8. CASE \E s \in Sessions, t \in Tasks : RerouteCommit(s, t)
  BY <1>8, RerouteCommitStep
<1>9. CASE \E t \in Tasks : RetryFallsDue(t)
  BY <1>9, RetryFallsDueStep
<1>10. CASE \E t \in Tasks : BusMoves(t)
  BY <1>10, BusMovesStep
<1>11. CASE \E t \in Tasks, a \in Agents : RunEnds(t, a)
  BY <1>11, RunEndsStep
<1>12. CASE Administer /\ session' = Outdate(session, {}) /\ UNCHANGED <<task, active, failed, stale, moves>>
  BY <1>12, AdministeringStep
<1>13. CASE UNCHANGED routingVars
  BY <1>13, StayingStep, RegistryStays DEF RoutingInv, routingVars, registryVars, schedulerVars
<1>14. QED  BY <1>1, <1>2, <1>3, <1>4, <1>5, <1>6, <1>7, <1>8, <1>9, <1>10, <1>11, <1>12, <1>13
            DEF RoutingNext, Answer

(* RoutingInv holds in every state the scheduler and the registry reach.   *)
THEOREM RoutingInvariance == RoutingSpec => []RoutingInv
BY RoutingInitially, RoutingStep, PTL DEF RoutingSpec

(* Who has dispatched is an agent.                                         *)
ActiveTyped == active \in [Tasks -> SUBSET Agents]

LEMMA ActiveStep == RoutingInv /\ ActiveTyped /\ [RoutingNext]_routingVars => ActiveTyped'
<1> SUFFICES ASSUME RoutingInv, ActiveTyped, [RoutingNext]_routingVars PROVE ActiveTyped'
  OBVIOUS
<1>1. CASE active' = active
  BY <1>1 DEF ActiveTyped
<1>2. ASSUME NEW t \in Tasks, NEW S \in SUBSET Agents, active' = [active EXCEPT ![t] = S] PROVE ActiveTyped'
  BY <1>2 DEF ActiveTyped
<1>3. ASSUME NEW t \in Tasks, NEW a, active' = [active EXCEPT ![t] = @ \ {a}] PROVE ActiveTyped'
  BY <1>3, <1>2 DEF ActiveTyped
<1>4. ASSUME NEW t \in Tasks, NEW a \in Agents, active' = [active EXCEPT ![t] = @ \cup {a}] PROVE ActiveTyped'
  BY <1>4, <1>2 DEF ActiveTyped
<1>5. ASSUME NEW s \in Sessions, NEW t \in Tasks, DispatchCommit(s, t) PROVE ActiveTyped'
  <2> DEFINE rec == session[s].rows[t]
  <2>1. rec \in TaskRows
    BY <1>5, OpenSession DEF DispatchCommit
  <2>2. CASE ~NeedsRoute(rec) /\ active' = [active EXCEPT ![t] = @ \cup {rec.target}]
    <3>1. rec.target \in Agents
      BY <2>1, <2>2, RowsAreTyped DEF NeedsRoute
    <3>2. QED  BY <1>4, <2>2, <3>1
  <2>3. CASE \E a \in Eligible(t, rec, session[s].agents) : active' = [active EXCEPT ![t] = @ \cup {a}]
    BY <1>4, <2>3, EligibleIsRight
  <2>4. QED  BY <1>1, <1>5, <2>2, <2>3 DEF DispatchCommit
<1>6. ASSUME NEW s \in Sessions, NEW t \in Tasks, DispatchRefused(s, t) PROVE ActiveTyped'
  BY <1>3, <1>6 DEF DispatchRefused
<1>7. ASSUME NEW t \in Tasks, NEW a \in Agents, RunEnds(t, a) PROVE ActiveTyped'
  BY <1>3, <1>7 DEF RunEnds
<1>8. QED
  BY <1>1, <1>5, <1>6, <1>7
     DEF RoutingNext, Answer, TickLoad, TickCommit, DispatchAccepted, Crash, DispatchLoad, RerouteLoad,
         RerouteCommit, RetryFallsDue, BusMoves, routingVars, schedulerVars

(* Rows, tasks and sessions keep their types, and a task that is           *)
(* dispatched has an agent unless an old copy was written over its row.    *)
THEOREM RoutingTypeCorrect == RoutingSpec => []RoutingTypeOK
<1>1. RoutingInit => ActiveTyped
  BY DEF RoutingInit, ActiveTyped
<1>2. RoutingInv /\ ActiveTyped => RoutingTypeOK
  BY DEF RoutingInv, RegistryInv, RegistryTyped, SchedulerInv, SessionInv, SessionTyped, RowIsRight,
         ActiveTyped, RoutingTypeOK
<1>3. QED  BY <1>1, <1>2, ActiveStep, RoutingInvariance, PTL DEF RoutingSpec

(* A task is never routed back to a runtime it was failed over from, and   *)
(* is failed over no more than MaxFailovers times, however the failures    *)
(* are spread over sessions (prepare_failover, scheduler_service.py:553),  *)
(* unless a session wrote its old copy of the context over a newer one.    *)
THEOREM FailsOverElsewhere == RoutingSpec => []FailoverGoesElsewhere
<1>1. RoutingInv => FailoverGoesElsewhere
  <2> SUFFICES ASSUME RoutingInv, NEW t \in Tasks \ stale
               PROVE  /\ Len(failed[t]) <= MaxFailovers
                      /\ \A i \in DOMAIN failed[t] :
                            task[t].target # "auto" => RuntimeOf[task[t].target] # RuntimeOf[failed[t][i]]
    BY DEF FailoverGoesElsewhere
  <2>1. RowIsRight(task[t], failed[t]) /\ task[t].context \in Contexts
    BY RowsAreTyped DEF RoutingInv, SchedulerInv
  <2>2. task[t].context.failovers \in 0..MaxFailovers
    BY <2>1 DEF Contexts
  <2>3. QED  BY <2>1, <2>2, RoutingAssumption DEF RowIsRight
<1>2. QED  BY <1>1, RoutingInvariance, PTL

(* As long as no two operators' patches crossed, however many patches,     *)
(* new agents and heartbeats follow each other, managers form a hierarchy  *)
(* and who is suspended or retired has no active identity                  *)
(* (validate_manager and update_agent, phase7_app.py:92, :282).            *)
THEOREM RegistryStaysConsistent == RoutingSpec => []RegistryIsConsistent
<1>1. RoutingInv => RegistryIsConsistent
  <2> SUFFICES ASSUME RoutingInv, ~raced, NEW a \in Agents
               PROVE  /\ a \notin Above(a, Cardinality(Agents))
                      /\ agent[a].identity = "ACTIVE" => agent[a].status = "ACTIVE"
    BY DEF RegistryIsConsistent
  <2>1. RegistrySound
    BY DEF RoutingInv, RegistryInv
  <2>2. agent[a].identity = "ACTIVE" => agent[a].status = "ACTIVE"
    BY <2>1 DEF RegistrySound, IdentityIsRight
  <2>3. Hierarchy(Managers) /\ \A b \in Agents : agent[b].manager \in Agents \cup {None}
    BY <2>1 DEF RegistrySound, Registered
  <2>4. PICK n : n = Cardinality(Agents)
    OBVIOUS
  <2>5. n \in Nat
    BY <2>4, RegistryAssumption, FS_CardinalityType
  <2>6. a \notin Above(a, n)
    BY <2>3, <2>5, NobodyAboveHimself
  <2>7. QED  BY <2>2, <2>4, <2>6
<1>2. QED  BY <1>1, RoutingInvariance, PTL

-----------------------------------------------------------------------------
(***************************************************************************)
(* Capacity.                                                               *)
(***************************************************************************)
(* Steps of others leave a session open, and only a tick's own commit      *)
(* closes it and gives tasks away.                                         *)
LEMMA OnlyTheTickGives ==
    ASSUME RoutingInv, [RoutingNext]_routingVars, NEW s \in Sessions,
           session[s].pc = "tick", session'[s].pc = "closed", task' # task
    PROVE  TickCommit(s)
<1>1. ASSUME NEW S, session'[s] = Outdate(session, S)[s] PROVE FALSE
  <2>1. SessionTyped(session[s])
    BY DEF RoutingInv, SchedulerInv, SessionInv
  <2>2. Outdate(session, S)[s].pc = "tick"
    BY <2>1, OutdatedSession
  <2>3. QED  BY <1>1, <2>2
<1>2. ASSUME NEW r \in Sessions, NEW made, NEW f, NEW next, Commit(r, made, f, next) PROVE r = s
  <2>1. SUFFICES ASSUME r # s PROVE FALSE
    OBVIOUS
  <2>2. session'[s] = Outdate(session, DOMAIN made)[s]
    BY <1>2, <2>1 DEF Commit, Outdate
  <2>3. QED  BY <1>1, <2>2
<1>3. ASSUME NEW r \in Sessions, TickCommit(r) PROVE r = s
  BY <1>2, <1>3 DEF TickCommit
<1>4. ASSUME NEW r \in Sessions, NEW t \in Tasks, DispatchCommit(r, t) PROVE FALSE
  <2>1. session[r].pc = "dispatch"
    BY <1>4 DEF DispatchCommit
  <2>2. r = s
    BY <1>2, <1>4 DEF DispatchCommit
  <2>3. QED  BY <2>1, <2>2
<1>5. ASSUME NEW r \in Sessions, NEW t \in Tasks, DispatchAccepted(r, t) \/ DispatchRefused(r, t) PROVE FALSE
  <2>1. session[r].pc = "sent"
    BY <1>5 DEF DispatchAccepted, DispatchRefused
  <2>2. r = s
    BY <1>2, <1>5 DEF DispatchAccepted, DispatchRefused
  <2>3. QED  BY <2>1, <2>2
<1>6. ASSUME NEW r \in Sessions, NEW t \in Tasks, RerouteCommit(r, t) PROVE FALSE
  <2>1. session[r].pc = "reroute"
    BY <1>6 DEF RerouteCommit
  <2>2. r = s
    BY <1>2, <1>6 DEF RerouteCommit
  <2>3. QED  BY <2>1, <2>2
<1>7. ASSUME NEW r \in Sessions, NEW t \in Tasks,
             DispatchLoad(r, t) \/ RerouteLoad(r, t)
      PROVE  FALSE
  BY <1>7 DEF DispatchLoad, RerouteLoad
<1>8. ASSUME NEW r \in Sessions, TickLoad(r) \/ Crash(r) PROVE FALSE
  BY <1>8 DEF TickLoad, Crash
<1>9. ASSUME NEW t \in Tasks, NEW a \in Agents, RunEnds(t, a) PROVE FALSE
  BY <1>1, <1>9 DEF RunEnds
<1>10. ASSUME NEW t \in Tasks, RetryFallsDue(t) \/ BusMoves(t) PROVE FALSE
  BY <1>1, <1>10 DEF RetryFallsDue, BusMoves
<1>11. ASSUME UNCHANGED routingVars PROVE FALSE
  BY <1>11 DEF routingVars, schedulerVars
<1>12. QED  BY <1>3, <1>4, <1>5, <1>6, <1>7, <1>8, <1>9, <1>10, <1>11 DEF RoutingNext, Answer

(* What a tick that nobody overtook gives an agent.                        *)
LEMMA TickGives ==
    ASSUME RoutingInv, NEW s \in Sessions, TickCommit(s), ~session[s].behind, NEW a \in Agents,
           NEW given, given = {t \in Tasks : task[t].target # a /\ task'[t].target = a},
           given # {}, \A t \in given : t \notin Overflow /\ task[t].target = "auto"
    PROVE  Workload(a)' <= Capacity[a]
<1> DEFINE n == session[s]
           rows == n.rows
           waiting == {t \in DOMAIN rows : NeedsRoute(rows[t]) /\ ~rows[t].context.wait}
           old == {t \in Tasks : task[t].target = a /\ task[t].status \in ActiveTaskStatuses}
           new == {t \in Tasks : task'[t].target = a /\ task'[t].status \in ActiveTaskStatuses}
<1>1. PICK f \in [waiting -> Agents \cup {None}] :
          /\ \A t \in waiting : f[t] \in Eligible(t, rows[t], n.agents) \cup {None}
          /\ Fits(s, FromAuto(rows, f))
          /\ Commit(s, [t \in waiting |-> Routed(rows[t], f[t])], FromAuto(rows, f), Closed)
  BY DEF TickCommit
<1>2. PICK made : made = [t \in waiting |-> Routed(rows[t], f[t])]
  OBVIOUS
<1>3. PICK g : g = FromAuto(rows, f)
  OBVIOUS
<1>4. Fits(s, g) /\ Commit(s, made, g, Closed)
  BY <1>1, <1>2, <1>3
<1>5. n.pc = "tick"
  BY DEF TickCommit
<1>6. /\ \A t \in DOMAIN rows : rows[t].status = "QUEUED" /\ Alike(rows[t], task[t])
      /\ \A b \in Agents : n.agents[b].status = "ACTIVE" => n.agents[b].workload = Workload(b)
  BY <1>5 DEF RoutingInv, SchedulerInv, SessionInv, Alone
<1>7. DOMAIN rows \subseteq Tasks /\ (\A t \in DOMAIN rows : rows[t] \in TaskRows) /\ task \in [Tasks -> TaskRows]
  BY <1>5, OpenSession DEF RoutingInv, SchedulerInv
<1>8. DOMAIN f = waiting /\ DOMAIN made = waiting /\ waiting \subseteq DOMAIN rows
  BY <1>2
<1>9. \A t \in DOMAIN g : t \in waiting /\ rows[t].target = "auto" /\ g[t] = f[t]
  BY SMTT(30), <1>3, <1>8, FromAutoIsPart
<1>10. \A t \in waiting : rows[t].target = "auto" => t \in DOMAIN g /\ g[t] = f[t]
  BY SMTT(30), <1>3, <1>8, FromAutoIsPart
<1> HIDE DEF waiting
<1>11. ASSUME NEW t \in waiting
       PROVE  /\ t \in Tasks /\ rows[t].target = task[t].target /\ task[t].status = "QUEUED"
              /\ f[t] = None => task'[t].target = task[t].target
              /\ f[t] # None => task'[t].target = f[t] /\ f[t] \in Agents /\ n.agents[f[t]].status = "ACTIVE"
  <2>1. t \in Tasks /\ t \in DOMAIN rows /\ rows[t] \in TaskRows /\ Alike(rows[t], task[t])
        /\ rows[t].status = "QUEUED"
    BY <1>6, <1>7, <1>8
  <2>2. task'[t] = Stored(t, rows[t], made[t]) /\ made[t] = Routed(rows[t], f[t])
    BY <1>2, <1>4, <1>8, <2>1 DEF Commit
  <2>3. f[t] \in Eligible(t, rows[t], n.agents) \cup {None}
    BY <1>1
  <2>4. made[t] \in TaskRows
    BY <2>1, <2>2, <2>3, RoutedRow
  <2>5. task'[t].target = made[t].target
    <3>1. Alike(made[t], task'[t])
      BY <1>7, <2>1, <2>2, <2>4, StoredRow
    <3>2. QED  BY <3>1 DEF Alike
  <2>6. CASE f[t] = None
    BY <2>1, <2>2, <2>5, <2>6, UnroutedRow DEF Routed, Alike
  <2>7. CASE f[t] # None
    <3>1. f[t] \in Agents /\ n.agents[f[t]].status = "ACTIVE"
      BY <2>1, <2>3, <2>7, EligibleIsRight
    <3>2. made[t].target = f[t]
      BY <2>1, <2>2, <2>7, <3>1, SelectedRow DEF Routed
    <3>3. QED  BY <2>1, <2>5, <2>7, <3>1, <3>2 DEF Alike
  <2>8. QED  BY <2>6, <2>7
<1>12. \A t \in Tasks \ waiting : task'[t] = task[t]
  BY <1>4, <1>8 DEF Commit
<1> DEFINE taken == {t \in DOMAIN g \ Overflow : g[t] = a}
<1>13. given \subseteq taken
  <2>1. SUFFICES ASSUME NEW t \in given PROVE t \in taken
    OBVIOUS
  <2>2. t \in Tasks /\ task'[t].target = a /\ task[t].target = "auto" /\ t \notin Overflow /\ a # "auto"
    BY RoutingAssumption
  <2>3. t \in waiting
    BY <1>12, <2>2
  <2>4. f[t] = a
    BY <1>11, <2>2, <2>3
  <2>5. t \in DOMAIN g /\ g[t] = a
    BY <1>10, <1>11, <2>2, <2>3, <2>4
  <2>6. QED  BY <2>2, <2>5
<1>14. n.agents[a].workload = Workload(a)
  <2>1. PICK t \in given : TRUE
    OBVIOUS
  <2>2. t \in DOMAIN g /\ g[t] = a
    BY <1>13, <2>1
  <2>3. t \in waiting /\ f[t] = a /\ a # None
    BY <1>9, <2>2, RegistryAssumption
  <2>4. n.agents[a].status = "ACTIVE"
    BY <1>11, <2>3
  <2>5. QED  BY <1>6, <2>4
<1>15. n.agents[a].workload + Cardinality(taken) <= Capacity[a]
  <2>1. taken # {}
    BY <1>13
  <2>2. QED  BY <1>4, <2>1 DEF Fits
<1>16. new \subseteq old \cup given
  <2>1. SUFFICES ASSUME NEW t \in new, t \notin given PROVE t \in old
    OBVIOUS
  <2>2. t \in Tasks /\ task'[t].target = a /\ task[t].target = a /\ task'[t].status \in ActiveTaskStatuses
    BY <2>1
  <2>3. CASE t \in waiting
    BY <1>11, <2>2, <2>3 DEF ActiveTaskStatuses
  <2>4. CASE t \notin waiting
    BY <1>12, <2>2, <2>4
  <2>5. QED  BY <2>3, <2>4
<1>17. taken \subseteq Tasks
  BY <1>9, <1>11
<1>18. old \subseteq Tasks /\ new \subseteq Tasks /\ given \subseteq Tasks
  OBVIOUS
<1>19. Workload(a) = Cardinality(old) /\ Workload(a)' = Cardinality(new)
  BY DEF Workload
<1> HIDE DEF old, new, taken
<1>20. /\ IsFiniteSet(old) /\ IsFiniteSet(given) /\ IsFiniteSet(taken) /\ IsFiniteSet(new)
       /\ Cardinality(old) \in Nat /\ Cardinality(given) \in Nat /\ Cardinality(taken) \in Nat
       /\ Cardinality(new) \in Nat
  BY <1>17, <1>18, CountIsANumber
<1>21. Cardinality(given) <= Cardinality(taken)
  BY <1>13, <1>20, FS_Subset
<1>22. Cardinality(new) <= Cardinality(old) + Cardinality(given)
  <2>1. PICK both : both = old \cup given
    OBVIOUS
  <2>2. PICK common : common = old \cap given
    OBVIOUS
  <2>3. IsFiniteSet(both) /\ Cardinality(both) = Cardinality(old) + Cardinality(given) - Cardinality(common)
    BY <1>20, <2>1, <2>2, FS_Union
  <2>4. Cardinality(common) \in Nat
    <3>1. common \in SUBSET Tasks
      BY <1>18, <2>2
    <3>2. QED  BY <3>1, CountIsANumber
  <2>5. Cardinality(new) <= Cardinality(both) /\ Cardinality(both) \in Nat
    <3>1. new \subseteq both
      BY <1>16, <2>1
    <3>2. QED  BY <2>3, <3>1, FS_Subset, FS_CardinalityType
  <2>6. QED  BY <1>20, <2>3, <2>4, <2>5
<1>23. Capacity[a] \in Nat
  BY RegistryAssumption
<1>24. QED  BY <1>14, <1>15, <1>19, <1>20, <1>21, <1>22, <1>23

(* A batch nobody overtook gives an agent no more tasks than it can take   *)
(* (route_task raises the workload the next assignment of the batch sees,  *)
(* scheduler_service.py:473).                                              *)
THEOREM BatchesFitCapacity == RoutingSpec => BatchFitsCapacity
<1>1. RoutingInv /\ [RoutingNext]_routingVars
        => [\A s \in Sessions, a \in Agents :
              LET given == {t \in Tasks : task[t].target # a /\ task'[t].target = a} IN
              /\ session[s].pc = "tick" /\ session'[s].pc = "closed" /\ ~session[s].behind
              /\ given # {} /\ \A t \in given : t \notin Overflow /\ task[t].target = "auto"
              => Workload(a)' <= Capacity[a]]_routingVars
  <2> SUFFICES ASSUME RoutingInv, [RoutingNext]_routingVars, NEW s \in Sessions, NEW a \in Agents,
                      session[s].pc = "tick", session'[s].pc = "closed", ~session[s].behind,
                      {t \in Tasks : task[t].target # a /\ task'[t].target = a} # {},
                      \A t \in {t \in Tasks : task[t].target # a /\ task'[t].target = a} :
                         t \notin Overflow /\ task[t].target = "auto"
               PROVE  Workload(a)' <= Capacity[a]
    OBVIOUS
  <2>1. PICK given : given = {t \in Tasks : task[t].target # a /\ task'[t].target = a}
    OBVIOUS
  <2>2. given # {} /\ \A t \in given : t \notin Overflow /\ task[t].target = "auto"
    BY <2>1
  <2>3. task' # task
    BY <2>1, <2>2
  <2>4. TickCommit(s)
    BY <2>3, OnlyTheTickGives
  <2>5. QED  BY <2>1, <2>2, <2>4, TickGives
<1>2. RoutingSpec => [][RoutingNext]_routingVars
  BY DEF RoutingSpec
<1>3. QED  BY <1>1, <1>2, RoutingInvariance, PTL DEF BatchFitsCapacity
=============================================================================
