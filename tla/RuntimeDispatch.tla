------------------------- MODULE RuntimeDispatch -------------------------
(***************************************************************************)
(* Runtime dispatches (phases 1-3): a mission's work package is sent to an *)
(* external agent runtime, the row of the dispatch is kept in PostgreSQL,  *)
(* and workers and operators poll, stop and approve the remote run.        *)
(*                                                                         *)
(* A handler is cut where it awaits the network; what it does between two  *)
(* awaits is one action.  A handler's database session keeps the values it *)
(* loaded when it started ("saw"), and its commit writes only the          *)
(* attributes whose assigned value differs from the loaded one: Flush.     *)
(***************************************************************************)
EXTENDS Integers, FiniteSets, DispatchReports

CONSTANTS
    Dispatches,    \* the dispatches one mission may create
    Workers,       \* the processes that run runtime_event_worker
    Frontend,      \* the process that serves the operators' requests
    PlatformOf,    \* the platform of each dispatch's runtime
    Vocabulary,    \* the words a runtime may use for each state of a run
    LockTTL,       \* lifetime of the Redis lock (15 s), in ticks
    PollTimeout,   \* how long a status request may take (30 s), in ticks
    MaxOps,        \* bound: operator requests (sync, stop, approval)
    MaxCrashes     \* bound: process crashes

Platforms == {"openclaw", "cherryagent", "hermes"}
Polled == {"cherryagent", "hermes"}

Settled == {"COMPLETED", "FAILED", "CANCELLED"}
RunStates == {"RUNNING", "WAITING_APPROVAL", "STOPPING"} \cup Settled

(* Words a runtime may use, and the worker does not look for (OddWords), or *)
(* that mean a state of another name.  UNKNOWN is the adapter's default.    *)
OddWords == {"IN_PROGRESS", "UNKNOWN"}
Words == RunStates \cup {"STARTED", "QUEUED", "SUCCESS"} \cup OddWords

(* The case analysis of normalize_remote_status; unknown words pass through. *)
Normalize(word) ==
    CASE word \in {"STARTED", "QUEUED", "RUNNING", "IN_PROGRESS"} -> "RUNNING"
      [] word = "SUCCESS" -> "COMPLETED"
      [] OTHER -> word

(* Mutant: a run that is being stopped is no longer polled. *)
ActiveStatusesMutant ==
    {"DISPATCHING", "STARTED", "RUNNING", "QUEUED", "WAITING_APPROVAL"}

ActiveStatuses ==
    {"DISPATCHING", "STARTED", "RUNNING", "QUEUED", "WAITING_APPROVAL", "STOPPING"}

ASSUME ConstantsAssumption ==
    /\ Frontend \notin Workers
    /\ PlatformOf \in [Dispatches -> Platforms]
    /\ Vocabulary \in [RunStates -> SUBSET Words]
    /\ \A s \in RunStates : \A w \in Vocabulary[s] :
          s \in Settled \/ Normalize(w) \in Settled => Normalize(w) = s
    /\ LockTTL \in Nat \ {0}
    /\ PollTimeout \in Nat
    /\ MaxOps \in Nat
    /\ MaxCrashes \in Nat

Callers == Workers \cup {Frontend}

VARIABLES
    run,      \* external: the run at the remote runtime
    row,      \* runtime_dispatches: status, and whether remote_id is stored
    mission,  \* missions: status and progress of the one mission
    health,   \* runtime_connectors.status of each platform
    lock,     \* remaining lifetime of dispatch-sync:<key>, 0 when it is free
    call,     \* the dispatch request in flight
    poll,     \* the status requests in flight, per caller and dispatch
    control,  \* the stop or approval request in flight
    batch,    \* the keys a worker still has to synchronize in this round
    overlap,  \* history: two handlers were at work on one dispatch at once
    ops, crashes

vars == <<run, row, mission, health, lock, call, poll, control, batch, overlap, ops, crashes>>

MissionStatuses == {"PLANNING", "EXECUTING", "WAITING_APPROVAL", "VERIFYING", "BLOCKED"}
Progress == {5, 10, 20, 45, 85}
Missions == [status : MissionStatuses, progress : Progress]
RowStatuses == {"ABSENT", "DISPATCHING"} \cup Words
Healths == {"ONLINE", "OFFLINE"}
Snapshots == [status : RowStatuses, mission : Missions, health : Healths]
Phases == {"idle", "sent", "answered", "refused", "crashed", "done"}
Requests == [pc : Phases, word : Words, named : BOOLEAN, saw : Snapshots]
PollRequests == [pc : {"idle", "sent", "answered"}, word : Words, saw : Snapshots,
                 age : 0..PollTimeout]
ControlRequests == [pc : {"idle", "sent", "answered"}, word : Words, saw : Snapshots,
                    kind : {"stop", "approval"}]

Max2(a, b) == IF a >= b THEN a ELSE b

(* SQLAlchemy emits an UPDATE only for an attribute whose new value differs *)
(* from the value the session loaded.                                       *)
Flush(stored, loaded, assigned) == IF assigned = loaded THEN stored ELSE assigned

FlushMission(loaded, assigned) ==
    [status   |-> Flush(mission.status, loaded.status, assigned.status),
     progress |-> Flush(mission.progress, loaded.progress, assigned.progress)]

(* Mutants: an ending of any kind is taken for a completion; a failed run   *)
(* does not touch its mission.                                              *)
UpdateMissionMutantAnyEnd(m, status) ==
    IF status \in Settled THEN [m EXCEPT !.status = "VERIFYING"]
    ELSE IF status = "RUNNING" THEN [status |-> "EXECUTING", progress |-> Max2(m.progress, 20)]
    ELSE m
UpdateMissionMutantNoFailure(m, status) ==
    CASE status = "RUNNING" -> [status |-> "EXECUTING", progress |-> Max2(m.progress, 20)]
      [] status = "COMPLETED" -> [status |-> "VERIFYING", progress |-> Max2(m.progress, 85)]
      [] OTHER -> m

(* The mission a handler holds after it projected the dispatch's status on it. *)
UpdateMissionFromDispatch(m, status) ==
    CASE status = "RUNNING" ->
            [status |-> "EXECUTING", progress |-> Max2(m.progress, 20)]
      [] status = "WAITING_APPROVAL" ->
            [status |-> "WAITING_APPROVAL", progress |-> Max2(m.progress, 45)]
      [] status = "COMPLETED" ->
            [status |-> "VERIFYING", progress |-> Max2(m.progress, 85)]
      [] status \in {"FAILED", "CANCELLED"} -> [m EXCEPT !.status = "BLOCKED"]
      [] OTHER -> m

(* What get_dispatch_bundle loads: the dispatch, its runtime and its mission. *)
Bundle(d) == [status |-> row[d].status, mission |-> mission, health |-> health[PlatformOf[d]]]

Blank == [status |-> "ABSENT", mission |-> [status |-> "PLANNING", progress |-> 5],
          health |-> "ONLINE"]
NoRequest == [pc |-> "idle", word |-> "UNKNOWN", named |-> FALSE, saw |-> Blank]
NoPoll == [pc |-> "idle", word |-> "UNKNOWN", saw |-> Blank, age |-> 0]
NoControl == [pc |-> "idle", word |-> "UNKNOWN", saw |-> Blank, kind |-> "stop"]

Init ==
    /\ run = [d \in Dispatches |-> "NONE"]
    /\ row = [d \in Dispatches |-> [status |-> "ABSENT", linked |-> FALSE]]
    /\ mission = [status |-> "PLANNING", progress |-> 5]
    /\ health = [p \in Platforms |-> "ONLINE"]
    /\ lock = [d \in Dispatches |-> 0]
    /\ call = [d \in Dispatches |-> NoRequest]
    /\ poll = [c \in Callers |-> [d \in Dispatches |-> NoPoll]]
    /\ control = [d \in Dispatches |-> NoControl]
    /\ batch = [w \in Workers |-> {}]
    /\ overlap = FALSE
    /\ ops = 0
    /\ crashes = 0

--------------------------------------------------------------------------
(* POST /api/runtimes/{key}/dispatch: the row is committed as DISPATCHING, *)
(* then the work package is sent.                                          *)
CreateDispatch(d) ==
    /\ row[d].status = "ABSENT"
    /\ row' = [row EXCEPT ![d].status = "DISPATCHING"]
    /\ call' = [call EXCEPT ![d] = [NoRequest EXCEPT !.pc = "sent", !.saw = Bundle(d)]]
    /\ UNCHANGED <<run, mission, health, lock, poll, control, batch, overlap, ops, crashes>>

(* External: the runtime starts the run and replies, with a word of its     *)
(* own or none (STARTED), and with the id of the run or without.  The       *)
(* synchronous platforms reply when the run is over, and the adapter says   *)
(* COMPLETED.                                                               *)
RuntimeAccepts(d) ==
    LET polled == PlatformOf[d] \in Polled IN
    /\ call[d].pc = "sent"
    /\ \E s \in IF polled THEN RunStates ELSE {"COMPLETED"}, named \in BOOLEAN :
          \E w \in IF polled THEN Vocabulary[s] \cup {"STARTED"} ELSE {"COMPLETED"} :
             /\ run' = [run EXCEPT ![d] = s]
             /\ call' = [call EXCEPT ![d] =
                           [@ EXCEPT !.pc = "answered", !.word = w, !.named = named]]
    /\ UNCHANGED <<row, mission, health, lock, poll, control, batch, overlap, ops, crashes>>

(* External: the request fails, before or after the runtime started the run. *)
RuntimeRefuses(d) ==
    /\ call[d].pc = "sent"
    /\ \E s \in {"NONE", "RUNNING"} : run' = [run EXCEPT ![d] = s]
    /\ call' = [call EXCEPT ![d].pc = "refused"]
    /\ UNCHANGED <<row, mission, health, lock, poll, control, batch, overlap, ops, crashes>>

(* The reply is stored.  The word is kept as the runtime wrote it; without  *)
(* an id the row is not linked to the run.                                  *)
FinishDispatch(d) ==
    LET saw == call[d].saw
        p == PlatformOf[d]
    IN
    /\ call[d].pc = "answered"
    /\ row' = [row EXCEPT ![d] = [status |-> call[d].word, linked |-> call[d].named]]
    /\ health' = [health EXCEPT ![p] = Flush(@, saw.health, "ONLINE")]
    /\ mission' = FlushMission(saw.mission,
                     [saw.mission EXCEPT !.progress = Max2(@, 10)])
    /\ call' = [call EXCEPT ![d] = [NoRequest EXCEPT !.pc = "done"]]
    /\ UNCHANGED <<run, lock, poll, control, batch, overlap, ops, crashes>>

(* Mutant: the failure is not written to the row. *)
FailDispatchMutant(d) ==
    /\ call[d].pc = "refused"
    /\ health' = [health EXCEPT ![PlatformOf[d]] = Flush(@, call[d].saw.health, "OFFLINE")]
    /\ call' = [call EXCEPT ![d] = [NoRequest EXCEPT !.pc = "done"]]
    /\ UNCHANGED <<run, row, mission, lock, poll, control, batch, overlap, ops, crashes>>

FailDispatch(d) ==
    /\ call[d].pc = "refused"
    /\ row' = [row EXCEPT ![d].status = "FAILED"]
    /\ health' = [health EXCEPT ![PlatformOf[d]] = Flush(@, call[d].saw.health, "OFFLINE")]
    /\ call' = [call EXCEPT ![d] = [NoRequest EXCEPT !.pc = "done"]]
    /\ UNCHANGED <<run, mission, lock, poll, control, batch, overlap, ops, crashes>>

--------------------------------------------------------------------------
(* External: an asynchronous run goes on by itself.                         *)
RunMoves(d) ==
    /\ PlatformOf[d] \in Polled
    /\ \/ /\ run[d] = "RUNNING"
          /\ \E s \in {"WAITING_APPROVAL", "COMPLETED", "FAILED"} : run' = [run EXCEPT ![d] = s]
       \/ /\ run[d] = "STOPPING"
          /\ \E s \in {"CANCELLED", "COMPLETED"} : run' = [run EXCEPT ![d] = s]
    /\ UNCHANGED <<row, mission, health, lock, call, poll, control, batch, overlap, ops, crashes>>

--------------------------------------------------------------------------
(* runtime_event_worker selects the dispatches that are still active.       *)
Pollable(d) ==
    /\ row[d].linked
    /\ PlatformOf[d] \in Polled
    /\ row[d].status \in ActiveStatuses

Scan(w) ==
    /\ batch[w] = {}
    /\ \A d \in Dispatches : poll[w][d].pc = "idle"
    /\ \E d \in Dispatches : Pollable(d)
    /\ batch' = [batch EXCEPT ![w] = {d \in Dispatches : Pollable(d)}]
    /\ UNCHANGED <<run, row, mission, health, lock, call, poll, control, overlap, ops, crashes>>

InFlight(c, d) == poll[c][d].pc # "idle"

(* A handler has loaded the dispatch and has not written it yet.            *)
AtWork(d) == control[d].pc # "idle" \/ \E c \in Callers : InFlight(c, d)

(* sync_runtime_dispatch_phase3 up to its await: it loads the rows, then    *)
(* takes the lock.                                                          *)
BeginSync(c, d) ==
    /\ row[d].linked
    /\ PlatformOf[d] \in Polled
    /\ poll[c][d].pc = "idle"
    /\ lock[d] = 0
    /\ lock' = [lock EXCEPT ![d] = LockTTL]
    /\ overlap' = (overlap \/ AtWork(d))
    /\ poll' = [poll EXCEPT ![c][d] =
                   [pc |-> "sent", word |-> "UNKNOWN", saw |-> Bundle(d), age |-> 0]]

WorkerSync(w, d) ==
    /\ d \in batch[w]
    /\ BeginSync(w, d)
    /\ batch' = [batch EXCEPT ![w] = @ \ {d}]
    /\ UNCHANGED <<run, row, mission, health, call, control, ops, crashes>>

(* The lock is taken: the handler returns the row it loaded.                *)
WorkerSkips(w, d) ==
    /\ d \in batch[w]
    /\ poll[w][d].pc = "idle"
    /\ lock[d] > 0
    /\ batch' = [batch EXCEPT ![w] = @ \ {d}]
    /\ UNCHANGED <<run, row, mission, health, lock, call, poll, control, overlap, ops, crashes>>

OperatorSync(d) ==
    /\ ops < MaxOps
    /\ BeginSync(Frontend, d)
    /\ ops' = ops + 1
    /\ UNCHANGED <<run, row, mission, health, call, control, batch, crashes>>

(* External: the runtime reports the state the run has now, or none.        *)
RuntimeReports(c, d) ==
    /\ poll[c][d].pc = "sent"
    /\ \E w \in Vocabulary[run[d]] \cup {"UNKNOWN"} :
          poll' = [poll EXCEPT ![c][d] = [@ EXCEPT !.pc = "answered", !.word = w]]
    /\ UNCHANGED <<run, row, mission, health, lock, call, control, batch, overlap, ops, crashes>>

(* The report is written, and the lock is deleted whoever holds it by now.  *)
FinishSync(c, d) ==
    LET saw == poll[c][d].saw
        status == Normalize(poll[c][d].word)
    IN
    /\ poll[c][d].pc = "answered"
    /\ row' = [row EXCEPT ![d].status = Flush(@, saw.status, status)]
    /\ health' = [health EXCEPT ![PlatformOf[d]] = Flush(@, saw.health, "ONLINE")]
    /\ mission' = FlushMission(saw.mission, UpdateMissionFromDispatch(saw.mission, status))
    /\ lock' = [lock EXCEPT ![d] = 0]
    /\ poll' = [poll EXCEPT ![c][d] = NoPoll]
    /\ UNCHANGED <<run, call, control, batch, overlap, ops, crashes>>

(* The status request failed, or its report could not be stored: at most    *)
(* error texts are stored, and the lock goes.                               *)
FailSync(c, d) ==
    /\ poll[c][d].pc = "sent"
    /\ lock' = [lock EXCEPT ![d] = 0]
    /\ poll' = [poll EXCEPT ![c][d] = NoPoll]
    /\ UNCHANGED <<run, row, mission, health, call, control, batch, overlap, ops, crashes>>

--------------------------------------------------------------------------
(* POST .../stop and .../approval: no lock and no test of the row's status; *)
(* only Hermes offers them.                                                 *)
BeginControl(d, kind) ==
    /\ ops < MaxOps
    /\ row[d].linked
    /\ PlatformOf[d] = "hermes"
    /\ control[d].pc = "idle"
    /\ control' = [control EXCEPT ![d] =
                      [pc |-> "sent", word |-> "UNKNOWN", saw |-> Bundle(d), kind |-> kind]]
    /\ overlap' = (overlap \/ AtWork(d))
    /\ ops' = ops + 1
    /\ UNCHANGED <<run, row, mission, health, lock, call, poll, batch, crashes>>

(* External: what a stop or an approval does to the run.                    *)
Controlled(state, kind) ==
    CASE kind = "stop" /\ state \in {"RUNNING", "WAITING_APPROVAL"} -> {"STOPPING", "CANCELLED"}
      [] kind = "approval" /\ state = "WAITING_APPROVAL" -> {"RUNNING", "FAILED"}
      [] OTHER -> {state}

(* The adapter's default when the reply carries no status.                  *)
ControlDefault(kind) == IF kind = "stop" THEN "STOPPING" ELSE "RUNNING"

(* External: the runtime obeys, and replies with a status or without one.   *)
RuntimeObeys(d) ==
    /\ control[d].pc = "sent"
    /\ \E s \in Controlled(run[d], control[d].kind) :
          \E w \in Vocabulary[s] \cup {ControlDefault(control[d].kind)} :
             /\ run' = [run EXCEPT ![d] = s]
             /\ control' = [control EXCEPT ![d] = [@ EXCEPT !.pc = "answered", !.word = w]]
    /\ UNCHANGED <<row, mission, health, lock, call, poll, batch, overlap, ops, crashes>>

FinishControl(d) ==
    LET saw == control[d].saw
        status == Normalize(control[d].word)
    IN
    /\ control[d].pc = "answered"
    /\ row' = [row EXCEPT ![d].status = Flush(@, saw.status, status)]
    /\ mission' = FlushMission(saw.mission, UpdateMissionFromDispatch(saw.mission, status))
    /\ control' = [control EXCEPT ![d] = NoControl]
    /\ UNCHANGED <<run, health, lock, call, poll, batch, overlap, ops, crashes>>

(* The request failed: 409 and nothing is stored.                           *)
FailControl(d) ==
    /\ control[d].pc = "sent"
    /\ control' = [control EXCEPT ![d] = NoControl]
    /\ UNCHANGED <<run, row, mission, health, lock, call, poll, batch, overlap, ops, crashes>>

--------------------------------------------------------------------------
(* Time passes: locks run out, requests grow older; none outlives its       *)
(* timeout.                                                                 *)
Tick ==
    /\ \E d \in Dispatches : lock[d] > 0 \/ \E c \in Callers : InFlight(c, d)
    /\ \A c \in Callers, d \in Dispatches : InFlight(c, d) => poll[c][d].age < PollTimeout
    /\ lock' = [d \in Dispatches |-> IF lock[d] = 0 THEN 0 ELSE lock[d] - 1]
    /\ poll' = [c \in Callers |-> [d \in Dispatches |->
                  IF InFlight(c, d)
                  THEN [poll[c][d] EXCEPT !.age = @ + 1]
                  ELSE poll[c][d]]]
    /\ UNCHANGED <<run, row, mission, health, call, control, batch, overlap, ops, crashes>>

(* A worker process dies: its requests are gone, its locks stay.            *)
CrashWorker(w) ==
    /\ crashes < MaxCrashes
    /\ crashes' = crashes + 1
    /\ batch' = [batch EXCEPT ![w] = {}]
    /\ poll' = [poll EXCEPT ![w] = [d \in Dispatches |-> NoPoll]]
    /\ UNCHANGED <<run, row, mission, health, lock, call, control, overlap, ops>>

(* The frontend dies: a dispatch it was sending is never finished.          *)
CrashFrontend ==
    /\ crashes < MaxCrashes
    /\ crashes' = crashes + 1
    /\ poll' = [poll EXCEPT ![Frontend] = [d \in Dispatches |-> NoPoll]]
    /\ call' = [d \in Dispatches |->
                  IF call[d].pc \in {"sent", "answered", "refused"}
                  THEN [NoRequest EXCEPT !.pc = "crashed"]
                  ELSE call[d]]
    /\ control' = [d \in Dispatches |-> NoControl]
    /\ UNCHANGED <<run, row, mission, health, lock, batch, overlap, ops>>

--------------------------------------------------------------------------
Next ==
    \/ \E d \in Dispatches :
          \/ CreateDispatch(d) \/ RuntimeAccepts(d) \/ RuntimeRefuses(d)
          \/ FinishDispatch(d) \/ FailDispatch(d) \/ RunMoves(d)
          \/ OperatorSync(d) \/ RuntimeObeys(d) \/ FinishControl(d) \/ FailControl(d)
          \/ \E kind \in {"stop", "approval"} : BeginControl(d, kind)
    \/ \E w \in Workers : Scan(w) \/ CrashWorker(w)
    \/ \E w \in Workers, d \in Dispatches : WorkerSync(w, d) \/ WorkerSkips(w, d)
    \/ \E c \in Callers, d \in Dispatches :
          RuntimeReports(c, d) \/ FinishSync(c, d) \/ FailSync(c, d)
    \/ Tick
    \/ CrashFrontend

Spec == Init /\ [][Next]_vars

(***************************************************************************)
(* Fairness: the worker loop never ends, a handler that has its answer     *)
(* finishes, time passes.  Requests may fail, but not for ever: a runtime  *)
(* that is polled again and again reports again and again.                 *)
(***************************************************************************)
Fairness ==
    /\ WF_vars(Tick)
    /\ \A w \in Workers :
          /\ WF_vars(Scan(w))
          /\ \A d \in Dispatches :
                WF_vars(WorkerSync(w, d)) /\ WF_vars(WorkerSkips(w, d))
    /\ \A c \in Callers, d \in Dispatches :
          /\ WF_vars(FinishSync(c, d))
          /\ WF_vars(RuntimeReports(c, d) \/ FailSync(c, d))
          /\ SF_vars(RuntimeReports(c, d))
    /\ \A d \in Dispatches :
          /\ WF_vars(RuntimeAccepts(d) \/ RuntimeRefuses(d))
          /\ WF_vars(FinishDispatch(d) \/ FailDispatch(d))
          /\ WF_vars(RuntimeObeys(d) \/ FailControl(d))
          /\ WF_vars(FinishControl(d))

FairSpec == Spec /\ Fairness

--------------------------------------------------------------------------
(* Every variable keeps its type.                                           *)
TypeOK ==
    /\ run \in [Dispatches -> RunStates \cup {"NONE"}]
    /\ row \in [Dispatches -> [status : RowStatuses, linked : BOOLEAN]]
    /\ mission \in Missions
    /\ health \in [Platforms -> Healths]
    /\ lock \in [Dispatches -> 0..LockTTL]
    /\ call \in [Dispatches -> Requests]
    /\ poll \in [Callers -> [Dispatches -> PollRequests]]
    /\ control \in [Dispatches -> ControlRequests]
    /\ batch \in [Workers -> SUBSET Dispatches]
    /\ overlap \in BOOLEAN
    /\ ops \in 0..MaxOps
    /\ crashes \in 0..MaxCrashes

(* A row that says how the run ended tells the truth, whatever stale        *)
(* answers, stops and approvals were applied to it, in whatever order: no   *)
(* handler of main.py, phase2_app.py or phase3_app.py invents an ending.    *)
(* Only FAILED of a row without an id may mean that the request failed.     *)
SettledRowTellsTheTruth ==
    \A d \in Dispatches :
        LET status == Normalize(row[d].status) IN
        status \in Settled /\ (row[d].linked \/ status # "FAILED") => run[d] = status

(* The mission is put up for verification only after one of its runs has    *)
(* really completed (update_mission_from_dispatch).                         *)
VerifyingIsEarned ==
    mission.status = "VERIFYING" => \E d \in Dispatches : run[d] = "COMPLETED"

(* What the row says is not the end of anything.                            *)
StillOpen(d) == row[d].status # "ABSENT" /\ Normalize(row[d].status) \notin Settled

(* The ways to lose sight of a run, and the only ones: an open row that the *)
(* worker does not poll is being sent right now, or was abandoned by a      *)
(* crash of the process that was sending it, or the reply to its dispatch   *)
(* had no id (main.py stores None), or a reply used a word ACTIVE_STATUSES  *)
(* of phase3_app.py does not have.                                          *)
StrandedOnlyByLoss ==
    \A d \in Dispatches :
        StillOpen(d) /\ ~Pollable(d) =>
            \/ /\ row[d].status = "DISPATCHING"
               /\ call[d].pc \in {"sent", "answered", "refused", "crashed"}
            \/ call[d].pc = "done" /\ ~row[d].linked /\ row[d].status # "DISPATCHING"
            \/ row[d].status \in OddWords

(* A mission that is EXECUTING has a linked dispatch whose row is still     *)
(* open: whichever handler settles the last one moves the mission on too,   *)
(* although each writes only what differs from the copy it loaded before    *)
(* its await, while others write the mission for other dispatches.  Only    *)
(* two handlers at once on one dispatch (a lock that ran out in a request,  *)
(* a stop or an approval in a poll) can leave a mission EXECUTING for good. *)
NoMissionLeftExecuting ==
    mission.status = "EXECUTING" => overlap \/ \E d \in Dispatches : row[d].linked /\ StillOpen(d)

(* The worker brings a linked dispatch up to date: once the run has ended,  *)
(* the row comes to say so and keeps saying so, through crashes of workers, *)
(* failed polls and late operator requests, unless a reply in a word the    *)
(* worker does not know takes the row out of its sight.                     *)
EndIsSeen ==
    \A d \in Dispatches : \A s \in Settled :
        (row[d].linked /\ PlatformOf[d] \in Polled /\ run[d] = s)
           ~> [](Normalize(row[d].status) = s \/ row[d].status \in OddWords)

--------------------------------------------------------------------------
(* What the phases that read a row see in its status.                       *)
Reported(d) ==
    LET status == Normalize(row[d].status) IN IF status \in Reports THEN status ELSE "OTHER"

(* Once a runtime has taken a dispatch over, its row stays linked to the    *)
(* run, and whatever answers arrive in whatever order, what it reports next *)
(* is what CollaborationBus and the other readers of phase2_app.py's words  *)
(* expect: an ending is never replaced by another.                          *)
RowsFollowReports ==
    [][\A d \in Dispatches : row[d].linked =>
          row'[d].linked /\ Reported(d)' \in MayFollow(Reported(d))]_vars

--------------------------------------------------------------------------
(* What is true of a run and what a row shows, in the words of              *)
(* DispatchPromise.                                                         *)
TrueState(s) == IF s = "NONE" THEN "none" ELSE IF s \in Settled THEN s ELSE "going"

ShownState(r) ==
    LET status == Normalize(r.status) IN
    IF r.status = "ABSENT" THEN "absent"
    ELSE IF ~r.linked /\ r.status = "DISPATCHING" THEN "sending"
    ELSE IF ~r.linked /\ r.status = "FAILED" THEN "refused"
    ELSE IF status \in Settled THEN status
    ELSE IF r.linked /\ r.status \in ActiveStatuses THEN "open" ELSE "lost"

RealRun == [d \in Dispatches |-> TrueState(run[d])]
ShownRow == [d \in Dispatches |-> ShownState(row[d])]

Promise == INSTANCE DispatchPromise
    WITH truth <- RealRun, shown <- ShownRow, verifying <- (mission.status = "VERIFYING")

(* The handlers of main.py, phase2_app.py and phase3_app.py keep the        *)
(* promise: no late answer, stop or approval shows an ending the run did    *)
(* not have, changes one ending into another or asks for verification of    *)
(* what never completed, and the end of an accepted run is shown unless the *)
(* run was lost from sight.                                                 *)
KeepsThePromise == Promise!PrmSpec
==========================================================================
