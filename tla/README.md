# Formal models of BeezaOffice

BeezaOffice is a control plane for a company of AI agents.  A FastAPI process
(`app/agent_room_bootstrap.py`, which imports fourteen "phases") keeps missions,
tasks, meetings, procedures and budgets in PostgreSQL, sends work packages to
external agent runtimes (OpenClaw, Thclaws, CherryAgent, Hermes) over HTTP, and
follows that work with background workers.  `deploy/k8s/beezaoffice.yaml` starts
three replicas of this process and enables every worker in each; what coordinates
them is PostgreSQL (READ COMMITTED, one session per request or tick) and a few
Redis locks with a time to live.

This directory holds TLA+ models of the parts where those processes, the operators
and the runtimes meet, the TLC configurations that check them, and TLAPS proofs of
the properties that matter most.

## How the code is turned into actions

* **Cuts.**  A handler or a worker step is cut where it awaits the network, and
  where it commits when somebody else can act in between.  What lies between two
  cuts is one action.
* **Sessions.**  `SessionLocal` is created with `expire_on_commit=False`
  (`main.py:35`): a session keeps the attribute values it loaded, across commits and
  awaits, until it ends.  Each handler therefore carries the copy it loaded
  (`saw`, `held`), judges by that copy, and its commit writes only the attributes
  whose assigned value differs from the loaded one (`Flush`, `Store`): exactly what
  SQLAlchemy's UPDATE does.  Most hazards of this code live in that difference.
* **Redis locks** are a remaining lifetime that is taken when it is 0, deleted in
  `finally` *whoever holds it by then*, and that runs out by itself.
* **Crashes** take away a process's requests and sessions; rows and locks stay.
* **The remote runtimes** are external: every status, refusal or silence that their
  adapters let through is a possible step.

## Inventory

| Component | State | Operations | What is hard | What makes it correct |
|---|---|---|---|---|
| Runtime dispatch and control (`main.py`, `phase2_app.py`, `runtime_adapters.py`) | `runtime_dispatches`, `missions`, `runtime_connectors` | dispatch, poll, stop, approve | rows loaded before an await and written after it; crash in the await | rows and missions never tell of an ending that did not happen; a run is lost from sight in three ways only |
| Runtime event worker and stream (`phase3_app.py`) | `runtime_events`, Redis `dispatch-sync:*` | scan, synchronise, SSE stream | lock shorter than the request; word lists that differ; id order against commit order | every end of a run that is still asked for is seen; the last dispatch to end moves its mission on unless two handlers overlapped on one |
| Collaboration bus (`collaboration_service.py`, `phase4_app.py`) | `collaboration_tasks`, messages | handoff, tick, mirror, follow-up, escalate, action, review | three unlocked ticks with old copies; operators act at any time | dependencies, review gate, no second run but by a command or a stale copy, no lost task |
| Meeting manager (`meeting_service.py`, `phase5_app.py`) | `meetings`, turns, participants | start, dispatch turn, mirror, next round, decide, cancel | 30 s lock around a 300 s await; late turn after a cancellation | turns in order, at most one at a time, cancelled stays cancelled |
| Governance (`governance_service.py`, `governance_hardening.py`, `phase6_*.py`) | identities, approvals, budgets, ledger, audit chain, kill switch | authorise, request and decide approval, use, charge, append audit, switch | check before and record after the handler; two checks that ask for different actions; concurrent approvers; chain head | nobody approves his own work, a used approval is spent, budgets hold but for overlaps, the chain has no fork |
| Agent registry (`registry_service.py`, `phase7_*.py`) | registered agents, identities, delegations, workloads | patch, heartbeat, delegate, reconcile | patches and reconciliations that overlap | managers form a hierarchy; identities follow their agents |
| Scheduler (`scheduler_service.py`, `phase8_*.py`) | routing decisions, circuit breakers, `task.context.routing` | route, fail over, reroute, tick | lock released before the commit; one JSON column with several writers | limits on attempts and failovers hold; one decision per attempt |
| Evaluation (`evaluation_service.py`, `phase9_*.py`) | evaluations, verification in `task.result` | evaluate, reopen, replay | writes into the same task rows as the bus, and may change what it judged | a text is judged once; what was accepted stays accepted |
| SOP engine (`sop_service.py`, `sop_hardening.py`, `phase10_*.py`) | `sop_runs`, `sop_node_runs` | advance, activate, sync, roll back, decide, cancel | decisions and cancellations take no lock | graph order, rollback in reverse order, ended stays ended |
| Protocol gateway (`protocol_service.py`, `phase11_*.py`) | protocol tasks, events, webhook receipts | submit, cancel, synchronise, receive webhook, stream | looked up before recorded, and recorded shorter than looked up; ids drawn before commits | one message, one task; streams miss nothing but what was in flight |
| Enterprise platform (`enterprise_service.py`, `phase12_*.py`) | tenants, resource scopes, sessions and keys, SIEM sinks, back-up runs | log in, scope, admit, export, checkpoint | scoping in a second commit; keys in bodies that no gate sees; collectors that overlap | owners stay, paths are gated; no audit record is skipped |
| Executive business (`business_service.py`, `business_hardening.py`, `phase13_*.py`) | outcome rows, usage meter | synchronise, edit by hand | worker beside manual entries; two commits and a lock that expires | manual entries yield to nothing but a synchronisation that is older than they are; the meter errs by a bounded number |
| Commercial edition (`commercial_*.py`, `phase14_*.py`) | licences, contract rows, deployments, onboarding | activate, enforce, register, advance | checks before creations; several tasks behind one check; rows rewritten from an old plan | limits hold for what was compared with them, contracts hold; ready means ready |
| Pilot gate, agent rooms, company bootstrap, portfolio | checklists, projections, seed data | mostly read-only or sequential | – | – |
| Migrations, static frontend, deployment | – | – | – | – |

`PROJECT.json` lists the same components with their files and status, and under
`hazards` every place of the code that is exposed to one of these difficulties,
with the property that covers it or the reason why none does.

Interactions: the bus, the meeting manager and operators create dispatches through
`dispatch_runtime`; polls, stops and approvals are all that moves a dispatch row on
afterwards, and the bus and the meetings mirror that row; the scheduler wraps the
bus's `dispatch_task`; the SOP engine creates bus tasks and mirrors them; evaluation
writes verdicts into bus tasks, which the SOP engine waits for; governance wraps
every HTTP request (middleware) and every runtime call (`governed_dispatch`).

## Modules

| Module | Models | Uses | Runs |
|---|---|---|---|
| `RuntimeDispatch` | phases 1 to 3 | EXTENDS `DispatchReports`; `DispatchPromise` (refined) | `dispatch`, `missions` |
| `DispatchPromise` | what the timeline promises | – | as the property `KeepsThePromise` |
| `DispatchReports` | what a dispatch row may say to its readers, and next | – | through the two modules that extend it |
| `CollaborationBus` | phase 4 | EXTENDS `DispatchReports` | `bus`, `replicas` |
| `Meetings` | phase 5 | – | `meetings` |
| `Governance` | phase 6 | – | `governance` |
| `Registry`, `Routing` | phases 7 and 8, composed | `Routing` EXTENDS `Registry` | `routing` |
| `Evaluation` | phase 9, with the part of the bus that touches its rows | – | `evaluation`, `evaluation_gate` |
| `SOPEngine` | phase 10 | – | `sop` |
| `ProtocolGateway` | phase 11, and the SSE cursor of phase 3 | – | `gateway` |
| `Enterprise`, `Business`, `Commercial` | phases 12, 13, 14, composed in `MCPlatform` | – | `platform` |

Proofs are in `DispatchProofs` (of `RuntimeDispatch` and of `Routing` with `Registry`),
`CollaborationBusProofs`, `SOPEngineProofs`, `GovernanceProofs`, `PlatformProofs`,
`ProtocolGatewayProofs`, `MeetingsProofs`, `EvaluationProofs`.
`MC*` modules give the constants of the instances.

### RuntimeDispatch and DispatchPromise

The dispatches of one mission, from `dispatch_to_agent_runtime` (`main.py`) over
`sync_runtime_dispatch_phase3` and its worker (`phase3_app.py`) to stop and approval
(`phase2_app.py`).

| State | In the code |
|---|---|
| `row[d]` | `runtime_dispatches.status`; `linked`: `remote_id` is stored |
| `mission`, `health` | status and progress of the mission; `runtime_connectors.status` |
| `lock[d]` | remaining lifetime of the Redis key `dispatch-sync:<key>` |
| `call`, `poll`, `control` | the dispatch, status and stop/approval requests in flight with the rows their sessions loaded (`saw`) |
| `batch[w]` | the keys `runtime_event_worker` still has to synchronise in this round |
| `run[d]` | external: the run at the remote runtime |
| `overlap` | history: two handlers were at work on one dispatch at the same time |

`CreateDispatch` / `RuntimeAccepts` / `RuntimeRefuses` / `FinishDispatch` /
`FailDispatch` are the two halves of the dispatch around its await; `Scan`,
`WorkerSync`, `WorkerSkips`, `OperatorSync`, `RuntimeReports`, `FinishSync`,
`FailSync` the worker and the manual synchronisation; `BeginControl` …
`FailControl` stop and approval; `Tick` lets time pass for locks and requests.
`normalize_remote_status` and `update_mission_from_dispatch` are operators.

Runtimes are taken as the adapters let them through.  A reply to a dispatch may carry no
id: `main.py:698` then stores None and the row is never asked for again (`linked` stays
FALSE).  A state may be reported in several words (`Vocabulary`), and any report may lack
a status, for which the adapter says UNKNOWN; the first reply is stored as it comes
(`main.py:701`), later ones through `Normalize`.  `OddWords` are those that
`ACTIVE_STATUSES` does not have, so that a row which says one leaves the worker's sight.

Abstracted: error texts, output, latency and `waiting_for`; `thclaws` behaves like
`openclaw` (both answer when the run is over); the projection of a snapshot on
`runtime_events` is left out, a failure of that part is a `FailSync`.

`DispatchPromise` is the abstract specification: for each dispatch `truth` (the run
itself), `shown` (the row; `"lost"` when it is open and nobody asks the runtime any more)
and whether the mission asks for verification, without locks, sessions or processes.  It
promises that what is shown as an ending is the ending the run had, that the mission asks
for verification only when some run has completed, that a late answer may hide an ending
again but never show another one, and that the end of an accepted run is shown in the end
unless the run is lost from sight.  RuntimeDispatch implements it under the mapping
`RealRun`, `ShownRow`, `mission.status = "VERIFYING"`: TLC checks the whole promise
(`KeepsThePromise`), TLAPS its safety part for all constants.

### CollaborationBus

Handoffs between agents: `collaboration_service.py` with the endpoints of
`phase4_app.py`.

| State | In the code |
|---|---|
| `task[t]` | `collaboration_tasks`: `status`, `dispatch_key` (`key`), `follow_up_count`, `next_follow_up_at` (`next`: null, ahead, past), deadline missed (`late`), `auto_dispatch` |
| `disp[t][k]` | status of the k-th dispatch row of the task, as its readers see it; `REFUSED` is FAILED without a `remote_id` |
| `tick[w]` | the `collaboration_tick` of a replica: which tasks it listed, which it has still to do, and the copies its session holds |
| `request[o]` | a handoff, action or review request that goes on to `dispatch_task` |
| `done`, `finished`, `approved` | history: which tasks were ever completed; which have had a dispatch that said so; whose last command was a completion or an acceptance |

A tick is `StartTick`, then for each listed task either `TickTask` (mirror, release,
return before the network, follow up) or `TickDispatch` and `TickReply` around the
await.  `MirrorDispatchState`, `FollowUpTask`, `DependenciesReady`, `Dispatching`,
`Dispatched`, `Commanded` and `Reviewed` are the functions of the code on a held
copy.  `SeenStatus` is what a session of SQLAlchemy returns when it selects a
dependency: its own copy if it already holds one, else the stored row.

`DispatchMoves` stands for module RuntimeDispatch: polls, stops and approvals move the row
of a dispatch that a runtime took over.  The two modules meet in **DispatchReports**:
`Reports` are the words a reader sees (`OTHER` is any word that `normalize_remote_status`
passes on, and which the mirror ignores, as it ignores STOPPING), `MayFollow` what a row
may say next.  A late answer may put an open word back over an ending, so a task that was
already COMPLETED may see its dispatch running again; what never happens is that one
ending takes the place of another.  CollaborationBus and Meetings assume `MayFollow`;
`RowsFollow` (DispatchProofs) shows that the handlers of RuntimeDispatch keep to it.
`Occurring` says which of the words occur in an instance.

Abstracted: messages, events and the mission row, which the bus only writes; tasks
have the routing mode FIXED, for which the scheduler's and the registry's wrappers of
`dispatch_task` change nothing; a refusal by governance is one of the reasons of a
`REFUSED` reply; each task of a tick is committed at its end, while the code commits
the tasks that were only looked at together at the end of the tick (nobody's
decision in between reads them, except other sessions, which then see them later);
the follow-up counter is capped one above the limit; the batch limit of 100 tasks is
not reached.

### SOPEngine

One run of a procedure: `sop_service.py` with the functions that `sop_hardening.py`
puts in place of `sync_task_node` and `sop_tick`, and the endpoints of
`phase10_app.py`.

| State | In the code |
|---|---|
| `run` | `sop_runs.status` |
| `row[r]` | `sop_node_runs.status`; `<<n, 0>>` is node n, `<<n, k>>` its k-th rollback |
| `task[r]` | the collaboration task of the row: status and `result.verification.status` |
| `lock` | the Redis key `sop-run-lock:<run>` |
| `session[s]` | a session that has loaded and not committed: an advance, a decision or a cancellation, with the rows it loaded |
| `done`, `again` | history: nodes completed at some time; rows that were given a second task |

Every operation is its load and its commit: `BeginAdvance` / `FinishAdvance`
(`advance_run` under the lock), `BeginDecision` / `FinishDecision` / `AdvanceDecided`
(`decide_node`, then `advance_run` in the same request), `BeginCancel` /
`FinishCancel`.  `AdvanceRun` is the body of `advance_run` as a function of the held
rows: `Synced`, `Activate`, `AdvanceRollback`.  A commit writes only the columns that
the session changed (`Flush`).  `TaskMoves` stands for the bus, its operators and the
evaluator, which move tasks as they like.

Abstracted: payloads, the mission row (only written), the branch for a deleted
version or mission; the order inside a layer of `topological_order` is left open (it
is alphabetical); the row statuses READY and SKIPPED, which nothing assigns, do not
exist; tasks are read at the commit of an advance instead of one statement earlier;
tasks whose row is neither live nor held live are frozen, since nothing reads them.
An advance has no await and is taken to end before its 30 s lock does, so the lock
expires only when no advance is under way (after a crash).


### Governance

Every mutating request, as `harden_governance_context` (`governance_hardening.py`)
and `governance_middleware` (`phase6_app.py`) treat it, around the functions of
`governance_service.py`; the dispatches of the workers, which only
`governed_dispatch` guards; and the governance endpoints that change state.

| State | In the code |
|---|---|
| `approval[k]` | `governance_approval_requests`: status, requester (`by`), action, target, `expires_at` passed (`expired`) |
| `enabled` | the control `runtime_execution_enabled` |
| `spent[i]` | the total that `budget_totals` computes for an identity |
| `audit` | `governance_audit_records` in the order of their ids: the place of the predecessor (`prev`; 0 is GENESIS), what was hashed and what was stored |
| `session[c]` | a request in flight: the step it waits at, its identity, path and headers, the total it was checked against (`saw`), the approval it will mark (`use`, `marks`) |
| `approvers`, `used`, `redecided`, `raced` | history: who approved; uses that were committed; approvals decided over a status that was no longer PENDING; identities charged on an outdated total |

A request for work is `RequestWork` (hardening and authorisation of the action that
`ROUTE_RULES` names for its path, `ActionOf`; 403, 428 with a new approval request, or on
to the handler), `Dispatch` (the second authorisation, in `governed_dispatch`, which asks
for `runtime:dispatch` whatever the path, and with which the call leaves), `Answer`, and
then the transaction that marks the approval, reserves the budget and appends to the
ledger: `MarkApproval`, `TakeAuditLock`, `AppendAudit`.  The two authorisations ask for
different permissions and look for approvals of different actions (`ValidApproval`), so a
handoff of high risk passes the first without one, leaves on an approval of
`runtime:dispatch`, and marks none.  A dispatch of its own that is refused fails its
request; a handoff or a task whose dispatch is refused is BLOCKED, and its request
succeeds and is accounted for (`Returned`).  A request to `/api/governance/` is
`RequestControl` and the two halves, load and commit, of its handler.  The locks of
PostgreSQL are read off the sessions: whoever is at `"append"` holds the advisory lock,
whoever `HoldsRow` the row of an approval.  The UPDATE of the approval goes out before the
advisory lock is asked for when `record_budget_entry` flushes, and after it otherwise, so
both orders occur, and `LoseDeadlock` is PostgreSQL ending one of two transactions that
wait for each other.

Abstracted: unknown, suspended and under-cleared identities, DENY policies and a wrong
token are requests without permission; what makes an approval necessary (the risk header,
an APPROVAL policy) is `high`; three actions of work stand for those of `ROUTE_RULES`
(`WorkActions`); services may dispatch, so only the kill switch stops the workers; daily
and monthly budgets are one limit and no day ends; entries of type RELEASE, which nothing
writes, do not exist; a record names its predecessor by its place instead of its hash, and
of the truncated columns only the User-Agent is kept.  The database may hold a pending
approval request at the start.  The kill switch stops what is authorised after it, never a
call that is under way.


### Meetings

One meeting: `process_meeting` and its helpers (`meeting_service.py`) in every
replica's worker and in the requests, and start, cancel and decide
(`phase5_app.py`).

| State | In the code |
|---|---|
| `meeting` | `meetings`: status, `current_round`, `max_rounds`, the participants |
| `turn[<<r, i, c>>]` | `meeting_turns` of round r and participant i, with the status of its `runtime_dispatches` row (`sent`) and whether the turn timeout has passed (`late`); c counts rows that two starts made twice |
| `lock` | who set `meeting-lock:<key>` |
| `process[p]` | a run of `process_meeting`: the turn or round it read and what it awaits |
| `request[q]` | a start, a cancellation or a decision that has loaded its rows |
| `tasks` | the requests whose decision created action tasks |

`Look` takes the lock and chooses what the process does; each of
`MirrorTurnDispatch`, `DispatchTurn` … `FinishTurn`, `OpenRound` and
`CloseDiscussion` is one commit.  `LockExpires` takes the lock from a process that
awaits its runtime (30 s against up to 300 s); `Leave` deletes it whoever holds it.
`DispatchMoves` lets the row of a turn say what module DispatchReports allows
(`MayFollow`, kept by the handlers of RuntimeDispatch: theorem `RowsFollow`), so a
turn may also meet a hidden ending, or a word that nobody knows.  Abstracted: texts,
events, votes and the mission; a turn that gets late is a step of its own.

### Registry and Routing

`Registry` is the agent row with its governance identity, patches of operators (load
and commit), heartbeats, delegations and the reconciliation of workloads
(`phase7_app.py`, `phase7_runtime.py`, `registry_service.py`).  `Routing` extends it
by the scheduler (`scheduler_service.py`, `phase8_*.py`): sessions that load tasks and
agents, then route, dispatch, fail over or re-route on those copies and write the
columns that changed (`Stored`, `Assigned`).  The routing context is one JSON column
and is written whole, as in the code: `stale` remembers the tasks on whose row a
session wrote over somebody else's commit, `raced` that a patch did.  The Redis lock
of `route_task` is released before the commit and orders no two sessions, so it is
left out.  The weighted score is left out: any agent that passes the hard filters may
be selected.  Statuses that the scheduler treats alike are one.

### Evaluation

The evaluator ticks of every replica with their shared cursor, requested evaluations, the
counters of the agent, reopening, and replays (`evaluation_hardening.py` over
`evaluation_service.py`, `phase9_app.py`), beside what the bus and its operators do to the
same rows.  A result is a text, by its number: each text that `stable_snapshot` hashes
differently gets the next one.  What an evaluation finds in a text (`Qualities`) is chosen
when it is written, and `Verdict` is the decision of `evaluate_components` on it.  Texts
are made by the end of a dispatch, by the mirror that merges its output, by the actions
complete and block, which write their note and payload into the result (`Rewritten`), and
by the evaluator itself: `bounded_payload` cuts a result that is too long with its verdict
(`Written`, `long`, `cut`), and what it leaves is another text, with findings of its own.
A tick is `TickLoad`, `Judge` and `Commit`; `crossed` remembers tasks that were judged by
a session while another one committed.  `DispatchEnds` is the row of a dispatch as the
evaluator meets it, narrower than DispatchReports: a run ends once for each result and no
late answer hides that.

### ProtocolGateway

Protocol tasks of A2A, MCP and OpenAI clients and of webhooks (`phase11_app.py`,
`phase11_hardening.py`, `phase11_runtime.py`, `protocol_service.py`).  A session is a
request, a subscription or a worker's tick; it works on copies, its first flush locks the
row (`new` holds the rows it has flushed, `RowFree`), and its events (`pending`) have
drawn their ids before they are committed.  `Insert` is `create_protocol_task` up to its
unique constraint, `Run` and `Receipt` the two commits of a webhook that starts an SOP
run, `Tick`/`Look`/`Sync`/`Commit` the worker, `Refresh` and `Deliver` a subscription,
`StreamGlobal` the global event stream.  Deliveries carry keys in full; a receipt keeps
100 and 180 characters of them (`Stored`) and a task's message id 180 (`MessageOf`), while
the lookup compares the whole key (`Received`).  An instance is one of five `Scenarios` of
kinds of requests; together they hold every action.  `BusMoves` is what protocol clients
see of the bus: running tasks end, wait for a human, and are resumed.  It is checked here
as an assumption, not derived from CollaborationBus.

### Enterprise, Business, Commercial

`Enterprise` has the ownership of resources: a mission made by the tenant's own
endpoint is scoped in the transaction that creates it, everything else in a second
commit, with what a crash, a retry and the start of a replica do in between (`exposed`,
`claimed`); the gate that lets requests in; and the SIEM export with its checkpoint, for
several external collectors.  The gate looks at the resource that a path names.  A key in
a body, of an MCP tool or a webhook, reaches its handler unchecked (`Passes`), and
`strangers` remembers which way a foreign request was let in.

`Business` is the KPI synchronisation with its two commits and its expiring lock against
manual entries; `Flushed` writes columns, so that a row may end up a mixture, and `due`
counts the verifications that rows really went through.  A synchronisation keeps the rows
it loaded first; those it had not found then it looks for again in each of its two steps
(`Seen`); a row of that kind which another writes meanwhile it takes for its own
(`met`, counted in `encounters`).  `doubtful` is left for two cases: somebody wrote over a
row that was not what he had read, or broke off before counting what he had written.

`Commercial` has licences and contract rows, the enforcement of a write request (rows
rewritten, decision, start of the tasks), the registration and heartbeat of deployments,
onboarding, and the readiness derived from all of them.  One request may start several
tasks behind one check (`StartTasks`: a decision of a meeting, the first steps of an SOP),
and tasks start or come back without any check (`WorkerTask`: the worker of the SOPs, a
revision, a reopening).  A new token sets this system's own deployment (`Own`) to ACTIVE,
revoked or not.  Of the ghosts `top` is the largest limit ever in force and `waived` the
tasks and deployments that no limit was compared with, or that were let in between
another's check and creation.

The layers meet only in the tenant of a mission, so `MCPlatform` runs one part of one
layer at a time (`part`).

## Runs

| Run | Instance | What it shows |
|---|---|---|
| `dispatch` | one Hermes dispatch, one worker, one operator request of any kind, one crash of either process; lock 1 tick, request 2 ticks; a runtime with two words for a state, which may send no id and no status | the detailed dispatch keeps the abstract promise however polls, stops and approvals overlap; every ending is seen for good, and a row is stranded, only by a crash, a reply without an id or a word the worker does not look for |
| `missions` | two CherryAgent dispatches of one mission, one worker beside one synchronisation by an operator; lock and request 1 tick each | the last handler to settle a dispatch moves the mission on from EXECUTING, unless two handlers were at work on one dispatch at once |
| `bus` | two tasks, the second after the first, human review and a deadline; one replica, one request, one crash; rows that say RUNNING, WAITING_APPROVAL, an unknown word, COMPLETED or CANCELLED and may be reopened by a late answer | dependencies and the review gate hold; dependents are released, and a task that is being sent, or whose run has ended, moves on |
| `replicas` | one task, two replicas without a lock, one operator command; rows that say RUNNING, STOPPING, COMPLETED or FAILED | a reopened task needs a command or a copy loaded before somebody else's commit; a second run needs such a copy until the first command, no tick that holds the stored row starts one over a dispatch that says RUNNING or WAITING_APPROVAL, and only a command makes a row forget its dispatch |
| `sop` | a fork: one verified task with a rollback, then a task beside an approval with a rollback; one replica, one decision or cancellation, one crash | stale rows, late commits and orphaned locks never start a node early, twice, or compensate out of order; an active run in which nobody works moves on |
| `governance` | two clients of two seeded identities, two paths (`direct` asks for `runtime:dispatch`, `handoffs` for `handoff:create`), one approval request that waits or is created, costs 0 and 1 against a limit of 1, four requests, one crash | four eyes; no work leaves on an approval whose use was committed, by whichever path; the budget holds but for overlaps; the advisory lock keeps the audit chain in one line; whatever waits for the row lock and the advisory lock, somebody can go on |
| `meetings` | two speakers in one round, a speaker beside an observer in two, a speaker beside an optional one without a runtime; two processes, two requests (so that two starts may open the first round twice), one crash or expired lock; rows that say RUNNING, an unknown word, COMPLETED or FAILED and may be reopened by a late answer | one speaker at a time and in order while the lock holds; an ended meeting stays ended; a discussion ends |
| `routing` | six scenarios of two agents, two tasks, two sessions, two patches, one heartbeat, a delegation | failover goes elsewhere and is bounded unless a session lost the context; a batch does not overbook; only patches that overlap make a circle of managers or an identity that outlives its agent |
| `evaluation` | five scenarios of one or two tasks and a replay, one or two sessions, an operator who may rewrite results; sound, erroneous and long texts | a text is judged and counted once unless sessions overlapped or an evaluation was forced, and another one made by writing a verdict comes only of a long one; an accepted text stays accepted; the cursor reaches every text and every replay is compared |
| `evaluation_gate` (violated) | one automatic task, one session | a failed verification is undone by the next tick of the bus |
| `gateway` | five scenarios of two sessions and up to four messages; a webhook key that is cut to another's (5 to 2, one message), and one of an SOP run that is cut (4 to 3) | a message makes one task, however deliveries overlap, die or are cut; a second SOP run needs an overlap, a death or a key that is cut; a subscription ends with the event of its task's end; the stream misses only what was in flight when it went past |
| `platform` | six parts: tenants, pull interfaces, KPI synchronisation, quota on tasks (two requests of up to two tasks), deployments (one of them this system's own), onboarding | an owner is the maker but for the window between two commits, and so is whom a path lets in; the SIEM cursor skips nothing; the meter errs by at most the rows a synchronisation met; entries yield only to synchronisations that had loaded an estimate; limits hold for the first task of a request and for counted deployments; ready means every step done |

**Bounds.**  `MaxOps`, `MaxCrashes`, `MaxMoves`, `MaxFaults`, `MaxChanges` and
`MaxRequests` bound what operators do and what goes wrong, `MaxDispatches`,
`MaxApprovals`, `MaxCopies`, `MaxResults`, `MaxEvals`, `MaxPolls`, `MaxStarts` and
`MaxAudit` what is created, `MaxBatch` the tasks of one request, `MaxFollowUps`,
`MaxRouteAttempts` and `MaxFailovers` are limits of the code (smaller here: what is
compared is only "below the limit" and "at it").  One unit of time in `dispatch` is 15 s:
the lock lives one unit, a request two, as in the code; in `missions` both last one unit,
so that the lock may or may not run out before the request does, and the overlaps are told
by `overlap`.  The third text of `MaxResults` stands for those that are not cut any more:
in the code a cut preview is wrapped, quoted and perhaps too long again, a number of
times, until a cut leaves it as it was.  The hazards need at most two sessions over one
row, or two rows of which one waits for the other, and one fault, and the instances
contain those: each property has a mutant of the code (see `PROJECT.json`) that its run
refutes.  The words that dispatch rows say (`Occurring`) are shared out over the two runs
of the bus: between them every word occurs, and each run has one that the mirror follows,
one that it ignores and two endings; the theorems hold for all of them together.  Several
instances of one module are put into one run as scenarios chosen by `Init`, so that each
stays small.  Deadlock is not checked: when all work has ended and the budgets of
operators and faults are spent, the system has nothing to do.

**Fairness.**  Worker loops run for ever (`while True` around `asyncio.sleep`), so a
scan, a tick and each of its steps are weakly fair for every replica.  A handler that
has its answer finishes.  Adapters have timeouts (`runtime_adapters.py`), so every
request is answered or fails; that a runtime which is asked again and again answers
again and again is the one strong fairness, needed because a poll may fail any finite
number of times.  In SOPEngine the run is taken to be among those that its replica
advances, a session that has loaded its rows commits, and an orphaned lock expires.  In
Meetings and Business Redis drops a key in time, and the turn timeout passes.  Operators
owe nothing, and a run need never end.  Governance, Routing, ProtocolGateway,
Enterprise and Commercial are checked for safety only; that nobody waits in a circle
for PostgreSQL's locks is the invariant `SomebodyGoesOn`.

## Proofs

TLC checks the instances above; the theorems hold for every value of the constants
that satisfies the module's assumption.

**DispatchProofs**, the runtime dispatch.  `TypeOK` is not inductive alone: a report
could come from a run that does not exist, or a reply could arrive for a row that is linked
already.  `IInv` adds, for each dispatch, `Linkage` (which phases of the request go
with which rows; nobody polls or controls a row without remote id) and `Truth`
(every word under way, in a reply, a report or a row, that names an ending names the
ending of the run; runs that ended stay ended).  From it follow `TypeCorrect`,
`RowsTellTheTruth` and `OnlyLossesStrand`; `VerifyingIsAlwaysEarned` is inductive
relative to it, because a handler projects only the word it was told.

Missions need more (`ExecutingInv`).  A commit writes the mission's status only where
it differs from what the session had loaded, so a poll that ends last need not be the
one that moves the mission on.  As long as no two handlers were at work on one dispatch
(`~overlap`), every dispatch `WorksAlone`: one handler at most is at it, and its copy of
the row's status is the row's.  While the mission is EXECUTING some dispatch is linked, is
open, and whoever works on it has seen the mission EXECUTING (`CarriesMission`), so that
the end of that dispatch is written to both.  `MissionsMoveOn` follows, for any number of
dispatches, workers and operators, any platforms and any lifetime of the lock.  **The
exemption cannot be dropped**: with the lock of the code, which does not outlive the
request, and with stops and approvals, which take no lock, two handlers do meet on one
dispatch, and the one that ends last may write an end to the row and not to the mission, or
RUNNING to the mission and not to the row, because it had seen the other one already.  TLC
finds a mission left EXECUTING in the instance of `missions` when the property is stated
without `overlap`.

`PromiseIsKept` is the refinement `Spec => Promise!PrmSafety`: under `IInv` each action is
a step of the promise or a stutter.  A write to a row is `Accepted`, `Refused`, `ShowEnd`,
`Hide` or `Report` according to what the row and the word were; `Truth` is what makes the
ending that is shown the run's own, and `VerifyingIsEarned` what makes `MissionFollows`
true.  What loses a run from sight is a `Hide` into `"lost"`.  The liveness part
(`EndsAreShown`) is TLC's.

`RowsFollow` discharges what CollaborationBus and Meetings assume of the rows
(`DispatchReports`): a row that a runtime took over stays linked, and what it reports next
`MayFollow` what it reported.  By `Truth` a word that names an ending is the run's own
(`EndingIsTold`), and a run that has ended keeps its ending (`EndIsFinal`), so two endings
of one row are the same ending (`ReportFollows`).  With it the bus's theorems hold of rows
that RuntimeDispatch moves, and not only of rows that an assumption moves.

**DispatchProofs**, registry and scheduler.  `Above` walks from manager to manager by a
recursive function, and `validate_manager` looks for the agent in the walk.  `Hierarchy`
says the same without the walk: every non-empty set of agents has a member whose manager
is outside it.  If an agent were in his own walk, the walk would be such a set
(`NobodyAboveHimself`); if a new manager's walk does not meet him, the manager makes none
either, because a circle would hold that walk, which has more steps than there are agents,
without his (`NoWayBack`, `ValidManagerKeepsHierarchy`, by `FS_PigeonHole` on finite sets
and the well-founded order of the numbers).  `RegistrySound` says that a loaded patch that
nobody overtook is as sound as when it was validated; `RegistryStaysConsistent` follows,
for any number of agents and patches.  For the scheduler, `RoutingInv` says of rows that a
task's excluded runtimes are those it was failed over from (`RowIsRight`), of sessions
that a copy agrees with its row in everything that decides a route, unless the copy is
late or the row was overwritten (`Recent`, `Alike`), and of a tick that nobody committed
after, that its copies of the agents hold the true workloads (`Alone`).  One lemma for
each operator of the router says what row it makes (`SelectedRow`, `FailedOverRow`,
`RequeuedRow` ...), `CommitStep` what a commit of such rows preserves;
`FailsOverElsewhere` and `BatchesFitCapacity` follow, the second by counting the tasks a
batch gives to one agent against the workload it raised for each.

The proof attempts corrected the model twice.  `BatchFitsCapacity` used to look at the
agent's whole workload wherever no task in it might overflow; the batch itself may hold a
task that does, and `route_task` raises the workload only for tasks that were addressed to
`auto` (`FromAuto`), so the property is now about an agent all of whose new tasks come
from `auto` and may not overflow.  And the bound of `RoutingTypeOK` on an agent's
workload was false in general (each re-routing raises it until the next reconciliation),
though the instance never reached it; it is gone.

**CollaborationBusProofs.**  `DependenciesHonoured` and `CompletionIsEarned` are about
the stored rows, but ticks act on copies.  `IInv` says of copies what it says of rows:
`DoneIsRecorded` and `HeldIsRecorded` (whatever is COMPLETED, stored or held by a
tick, has been completed once), and it ties replies to dispatches:
`SentIsDispatching`, `OneSender` (each dispatch under way is awaited by one session
only, so that a reply writes its outcome to a row that still says DISPATCHING).
`FinishedIsRecorded` ties the history `finished` to the rows: late answers may take a
COMPLETED back, so that "its dispatch completed" has to be remembered, and what the mirror
then wrote is still earned.  Of what happens to the rows outside the bus the proofs use
only `MayFollow` and that a row which a runtime has not taken over stays as it is.  The
lemma `StoreFacts` is the heart: a commit's status is the stored or the assigned one,
so a stale session can bring back an old status but never invent one.

The action properties `ReopenedOnlySo` and `SecondRunOnlySo` rest on `CopyInv`, which says
how far rows and copies may be trusted: what a tick or a request is sending says
DISPATCHING in its own copy, what a tick has still to do was not terminal when it was
loaded, and, until an operator intervenes, a task that was sent once is never unsent again
and a queued one waits for nobody (`RowOK`, `CopyOK`, `RequestOK`, `QueuedAlone`).  A copy
equal to the stored row then tells the truth about the task's dispatches too, which are no
part of it.  The other two parts of `SecondRunOnlySo` hold after commands as well: the mirror
comes before the dispatch in a tick, so that what it assigns to a row whose dispatch is
running is nothing that may be dispatched, and `ForgottenStep` goes through the commits:
none but a command's assigns the key 0 where the copy has another (`KeyNotTaken`).

**SOPEngineProofs.**  Advances act on rows that others may have changed since.  For the
graph, `GraphInv` says of held rows what it says of stored ones: a row COMPLETED anywhere
is in `done` (`StoredDone`, `HeldDone`), a row live anywhere has its dependencies in
`done` (`HeldStarted`), and a decision is about a live row (`DecidesLive`).  The lemma
`AdvanceOutcomes` reduces `advance_run` to what it may change: a row of a node only if it
was live or its dependencies are completed in the same outcome.  For the lock, `LockInv`
says that at most one session advances (`LockHeld`), that rows waiting to be started,
stored or held, have no task (`Untasked`, `HeldUntasked`), and that the rollbacks under
way are among those the advance knows (`HeldOneRollback`).  The lock part rests on
`LockExpires` not happening during an advance.  `ReopenedOnlySo` needs that what is
advanced or cancelled was active when it was loaded (`HeldActive`); `GoesBackwards`, that
`advance_run` starts a rollback for a deepest one of the nodes that remain
(`StartsDeepest`), wherever its rows and the stored ones agree.

**GovernanceProofs.**  Sessions rely on approvals they read in an earlier transaction.
`Rely(s, row, again)` says what of it still holds, whatever the others commit: the
requester, the action and the target of a row never change, a row leaves PENDING only for
good, and it becomes APPROVED a second time only through a stale decision (`Evolves`,
lemma `RowsEvolve`; `RelyStable` draws the conclusion for sessions that do not act,
`ActorStep` for the one that does).  `RowInv` connects each row with its history: who
approved it was not its requester, and a used approval that is APPROVED was decided again.
`NobodyApprovesOwnWork` and `ApprovalsAreSpent` follow, because work of high risk leaves
only by `Dispatch` with a valid approval of `runtime:dispatch`, whatever its request had
been authorised for (`LeavesApproved`).  `Budgets` needs that a cost still to be charged
was within the limit when the total was last read (`SoundInv`), and `OneChain` that one
session at most is at `"append"` and has read the last record as its head (`ChainInv`).
`LocksLeaveSomebodyFree` is the provable side of the invariant `SomebodyGoesOn`, whose
`ENABLED` no installed prover handles: `Waits` writes out the guards that wait for a row
or the advisory lock, `StepExists` that no session stands where its kind of request has no
step.  That a session that waits has no step is a lemma; that one that does not wait has
one is a statement about `ENABLED` and stays with `SomebodyGoesOn`.

**ProtocolGatewayProofs.**  `GatewayInv` has four parts.  `MessageInv`: a known message
has its task and one work, and if its row tells of an end there is an event that does.
`Good`, for each session: what it copied exists, what it will write without a copy is
an insertion of a message still unknown (`RowsGood`), and whatever end it will write is
among the events it will commit with it (`EventsGood`); without that, a commit could
show an end that a subscriber never hears of.  `Locks`: no two sessions hold the same
row, so that a message unknown to its inserter stays unknown until the commit.
`RunsInv`: every receipt tells of work that was started (`ReceiptsInv`), and of a hook
whose key is kept whole (`Whole`) and whose deliveries did not overlap, one handler at most
is at the run, and the run was started only if that handler is on its way to the receipt
or the receipt is there.  `Passed` carries the stream's promise from ids that are drawn to
events that are committed.

**MeetingsProofs.**  `TypeCorrect` needs `Planned` (a process that is to open a round knows
of one the plan has) and `EndIsFinal` follows from types alone.  `SpeakersTakeTurns` rests
on `MeetingInv`, in two layers.  `RowsInv` holds whatever becomes of the locks: rows are
made for all speakers at once (`Whole`), every opened round has them (`Present`), and
there are none before the first start.  `Alone` holds as long as no lock ran out under a
process: one process is inside at most, and if the meeting was started once, the turn it
works on is the head of the queue (`Heads`: all before it are through, all behind it
queued or skipped), which neither a cancellation nor its late answer disturbs.  The steps
are taken by what they do to the rows: skip some (`AloneKept`), write the turn of the one
inside (`AloneAtItsTurn`), open a round (`AloneOpening`, `AloneAtTheStart`).

**PlatformProofs.**  The three layers share no variable and are taken one by one, each
from its own specification (`EntSpec`, `ComSpec`, `BusSpec`), `ComSpec` from any plan
and any finite set of licences.  Who wrote over what he had not read is history, and
each invariant says that *whoever is not late works on a true copy*:

* `TenancyHolds`: `OwnedRightly` follows a resource through creation and scoping, and
  an owner that nobody else chose is its maker; so whom a path lets in is the maker's
  tenant, or the resource was exposed (`LetInRightly`).  Of keys in bodies nothing is
  claimed, and `RunTemplate` takes any tenant.
* `CursorIsEarned`: `PullInv` says of a collector that what it carries is the front of
  what came after its cursor, and that it has delivered it before it asks for the
  checkpoint; so the greatest record it carries is one up to which the SIEM holds
  everything.
* `ReadinessIsEarned`: `OnboardInv`, an advance that is not late holds the stored
  checklist.
* `LimitsHold`: `ComInv` says that whoever may still create its first task or a new
  deployment has counted fewer than the largest limit (`CountedWrite`, `CountedReg`),
  whoever is late having been waived, and that the rows a request decides by are those of
  a plan that was in force while it ran (`Contracted`).  `Room` allows for the deployment
  that was there before any limit was compared.
* `MeteringErrsByEncounters` and `EntriesStand`: `BusInv` says that a row which a
  synchronisation had not found, and has not met since, is still missing or as it left it
  (`Unmet`), that what it will count is what its first commit verified, up to the rows it
  met (`CountsMade`), and that the meter, with what synchronisations between their two
  commits still owe (`Owed`), differs from the verifications by the encounters at most
  (`Balanced`), for any number of synchronisations at once.

The assumptions are finiteness of the sets that are counted and non-empty outcomes and
plans.  Greatest elements of bounded sets of numbers come from the minimum principle of
the well-founded order of the natural numbers.

**EvaluationProofs.**  A session judges the copies it loaded and commits what it judged.
`Copies` ties a copy that nobody has written over (`late`) to its row, `Findings` says what
a judgement still is at the commit: what it found evaluated is, what it chose of itself is
not, unless somebody committed it meanwhile, and its copy of the agent is the agent unless
somebody committed anything (`behind`).  `EvaluatedOnce`, `QualityIsComplete` and, with
`AcceptedWasEvaluated` (a text that was accepted after its evaluation has one, so that no
evaluator chooses it again), `AcceptedStaysAccepted` follow.  For the texts that the
evaluator makes itself, `NumbersInv` says that no row, copy or verdict has a number beyond
the last text made, so that a cut text is new, and that it follows a verdict on a long one
(`CutsFollowLongTexts`).

Only model-checked: the temporal properties (`EndIsSeen`, the liveness part of
`KeepsThePromise`, `DependentsAreReleased`, `TasksMoveOn`, `RunMovesOn`, `DiscussionEnds`,
`ResultsAreEvaluated`, `KpiCatchesUp`) and `SomebodyGoesOn`, which is about `ENABLED`:
liveness under fairness and `ENABLED` are out of reach of the installed provers.  Every
other property that a passing run checks is the subject of a theorem.

## Divergences

Run: `docs/PHASE-9-EVALUATION.md:138` says that an automatically completed task whose
verification fails moves to REVIEW and waits for a human decision.  REVIEW is not a
terminal status, so the next tick of the bus finds the dispatch COMPLETED and the
policy AUTO and completes the task again (`collaboration_service.py:252`):
`evaluation_gate`.

Read in the code while modelling, and part of the models, but not run as violations of
their own:

* `docs/PHASE-3-EVENT-STREAM.md:56` says that Redis locks prevent concurrent
  synchronisation of a dispatch; the lock (15 s, `phase3_app.py:334`) is shorter than
  the request it protects (30 s), and `finally` deletes a lock that may be another's.
  Stops and approvals take no lock at all.  After two handlers overlapped on one dispatch a
  mission may be left EXECUTING though all its dispatches have ended
  (`NoMissionLeftExecuting` exempts this by `overlap`).
* `docs/RUNTIME-INTEGRATIONS.md:43` says that status changes and the final output become
  visible.  `main.py:701` stores the runtime's first word without
  `normalize_remote_status`, and later ones may be UNKNOWN (`runtime_adapters.py:284`); a row
  whose word is outside `ACTIVE_STATUSES` (`phase3_app.py:390`) is never polled.  A reply
  without an id is stored as such, with a status that has not failed
  (`main.py:698-701`), and is never polled either.  Both strand the row without any crash
  (`StrandedOnlyByLoss`).
* An escalated task (`collaboration_service.py:309`) is set back to RUNNING by the
  mirror of the next tick, without a follow-up.
* A rollback that an operator rejects sets the run to RUNNING (`sop_service.py:1048`),
  and the next advance starts it again, while `docs/PHASE-10-SOP-BUILDER.md:247` says
  that a failed rollback terminates the sequence.
* `append_audit` hashes values that it stores truncated (`governance_service.py:473-479`):
  a record with a long User-Agent is reported as broken by `verify_audit_chain` although
  nobody touched it.
* `docs/PHASE-6-GOVERNANCE-IDENTITY.md:171` says that a successful use changes an approval
  to USED.  The middleware looks for an approval of the request's own action and the
  dispatch for one of `runtime:dispatch` (`phase6_app.py:101`, `:278-308`, `:554-565`), so
  a handoff of high risk leaves on an approval that nobody marks, and may leave on it
  again.  The reverse also occurs: a request for `task:control` has its approval marked
  although its dispatch was refused.  Requests that overlap share one approval, and one that
  dies, or loses a deadlock, before its accounting leaves it unmarked (`OneUse` is about
  uses that were committed).
* `docs/PHASE-9-EVALUATION.md:80` says that writing an evaluation does not trigger another.
  The verdict of a result of more than 12000 characters is written with the result cut
  (`evaluation_hardening.py:245`, `main.py:416-427`); the preview hashes differently and is
  evaluated, and counted, again (`CutsFollowLongTexts`).
* `docs/PHASE-9-EVALUATION.md:138` speaks of automatically completed tasks; the code reopens
  any COMPLETED one (`evaluation_hardening.py:246`).  A task that an operator completes with
  a note has a new result (`phase4_app.py:198-202`), is evaluated again and may be reopened.
* `docs/PHASE-11-PROTOCOL-GATEWAY.md:71` says that a repeated webhook returns the existing
  receipt.  A delivery that overlaps the first, or follows one that died before its
  receipt, starts another SOP run; so does every repetition of a key that is longer than
  the receipt keeps (`phase11_app.py:862-867` against `:923-924`), and a key that equals what
  is kept of another's is answered with that one's receipt.  Deliveries to tasks whose
  message ids are cut alike share one task (`WorkIsStartedOnce`).
* `docs/PHASE-12-ENTERPRISE-PLATFORM.md:88` says that protocol tasks and SOP runs are scoped
  before commit; they are scoped in a second one (`phase12_runtime.py:195`), and a start of a
  replica in between gives them to the default tenant.  Keys in a body meet no gate:
  `beeza_get_task` and `beeza_run_sop` of MCP (`phase11_app.py:681`, `:722`) and a webhook of
  mode sop (`:875`) reach the tasks and templates of other tenants (`TenantsAreIsolated`
  claims nothing of them).
* `docs/PHASE-13-EXECUTIVE-BUSINESS.md:70` says that a MANUAL outcome is never overwritten by
  the worker.  A synchronisation that had loaded the row as an estimate writes
  verification, hash and baseline over the entry, whose mode stays MANUAL, so that no later
  one repairs it (`EntriesYieldToOldEstimates`).
* `docs/PHASE-13-EXECUTIVE-BUSINESS.md:80` and `:178` describe metering of new verifications,
  transactional with their records.  A verified entry made while a synchronisation that had
  found no row is at work is metered twice (`business_route_hardening.py:105-121`,
  `business_hardening.py:174-179`), and what is written in the first commit is not metered if
  the second never comes (`MeterErrsByEncounters`).
* `docs/PHASE-14-COMMERCIAL-PRODUCTIZATION.md:155` lists an active-work concurrency limit.
  It is one comparison per request (`phase14_app.py:225-242`): the further tasks of one
  decision or SOP run, the tasks the worker starts and those that come back pass it, under
  a licence and without any overlap (`EntitlementsHold`).
* An optional participant whose runtime has no address keeps its meeting RUNNING: the
  failure of its turn is never committed (`meeting_service.py:342`).  `DiscussionEnds`
  excludes such turns by name (`Unheard`).
* A turn whose runtime says a word that `normalize_remote_status` does not know is RUNNING
  until somebody cancels the meeting: the mirror assigns nothing and returns before it
  looks at the turn timeout (`meeting_service.py:474-517`), and the event worker does not
  poll such a row.  `DiscussionEnds` excludes it by name (`NotUnderstood`).
* An agent in MAINTENANCE that has a task is set BUSY by the next reconciliation
  (`phase7_runtime.py:71`) and may be given another one.

## Not modelled

* Pilot gate, agent rooms, company bootstrap and portfolio: sequential checklists,
  seed data and projections that are computed from the other components at every
  request.  They have no step of two actors whose order matters to the state above.
* Schema, migrations, the static frontend, deployment scripts and tests: no behaviour
  of the server.
* In the modelled components: rendering and views, seeding, probing, metrics,
  authentication and signatures, the texts and the arithmetic of scores, costs and
  savings; the notes in `PROJECT.json` say it for each component.
* Limits that no small instance reaches: the 100 tasks of a bus tick
  (`collaboration_service.py:334`) and the batch of SOP runs
  (`sop_hardening.py:108`).
* Messages, mission events and runtime events, which the components only write.
  `runtime_events` is deduplicated by a unique key; a poll that meets a duplicate is a
  `FailSync`.
