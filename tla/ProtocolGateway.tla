------------------------- MODULE ProtocolGateway -------------------------
(***************************************************************************)
(* The protocol gateway (phase 11, hardened): messages of A2A, MCP and     *)
(* OpenAI clients and webhooks become tasks of the collaboration bus or    *)
(* SOP runs; each protocol task mirrors its task and numbers its events,   *)
(* which subscribers of the task and of the global stream follow.          *)
(*                                                                         *)
(* A session is a request, an open subscription or a worker's tick, in any *)
(* replica.  It works on copies of rows.  The first statement after its    *)
(* assignments flushes the UPDATE of a row, and that locks the row until   *)
(* the session commits.                                                    *)
(*                                                                         *)
(* Left out: the texts, the views, the identities and budgets (Governance) *)
(* and how a task is routed (Routing).  Of the governance of requests only *)
(* the approval is here, for a policy that demands one.                    *)
(***************************************************************************)
EXTENDS Integers, Sequences, FiniteSets

CONSTANTS
    Messages,    \* protocol_tasks.id by (protocol, client, message id)
    Hooks,       \* the messages that are deliveries of a webhook
    Runs,        \* hooks of mode "sop"
    Keys,        \* the channel and idempotency keys that deliveries carry, in full
    Stored,      \* what a receipt keeps of them: 100 and 180 characters
    MessageOf,   \* their message: 180 characters of "webhook-", channel and key
    Sessions,
    Batch,       \* PROTOCOL_BATCH
    ScanLimit,   \* the rows a tick lists
    MaxMoves,    \* bound: requests, crashes and moves of the bus
    Scenarios    \* what an instance starts with, see MCProtocolGateway

ASSUME GatewayAssumption ==
    /\ Messages \subseteq Nat \ {0} /\ IsFiniteSet(Messages)
    /\ Runs \subseteq Hooks /\ Hooks \subseteq Messages
    /\ Keys \subseteq Nat \ {0}
    /\ Stored \in [Keys -> Keys] /\ \A key \in Keys : Stored[Stored[key]] = Stored[key]
    /\ MessageOf \in [Keys -> Hooks]
    /\ \A key, other \in Keys : MessageOf[key] = MessageOf[other] /\ MessageOf[key] \in Runs => key = other
    /\ Batch \in Nat \ {0} /\ ScanLimit >= 5 * Batch
    /\ MaxMoves \in Nat
    /\ Scenarios \subseteq [kinds : SUBSET STRING, guarded : BOOLEAN, moves : 0..MaxMoves,
                            known : SUBSET (Messages \ Runs), sessions : SUBSET Sessions]

VARIABLES
    row,        \* protocol_tasks: the state and the task's status it shows
    task,       \* collaboration_tasks.status of the linked tasks
    works,      \* history: tasks or SOP runs made for each message
    events,     \* protocol_events of each message that are committed
    ids,        \* the sequence of protocol_events.id
    receipts,   \* protocol_webhook_receipts, by the keys they keep
    approval,   \* the approval request of the clients' path
    session,
    cursor,     \* beezaoffice:protocol-task-cursor
    sent,       \* the subscription of a message
    global,     \* the global stream: its cursor, and the events it sent
    doubled,    \* history: messages delivered twice at the same time or after a crash
    scene, moves

vars == <<row, task, works, events, ids, receipts, approval, session, cursor,
          sent, global, doubled, scene, moves>>

Ended == {"COMPLETED", "FAILED", "CANCELLED"}
(* RUNNING stands for every status of the bus that maps to WORKING, REVIEW *)
(* for those that map to INPUT_REQUIRED, BLOCKED for ESCALATED, too.       *)
Statuses == {"NONE", "RUNNING", "REVIEW", "BLOCKED"} \cup Ended
Terminal == {"FAILED", "COMPLETED", "CANCELED"}
States == {"ABSENT", "SUBMITTED", "WORKING", "INPUT_REQUIRED"} \cup Terminal

(* COLLAB_TO_A2A_STATE                                                     *)
StateOf(status) ==
    CASE status = "RUNNING" -> "WORKING"
      [] status = "REVIEW" -> "INPUT_REQUIRED"
      [] status = "COMPLETED" -> "COMPLETED"
      [] status = "CANCELLED" -> "CANCELED"
      [] status \in {"FAILED", "BLOCKED"} -> "FAILED"

(* says is what status_message and artifacts show: a status of the bus, or *)
(* that the gateway accepted or canceled the message.                      *)
Row(state, says) == [state |-> state, says |-> says]
Rows == [state : States, says : Statuses \cup {"ACCEPTED", "GATEWAY"}]
NoRow == Row("ABSENT", "NONE")
Shown(status) == Row(StateOf(status), status)

Idle == [pc |-> "idle", kind |-> "none", msg |-> 0, key |-> 0, left |-> {}, copy |-> <<>>, saw |-> "NONE",
         new |-> <<>>, pending |-> <<>>, use |-> FALSE, final |-> FALSE]

Init ==
    /\ scene \in Scenarios
    /\ moves = MaxMoves - scene.moves
    /\ row = [m \in Messages |-> IF m \in scene.known THEN Shown("RUNNING") ELSE NoRow]
    /\ task = [m \in Messages |-> IF m \in scene.known THEN "RUNNING" ELSE "NONE"]
    /\ works = [m \in Messages |-> IF m \in scene.known THEN 1 ELSE 0]
    /\ events = [m \in Messages |-> {}]
    /\ ids = 0
    /\ receipts = {} /\ doubled = {}
    /\ approval = "APPROVED"
    /\ session = [c \in Sessions |-> Idle]
    /\ cursor = 0
    /\ sent = [m \in Messages |-> "nothing"]
    /\ global = [cursor |-> 0, got |-> {}, late |-> {}]

-----------------------------------------------------------------------------
Goes(c, s) == session' = [session EXCEPT ![c] = s]

(* A session's objects, by message: one more, or only one.                 *)
Put(f, m, r) == [k \in DOMAIN f \cup {m} |-> IF k = m THEN r ELSE f[k]]
Only(m, r) == [k \in {m} |-> r]

Move == moves < MaxMoves /\ moves' = moves + 1

Starts(c, kind) == session[c].pc = "idle" /\ c \in scene.sessions /\ kind \in scene.kinds

Known(m) == row[m].state # "ABSENT"

(* No other session has flushed an UPDATE or INSERT of the row.            *)
RowFree(c, m) == \A d \in Sessions \ {c} : m \notin DOMAIN session[d].new

(* next_sequence counts what is committed and what the session added.      *)
NextSequence(m) == Cardinality(events[m]) + 1

(* add_protocol_event, with the flush that draws the id.  An event stands  *)
(* for the status update and the artifact update that follows it.          *)
AddEvent(c, s, m, new) ==
    /\ Goes(c, [s EXCEPT !.new = Put(s.new, m, new),
                         !.pending = Append(s.pending, [msg |-> m, sequence |-> NextSequence(m),
                                                        id |-> ids + 1, state |-> new.state])])
    /\ ids' = ids + 1

(* Mutant: a canceled task is not announced.                               *)
CancelMutant(c, s, m) ==
    Goes(c, [s EXCEPT !.new = Put(s.new, m, Row("CANCELED", "GATEWAY"))]) /\ UNCHANGED ids

-----------------------------------------------------------------------------
(* governed_mcp_execution, and external_protocol_governance likewise: a    *)
(* policy may demand an approval.                                          *)
Admitted == ~scene.guarded \/ approval = "APPROVED"

(* openai_chat_completion draws a new message id.                          *)
Fresh(m) == ~Known(m) /\ \A d \in Sessions : session[d].msg # m

(* The keys with which a message is delivered.  A message that is cut may  *)
(* be that of several; an SOP run has no message id and stands for its key.*)
KeysOf(m) == IF m \in Hooks THEN {key \in Keys : MessageOf[key] = m} ELSE {0}

(* A request arrives.  A refusal leaves a request for an approval behind.  *)
Authorise(c) ==
    \E kind \in {"send", "chat", "mcp", "hook", "cancel"}, m \in Messages : \E key \in KeysOf(m) :
       /\ Starts(c, kind) /\ Move
       /\ (m \in Hooks) = (kind = "hook") /\ (kind = "cancel" => Known(m)) /\ (kind = "chat" => Fresh(m))
       /\ IF ~Admitted
          THEN approval' = "PENDING" /\ UNCHANGED session
          ELSE /\ Goes(c, [Idle EXCEPT !.pc = IF kind = "cancel" THEN "cancel" ELSE "lookup",
                                       !.kind = kind, !.msg = m, !.key = key, !.use = scene.guarded])
               /\ UNCHANGED approval
       /\ UNCHANGED <<row, task, works, events, ids, receipts, cursor, sent, global, doubled, scene>>

Decide ==
    /\ Move /\ approval = "PENDING" /\ approval' = "APPROVED"
    /\ UNCHANGED <<row, task, works, events, ids, receipts, session, cursor, sent, global, doubled, scene>>

(* mark_approval_used, after the handler if that succeeded.                *)
Spent(s) == IF s.use /\ approval = "APPROVED" THEN "USED" ELSE approval

Account(c) ==
    /\ session[c].pc = "account"
    /\ approval' = Spent(session[c])
    /\ Goes(c, Idle)
    /\ UNCHANGED <<row, task, works, events, ids, receipts, cursor, sent, global, doubled, scene, moves>>

(* The keys in full among those that receipts keep: a key that is cut is   *)
(* never found, and the key that it is cut to is, on its account.          *)
Received(key) == key \in receipts

(* A handler that has looked for a receipt of the same delivery and has    *)
(* not written one yet.                                                    *)
Delivering(d, m) == session[d].kind = "hook" /\ session[d].msg = m /\ session[d].pc \notin {"idle", "lookup", "account"}

(* hardened_create_protocol_task refuses an invalid request.               *)
Refuse(c) == Goes(c, Idle)

(* webhook_ingress looks for a receipt, create_protocol_task for the       *)
(* message.                                                                *)
Lookup(c) ==
    LET s == session[c]  m == s.msg IN
    /\ s.pc = "lookup"
    /\ IF s.kind = "hook" /\ Received(s.key)
       THEN Goes(c, [s EXCEPT !.pc = "account"]) /\ UNCHANGED doubled
       ELSE /\ \/ Goes(c, IF m \in Runs THEN [s EXCEPT !.pc = "run"]
                          ELSE IF Known(m) THEN [s EXCEPT !.pc = "look", !.left = {m}, !.copy = Only(m, row[m])]
                          ELSE [s EXCEPT !.pc = "insert"])
               \/ Refuse(c)
            /\ doubled' = IF \E d \in Sessions : Delivering(d, m) THEN doubled \cup {m} ELSE doubled
    /\ UNCHANGED <<row, task, works, events, ids, receipts, approval, cursor, sent, global, scene, moves>>

(* Mutant: the table has no unique constraint for messages.                *)
TakenMutant(m) == FALSE

Taken(m) == Known(m)

(* create_protocol_task adds the mission, the task, the row and its first  *)
(* event in one transaction; the INSERT waits for one of the same message  *)
(* and fails if that was committed.                                        *)
Insert(c) ==
    LET s == session[c] IN
    /\ s.pc = "insert" /\ RowFree(c, s.msg)
    /\ IF Taken(s.msg)
       THEN Goes(c, Idle) /\ UNCHANGED ids
       ELSE AddEvent(c, [s EXCEPT !.pc = "commit"], s.msg, Row("SUBMITTED", "ACCEPTED"))
    /\ UNCHANGED <<row, task, works, events, receipts, approval, cursor, sent, global, doubled, scene, moves>>

(* routed_dispatch_task, after the task is committed.                      *)
Dispatch(c) ==
    /\ session[c].pc = "dispatch"
    /\ \E status \in IF task[session[c].msg] = "RUNNING" THEN {"RUNNING", "BLOCKED"} ELSE {task[session[c].msg]} :
          task' = [task EXCEPT ![session[c].msg] = status]
    /\ Goes(c, [session[c] EXCEPT !.pc = "look", !.left = {session[c].msg}])
    /\ UNCHANGED <<row, works, events, ids, receipts, approval, cursor, sent, global, doubled, scene, moves>>

(* instantiate_run commits the run ...                                     *)
Run(c) ==
    /\ session[c].pc = "run"
    /\ works' = [works EXCEPT ![session[c].msg] = @ + 1]
    /\ Goes(c, [session[c] EXCEPT !.pc = "receipt"])
    /\ UNCHANGED <<row, task, events, ids, receipts, approval, cursor, sent, global, doubled, scene, moves>>

(* ... before webhook_ingress commits the receipt; the table holds a key   *)
(* once, as it is cut.                                                     *)
Receipt(c) ==
    LET s == session[c] IN
    /\ s.pc = "receipt"
    /\ receipts' = receipts \cup {Stored[s.key]}
    /\ Goes(c, IF Stored[s.key] \in receipts THEN Idle ELSE [s EXCEPT !.pc = "account"])
    /\ UNCHANGED <<row, task, works, events, ids, approval, cursor, sent, global, doubled, scene, moves>>

(* a2a_cancel_task                                                         *)
CancelLoad(c) ==
    LET s == session[c]  m == s.msg IN
    /\ s.pc = "cancel"
    /\ Goes(c, IF row[m].state \in Terminal THEN [s EXCEPT !.pc = "account"]
               ELSE [s EXCEPT !.pc = "canceling", !.copy = Only(m, row[m]), !.saw = task[m]])
    /\ UNCHANGED <<row, task, works, events, ids, receipts, approval, cursor, sent, global, doubled, scene, moves>>

Cancel(c, s, m) == AddEvent(c, s, m, Row("CANCELED", "GATEWAY"))

CancelFlush(c) ==
    LET s == session[c] IN
    /\ s.pc = "canceling" /\ RowFree(c, s.msg)
    /\ Cancel(c, [s EXCEPT !.pc = "commit"], s.msg)
    /\ UNCHANGED <<row, task, works, events, receipts, approval, cursor, sent, global, doubled, scene, moves>>

-----------------------------------------------------------------------------
FirstOf(S, n) == {m \in S : Cardinality({k \in S : k < m}) < n}
Least(S) == CHOOSE m \in S : \A k \in S : m <= k
Last(S) == IF S = {} THEN 0 ELSE CHOOSE m \in S : \A k \in S : k <= m

Active == {m \in Messages : Known(m) /\ row[m].state \notin Terminal}

(* rotating_protocol_tasks                                                 *)
Listed == LET next == {m \in Active : m > cursor} IN
          FirstOf(IF next = {} THEN Active ELSE next, ScanLimit)

Loads(c, s, S) ==
    Goes(c, [s EXCEPT !.pc = "look", !.left = S, !.copy = [m \in S |-> row[m]], !.new = <<>>, !.pending = <<>>])

(* protocol_tick                                                           *)
Tick(c) ==
    /\ Starts(c, "tick")
    /\ Listed # {} \/ cursor # 0
    /\ cursor' = IF Listed = {} THEN 0 ELSE Last(Listed)
    /\ Loads(c, [Idle EXCEPT !.kind = "tick"], FirstOf(Listed, Batch))
    /\ UNCHANGED <<row, task, works, events, ids, receipts, approval, sent, global, doubled, scene, moves>>

(* A reader's GET, or a subscription; a subscription is served until its   *)
(* task has ended.                                                         *)
Read(c) ==
    \E kind \in {"read", "stream"}, m \in Messages :
       /\ Starts(c, kind) /\ Known(m) /\ Move
       /\ kind = "stream" => sent[m] = "nothing"
       /\ Loads(c, [Idle EXCEPT !.kind = kind, !.msg = m], {m})
       /\ sent' = IF kind = "stream" THEN [sent EXCEPT ![m] = "open"] ELSE sent
       /\ UNCHANGED <<row, task, works, events, ids, receipts, approval, cursor, global, doubled, scene>>

(* wait_for_protocol_task and a subscription poll: a session each time.    *)
Poll(c) ==
    /\ session[c].pc = "poll"
    /\ Loads(c, session[c], {session[c].msg})
    /\ UNCHANGED <<row, task, works, events, ids, receipts, approval, cursor, sent, global, doubled, scene, moves>>

(* sync_protocol_task loads the task ...                                   *)
Look(c) ==
    LET s == session[c] IN
    /\ s.pc = "look"
    /\ Goes(c, IF s.left = {} THEN [s EXCEPT !.pc = "commit"]
               ELSE [s EXCEPT !.pc = "flush", !.msg = Least(s.left), !.saw = task[Least(s.left)]])
    /\ UNCHANGED <<row, task, works, events, ids, receipts, approval, cursor, sent, global, doubled, scene, moves>>

(* ... and brings the copy of the row up to date, with an event if it has  *)
(* changed; the UPDATE goes out at any rate, for updated_at.               *)
Sync(c) ==
    LET s == [session[c] EXCEPT !.pc = "look", !.left = @ \ {session[c].msg}]
        new == Shown(s.saw)
    IN
    /\ session[c].pc = "flush" /\ RowFree(c, s.msg)
    /\ IF new # s.copy[s.msg] THEN AddEvent(c, s, s.msg, new)
       ELSE Goes(c, [s EXCEPT !.new = Put(s.new, s.msg, new)]) /\ UNCHANGED ids
    /\ UNCHANGED <<row, task, works, events, receipts, approval, cursor, sent, global, doubled, scene, moves>>

(* An UPDATE writes the columns that differ from the session's copy.       *)
Written(s, m) ==
    IF m \notin DOMAIN s.copy THEN s.new[m]
    ELSE [state |-> IF s.new[m].state # s.copy[m].state THEN s.new[m].state ELSE row[m].state,
          says |-> IF s.new[m].says # s.copy[m].says THEN s.new[m].says ELSE row[m].says]

(* An event whose number is taken fails the whole transaction.             *)
Refused(s) == \E i \in DOMAIN s.pending : \E e \in events[s.pending[i].msg] : e.sequence = s.pending[i].sequence

(* a2a_send_message may return at once or wait, a chat waits until it has  *)
(* an answer or the time is over.                                          *)
Waits(s, shown) == s.kind \in {"send", "chat"} /\ shown.state \notin Terminal \cup {"INPUT_REQUIRED"}

(* What a session does after its commit.                                   *)
AfterCommit(s, shown) ==
    LET then(pc) == [s EXCEPT !.pc = pc, !.new = <<>>, !.pending = <<>>] IN
    IF s.kind \in {"tick", "read"} THEN {Idle}
    ELSE IF shown.says = "ACCEPTED" THEN {[then("dispatch") EXCEPT !.copy = Only(s.msg, shown)]}
    ELSE IF s.kind = "hook" THEN {then("receipt")}
    ELSE IF s.kind = "stream" THEN {then("refresh")}
    ELSE IF Waits(s, shown) THEN {then("account"), then("poll")}
    ELSE {then("account")}

Commit(c) ==
    LET s == session[c] IN
    /\ s.pc = "commit"
    /\ IF Refused(s)
       THEN Goes(c, Idle) /\ UNCHANGED <<row, task, works, events>>
       ELSE /\ row' = [m \in Messages |-> IF m \in DOMAIN s.new THEN Written(s, m) ELSE row[m]]
            /\ events' = [m \in Messages |-> events[m] \cup
                             {e \in {s.pending[i] : i \in DOMAIN s.pending} : e.msg = m}]
            /\ LET inserts == DOMAIN s.copy = {} /\ s.msg \in DOMAIN s.new
                   cancels == s.kind = "cancel" /\ s.saw \notin Ended
               IN /\ task' = IF inserts THEN [task EXCEPT ![s.msg] = "RUNNING"]
                             ELSE IF cancels THEN [task EXCEPT ![s.msg] = "CANCELLED"] ELSE task
                  /\ works' = IF inserts THEN [works EXCEPT ![s.msg] = @ + 1] ELSE works
            /\ \E after \in AfterCommit(s, IF s.msg \in DOMAIN s.new THEN s.new[s.msg] ELSE NoRow) : Goes(c, after)
    /\ UNCHANGED <<ids, receipts, approval, cursor, sent, global, doubled, scene, moves>>

-----------------------------------------------------------------------------
(* a2a_subscribe_task: the row is read again ...                           *)
Refresh(c) ==
    /\ session[c].pc = "refresh"
    /\ Goes(c, [session[c] EXCEPT !.pc = "deliver", !.final = row[session[c].msg].state \in Terminal])
    /\ UNCHANGED <<row, task, works, events, ids, receipts, approval, cursor, sent, global, doubled, scene, moves>>

(* ... and then the events that were not sent.                             *)
Deliver(c) ==
    LET s == session[c]  m == s.msg
        ended == \E e \in events[m] : e.state \in Terminal
    IN
    /\ s.pc = "deliver"
    /\ sent' = [sent EXCEPT ![m] = IF ~s.final THEN "open" ELSE IF ended THEN "ended" ELSE "cut"]
    /\ Goes(c, IF s.final THEN Idle ELSE [s EXCEPT !.pc = "poll"])
    /\ UNCHANGED <<row, task, works, events, ids, receipts, approval, cursor, global, doubled, scene, moves>>

Committed == UNION {events[m] : m \in Messages}
InFlight == UNION {{session[c].pending[i].id : i \in DOMAIN session[c].pending} : c \in Sessions}

(* Mutant: the stream goes on behind the last id that was drawn.           *)
ResumeAfterMutant(got) == ids

ResumeAfter(got) == Last(got)

(* protocol_event_stream                                                   *)
StreamGlobal ==
    LET got == {e.id : e \in {e \in Committed : e.id > global.cursor}} IN
    /\ "global" \in scene.kinds /\ got # {}
    /\ global' = [cursor |-> ResumeAfter(got), got |-> global.got \cup got,
                  late |-> global.late \cup {i \in InFlight : i < Last(got)}]
    /\ UNCHANGED <<row, task, works, events, ids, receipts, approval, session, cursor, sent, doubled, scene, moves>>

(* The bus and its operators move a task.                                  *)
BusMoves(m) ==
    /\ Move
    /\ \/ task[m] = "RUNNING" /\ \E status \in {"REVIEW", "BLOCKED"} \cup Ended : task' = [task EXCEPT ![m] = status]
       \/ task[m] \in {"REVIEW", "BLOCKED", "FAILED"} /\ task' = [task EXCEPT ![m] = "RUNNING"]
       \/ task[m] = "REVIEW" /\ task' = [task EXCEPT ![m] = "COMPLETED"]
    /\ UNCHANGED <<row, works, events, ids, receipts, approval, session, cursor, sent, global, doubled, scene>>

Crash(c) ==
    /\ session[c].pc # "idle" /\ Move
    /\ Goes(c, Idle)
    /\ doubled' = IF Delivering(c, session[c].msg) THEN doubled \cup {session[c].msg} ELSE doubled
    /\ UNCHANGED <<row, task, works, events, ids, receipts, approval, cursor, sent, global, scene>>

Proceed(c) ==
    \/ Lookup(c) \/ Insert(c) \/ Dispatch(c) \/ Run(c) \/ Receipt(c) \/ Account(c)
    \/ CancelLoad(c) \/ CancelFlush(c)
    \/ Look(c) \/ Sync(c) \/ Commit(c) \/ Poll(c) \/ Refresh(c) \/ Deliver(c)

Next ==
    \/ \E c \in Sessions : Authorise(c) \/ Read(c) \/ Tick(c) \/ Proceed(c) \/ Crash(c)
    \/ Decide \/ StreamGlobal
    \/ \E m \in Messages : BusMoves(m)

Spec == Init /\ [][Next]_vars

-----------------------------------------------------------------------------
TypeOK ==
    /\ row \in [Messages -> Rows]
    /\ task \in [Messages -> Statuses]
    /\ works \in [Messages -> Nat]
    /\ receipts \subseteq {Stored[key] : key \in Keys} /\ doubled \subseteq Hooks
    /\ cursor \in Messages \cup {0}
    /\ \A m \in Messages : \A e \in events[m] : e.msg = m /\ e.id \in 1..ids
    /\ \A c \in Sessions : session[c].left \subseteq DOMAIN session[c].copy

(* A run whose delivery carries a key that its receipt does not keep whole.*)
Cut(m) == \E key \in KeysOf(m) : Stored[key] # key

(* Work is started once: every task that was committed for a message is    *)
(* the one its row names, however deliveries overlap, whatever dies and    *)
(* however their keys are cut (docs/PHASE-11-PROTOCOL-GATEWAY.md:53).  A   *)
(* hook starts a second SOP run only in two cases, which PHASE-11:71 rules *)
(* out: it is delivered again while the first delivery has no receipt yet  *)
(* or after that one died, or its key is cut, so that no lookup finds the  *)
(* receipt (phase11_app.py:862 and 923).  Every receipt tells of work that *)
(* was started for the delivery that left it.                              *)
WorkIsStartedOnce ==
    /\ \A m \in Messages :
          IF m \in Runs THEN works[m] > 1 => m \in doubled \/ Cut(m)
          ELSE works[m] = IF Known(m) THEN 1 ELSE 0
    /\ \A kept \in receipts : \E key \in Keys : Stored[key] = kept /\ works[MessageOf[key]] > 0

(* A subscription closes after it has sent an event of a terminal state    *)
(* (docs/PHASE-11-PROTOCOL-GATEWAY.md:152).                                *)
SubscriptionEndsWithTheTask == \A m \in Messages : sent[m] # "cut"

(* What the global stream has passed it has sent, except for events that   *)
(* were in flight, with their ids drawn, when it sent a later one.         *)
StreamMissesOnlyInFlight ==
    \A e \in Committed : e.id <= global.cursor => e.id \in global.got \cup global.late

==========================================================================
