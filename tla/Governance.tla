--------------------------- MODULE Governance ---------------------------
(***************************************************************************)
(* Governance of mutating requests (phase 6).  A middleware hardens the    *)
(* headers of a request, authorises it, lets the handler run, and then, in *)
(* a transaction of its own, marks the approval used, reserves the budget  *)
(* and appends a record to the hash-chained audit ledger.  Dispatches to a *)
(* runtime are authorised a second time where they leave, which is also    *)
(* the only gate of the dispatches of the background workers.  The two do  *)
(* not ask for the same: the middleware wants the permission, and the      *)
(* approval, of the request's own action, a dispatch that of               *)
(* runtime:dispatch.                                                       *)
(*                                                                         *)
(* Every process serves requests, with no lock but those of PostgreSQL:    *)
(* the advisory lock of the audit ledger and the row lock of an UPDATE.    *)
(* Both last until the transaction ends, so they are read off the          *)
(* sessions: a session at "append" holds the advisory lock, and a session  *)
(* that HoldsRow the row of its approval.                                  *)
(***************************************************************************)
EXTENDS Integers, Sequences, FiniteSets

CONSTANTS
    Clients,       \* the requests and internal dispatches in flight together
    Identities,    \* the registered identities
    Permitted,     \* the requests that the roles of each allow
    Paths,         \* the paths of requests that dispatch work
    ActionOf,      \* the action that ROUTE_RULES names for each path
    Limit,         \* daily_budget_usd of each identity
    Costs,         \* the estimates and charges that occur
    Agents,        \* the User-Agent headers that occur: "short", "long"
    MaxApprovals,  \* bound: approval requests
    MaxRequests,   \* bound: requests and internal dispatches
    MaxCrashes     \* bound: processes that die while they serve one

(* Requests to /api/governance/, and all kinds.                             *)
Controls == {"decide", "switch", "ask", "charge"}
Kinds == Controls \cup {"work"}

(* The actions of requests that dispatch work, and those among them that    *)
(* need an approval at high risk.                                           *)
WorkActions == {"runtime:dispatch", "handoff:create", "task:control"}
HighRiskActions == {"runtime:dispatch", "task:control"}

ASSUME ConstantsAssumption ==
    /\ Permitted \in [Identities -> SUBSET (Controls \cup WorkActions)]
    /\ Identities # {} /\ Paths # {} /\ "*" \notin Paths
    /\ ActionOf \in [Paths -> WorkActions]
    /\ Limit \in [Identities -> Nat]
    /\ Costs \subseteq Nat /\ 0 \in Costs
    /\ Agents \subseteq {"short", "long"} /\ Agents # {}
    /\ MaxApprovals \in Nat \ {0}
    /\ MaxRequests \in Nat
    /\ MaxCrashes \in Nat

VARIABLES
    approval,   \* governance_approval_requests, by key
    enabled,    \* the runtime_execution_enabled control
    spent,      \* the total of each identity in the budget ledger
    audit,      \* governance_audit_records, in the order of their ids
    session,    \* what each request in flight has read and decided
    approvers,  \* history: who approved each approval request
    used,       \* history: the approvals whose use was committed
    redecided,  \* history: the approvals decided again by a stale decision
    raced,      \* history: identities charged after their total had moved on
    requests, crashes

rows == <<approval, enabled, spent, audit>>
history == <<approvers, used, redecided, raced>>
counters == <<requests, crashes>>
vars == <<rows, session, history, counters>>

Keys == 1..MaxApprovals
Statuses == {"ABSENT", "PENDING", "APPROVED", "DENIED", "EXPIRED", "USED"}
Steps == {"idle", "dispatch", "calling", "load", "commit", "mark", "lock", "append"}
ApprovalRows == [status : Statuses, by : Identities, action : WorkActions,
                 target : Paths \cup {"*"}, expired : BOOLEAN]
AuditRows == [prev : Nat, hashed : Agents, stored : {"short", "cut"}]
Sessions == [pc : Steps, kind : Kinds \cup {"internal"}, who : Identities, path : Paths,
             key : Keys \cup {0}, high : BOOLEAN, cost : Nat, saw : Nat, put : Statuses,
             use : Keys \cup {0}, marks : BOOLEAN, ok : BOOLEAN, head : Nat]
AnyIdentity == CHOOSE i \in Identities : TRUE
AnyPath == CHOOSE p \in Paths : TRUE

NoApproval == [status |-> "ABSENT", by |-> AnyIdentity, action |-> "runtime:dispatch",
               target |-> AnyPath, expired |-> FALSE]
Idle == [pc |-> "idle", kind |-> "work", who |-> AnyIdentity, path |-> AnyPath,
         key |-> 0, high |-> FALSE, cost |-> 0, saw |-> 0, put |-> "ABSENT",
         use |-> 0, marks |-> FALSE, ok |-> FALSE, head |-> 0]

(* create_approval: a new row of approval requests.                         *)
NewApproval(who, action, target) ==
    [status |-> "PENDING", by |-> who, action |-> action, target |-> target, expired |-> FALSE]

(* The actions that approvals are asked for.                                *)
Actions == {"runtime:dispatch"} \cup {ActionOf[p] : p \in Paths}

(* The database may hold approval requests that wait for their decision.    *)
Init ==
    /\ approval \in [Keys -> {NoApproval} \cup
                           {NewApproval(who, action, target) :
                               who \in Identities, action \in Actions, target \in Paths \cup {"*"}}]
    /\ enabled = TRUE
    /\ spent = [i \in Identities |-> 0]
    /\ audit = <<>>
    /\ session = [c \in Clients |-> Idle]
    /\ approvers = [k \in Keys |-> {}]
    /\ used = {} /\ redecided = {} /\ raced = {}
    /\ requests = 0 /\ crashes = 0

--------------------------------------------------------------------------
(* Mutant: the target of an approval is not compared.                       *)
HardenedMutant(key, who, path) == IF key # 0 /\ approval[key].by = who THEN key ELSE 0

(* harden_governance_context: an approval is dropped from a request that    *)
(* is not its requester's or not for its target; requests to governance     *)
(* carry neither cost nor risk.                                             *)
Hardened(key, who, path) ==
    IF key # 0 /\ approval[key].by = who /\ approval[key].target \in {"*", path}
    THEN key ELSE 0

HardenedCost(kind, cost) == IF kind = "work" THEN cost ELSE 0

(* find_valid_approval                                                      *)
ValidApproval(key, who, action) ==
    /\ key # 0
    /\ approval[key].by = who
    /\ approval[key].action = action
    /\ approval[key].status = "APPROVED"
    /\ ~approval[key].expired

(* Mutant: the estimate is not added to the total.                          *)
WithinBudgetMutant(who, cost) == cost = 0 \/ spent[who] <= Limit[who]

(* evaluate_authorization                                                   *)
WithinBudget(who, cost) == cost = 0 \/ spent[who] + cost <= Limit[who]

Granted(action, who, cost) ==
    /\ action \in Permitted[who]
    /\ action \in WorkActions => enabled
    /\ WithinBudget(who, cost)

Approved(high, key, who, action) ==
    high /\ action \in HighRiskActions => ValidApproval(key, who, action)

(* create_approval                                                          *)
FreeKeys == {k \in Keys : approval[k].status = "ABSENT"}
Created(who, action, target) ==
    IF FreeKeys = {} THEN approval     \* only where MaxApprovals is reached
    ELSE [approval EXCEPT ![CHOOSE k \in FreeKeys : TRUE] = NewApproval(who, action, target)]

(* An approval request for this work that waits for its decision.           *)
Awaiting(who, path) ==
    {k \in Keys : /\ approval[k].status = "PENDING" /\ ~approval[k].expired
                  /\ approval[k].by = who /\ approval[k].target = path
                  /\ approval[k].action = ActionOf[path]}

--------------------------------------------------------------------------
(* A session that marked its approval and reserves a budget has flushed     *)
(* the UPDATE before it asks for the advisory lock; without a budget the    *)
(* UPDATE goes out after it.                                                *)
HoldsRow(c, k) ==
    /\ session[c].use = k /\ session[c].marks /\ session[c].cost > 0
    /\ session[c].pc \in {"lock", "append"}

(* Mutant: the approval is marked in a session of its own.                  *)
RowFreeMutant(c, k) == \A d \in Clients : ~HoldsRow(d, k)

RowFree(c, k) == \A d \in Clients \ {c} : ~HoldsRow(d, k)

Begin(c, s) ==
    /\ session[c].pc = "idle" /\ requests < MaxRequests
    /\ requests' = requests + 1
    /\ session' = [session EXCEPT ![c] = s]

Goes(c, s) == session' = [session EXCEPT ![c] = s]

(* A request with nothing to mark or to reserve has only its record left.   *)
Closing == [Idle EXCEPT !.pc = "lock"]

(* governance_middleware, before the handler: a request for work.  428      *)
(* leaves a PENDING approval request behind, if there is none.              *)
RequestWork(c) ==
    \E who \in Identities, path \in Paths, key \in (Keys \ FreeKeys) \cup {0},
       high \in BOOLEAN, cost \in Costs :
       LET k == Hardened(key, who, path)
           action == ActionOf[path]
           s == [Idle EXCEPT !.who = who, !.path = path, !.key = k, !.high = high, !.cost = cost,
                             !.saw = IF cost > 0 THEN spent[who] ELSE 0]
       IN /\ Begin(c, IF ~Granted(action, who, cost) THEN Closing
                      ELSE IF Approved(high, k, who, action)
                      THEN [s EXCEPT !.pc = "dispatch",
                                     !.use = IF ValidApproval(k, who, action) THEN k ELSE 0]
                      ELSE IF Awaiting(who, path) # {} THEN Closing
                      ELSE [Closing EXCEPT !.who = who, !.path = path, !.put = "PENDING"])
          /\ UNCHANGED <<rows, history, crashes>>

(* The same for a request to governance itself.                             *)
RequestControl(c) ==
    \E kind \in Controls, who \in Identities, cost \in Costs :
       LET granted == Granted(kind, who, HardenedCost(kind, cost))
       IN /\ Begin(c, [Idle EXCEPT !.kind = kind, !.who = who, !.pc = IF granted THEN "load" ELSE "lock"])
          /\ UNCHANGED <<rows, history, crashes>>

(* A background worker dispatches on its own.                               *)
BeginInternal(c) ==
    /\ Begin(c, [Idle EXCEPT !.kind = "internal", !.pc = "dispatch"])
    /\ UNCHANGED <<rows, history, crashes>>

(* Mutant: an approval is marked only where a budget is reserved.           *)
MarksMutant(s) == s.use # 0 /\ s.cost > 0 /\ approval[s.use].status = "APPROVED"

(* mark_approval_used                                                       *)
Marks(s) == s.use # 0 /\ approval[s.use].status = "APPROVED"

(* The handler has returned: the transaction that accounts for the request  *)
(* begins (mark_approval_used loads the approval).                          *)
Returned(s) ==
    [s EXCEPT !.ok = TRUE, !.marks = Marks(s),
              !.pc = IF Marks(s) /\ s.cost > 0 THEN "mark" ELSE "lock"]

(* governed_dispatch: the second authorisation, with which the call leaves. *)
Dispatchable(s) ==
    IF s.kind = "internal" THEN enabled
    ELSE /\ Granted("runtime:dispatch", s.who, s.cost)
         /\ Approved(s.high, s.key, s.who, "runtime:dispatch")

(* The last step that looks at the headers of the request.  A dispatch of   *)
(* its own that is refused ends with an error; a handoff or a task whose    *)
(* dispatch is refused is BLOCKED, and its request succeeds.                *)
Dispatch(c) ==
    LET s == session[c]
        d == [s EXCEPT !.key = 0, !.path = AnyPath, !.high = FALSE]
    IN
    /\ s.pc = "dispatch"
    /\ IF Dispatchable(s)
       THEN Goes(c, [d EXCEPT !.pc = "calling", !.saw = IF s.cost > 0 THEN spent[s.who] ELSE 0])
       ELSE IF s.kind = "work" /\ ActionOf[s.path] # "runtime:dispatch" THEN Goes(c, Returned(d))
       ELSE Goes(c, Closing)
    /\ UNCHANGED <<rows, history, counters>>

(* The runtime answers, the handler commits and returns.                    *)
Answer(c) ==
    LET s == session[c] IN
    /\ s.pc = "calling"
    /\ \E ok \in BOOLEAN : Goes(c, IF ok THEN Returned(s) ELSE Closing)
    /\ UNCHANGED <<rows, history, counters>>

--------------------------------------------------------------------------

(* decide_governance_approval loads the request and its row ...             *)
LoadDecision(c) ==
    LET s == session[c] IN
    /\ s.pc = "load" /\ s.kind = "decide"
    /\ \E key \in Keys, decision \in {"APPROVED", "DENIED"} :
          LET refused == \/ approval[key].status # "PENDING"
                         \/ approval[key].by = s.who /\ ~approval[key].expired
          IN Goes(c, IF refused THEN Closing
                     ELSE [s EXCEPT !.pc = "commit", !.key = key,
                                    !.put = IF approval[key].expired THEN "EXPIRED" ELSE decision])
    /\ UNCHANGED <<rows, history, counters>>

(* ... and commits what it decided, whatever the row says by then.          *)
CommitDecision(c) ==
    LET s == session[c] IN
    /\ s.pc = "commit" /\ s.kind = "decide"
    /\ RowFree(c, s.key)
    /\ approval' = [approval EXCEPT ![s.key].status = s.put]
    /\ approvers' = IF s.put = "APPROVED" THEN [approvers EXCEPT ![s.key] = @ \cup {s.who}] ELSE approvers
    /\ redecided' = IF approval[s.key].status = "PENDING" THEN redecided ELSE redecided \cup {s.key}
    /\ Goes(c, Closing)
    /\ UNCHANGED <<enabled, spent, audit, used, raced, counters>>

(* update_kill_switch                                                       *)
UpdateKillSwitch(c) ==
    /\ session[c].pc = "load" /\ session[c].kind = "switch"
    /\ enabled' \in BOOLEAN
    /\ Goes(c, Closing)
    /\ UNCHANGED <<approval, spent, audit, history, counters>>

(* request_governance_approval                                              *)
AskApproval(c) ==
    /\ session[c].pc = "load" /\ session[c].kind = "ask"
    /\ \E action \in Actions, target \in Paths \cup {"*"} :
          approval' = Created(session[c].who, action, target)
    /\ Goes(c, Closing)
    /\ UNCHANGED <<enabled, spent, audit, history, counters>>

(* charge_budget reads the totals of the identity that is charged ...       *)
LoadCharge(c) ==
    LET s == session[c] IN
    /\ s.pc = "load" /\ s.kind = "charge"
    /\ \E who \in Identities, amount \in Costs \ {0} :
          Goes(c, IF WithinBudget(who, amount)
                  THEN [s EXCEPT !.pc = "commit", !.who = who, !.cost = amount, !.saw = spent[who]]
                  ELSE Closing)
    /\ UNCHANGED <<rows, history, counters>>

(* record_budget_entry                                                      *)
Record(s) ==
    /\ spent' = [spent EXCEPT ![s.who] = @ + s.cost]
    /\ raced' = IF s.cost > 0 /\ spent[s.who] # s.saw THEN raced \cup {s.who} ELSE raced

(* ... and commits the entry; the request itself has no cost.               *)
CommitCharge(c) ==
    LET s == session[c] IN
    /\ s.pc = "commit" /\ s.kind = "charge"
    /\ Record(s)
    /\ Goes(c, Closing)
    /\ UNCHANGED <<approval, enabled, audit, approvers, used, redecided, counters>>

--------------------------------------------------------------------------
(* governance_middleware, after the handler: with a budget to reserve, the  *)
(* UPDATE of the approval goes out first.                                   *)
MarkApproval(c) ==
    /\ session[c].pc = "mark"
    /\ RowFree(c, session[c].use)
    /\ Goes(c, [session[c] EXCEPT !.pc = "lock"])
    /\ UNCHANGED <<rows, history, counters>>

(* Mutant: no advisory lock.                                                *)
TakeAuditLockMutant(c) ==
    /\ session[c].pc = "lock"
    /\ Goes(c, [session[c] EXCEPT !.pc = "append", !.head = Len(audit)])
    /\ UNCHANGED <<rows, history, counters>>

(* append_audit takes the advisory lock and reads the head of the chain ... *)
TakeAuditLock(c) ==
    /\ session[c].pc = "lock"
    /\ \A d \in Clients : session[d].pc # "append"
    /\ Goes(c, [session[c] EXCEPT !.pc = "append", !.head = Len(audit)])
    /\ UNCHANGED <<rows, history, counters>>

(* A row keeps the first 500 characters of a User-Agent, its hash covers    *)
(* all of them.                                                             *)
Truncated(agent) == IF agent = "long" THEN "cut" ELSE agent
AuditRecord(prev, agent) == [prev |-> prev, hashed |-> agent, stored |-> Truncated(agent)]

(* ... extends it, and everything the transaction did is committed.         *)
AppendAudit(c) ==
    LET s == session[c] IN
    /\ s.pc = "append"
    /\ s.marks => RowFree(c, s.use)
    /\ \E agent \in Agents : audit' = Append(audit, AuditRecord(s.head, agent))
    /\ approval' = IF s.marks THEN [approval EXCEPT ![s.use].status = "USED"]
                   ELSE IF s.put = "PENDING" THEN Created(s.who, ActionOf[s.path], s.path)
                   ELSE approval
    /\ used' = IF s.ok /\ s.use # 0 THEN used \cup {s.use} ELSE used
    /\ IF s.ok THEN Record(s) ELSE UNCHANGED <<spent, raced>>
    /\ Goes(c, Idle)
    /\ UNCHANGED <<enabled, approvers, redecided, counters>>

(* One session waits for the advisory lock with the row of an approval, one *)
(* for the row with the lock: PostgreSQL ends the transaction of either,    *)
(* and its request, whose work is done, ends with an error.                 *)
Deadlocked(c, d) ==
    /\ session[c].pc = "lock"
    /\ session[d].pc = "append" /\ session[d].marks
    /\ HoldsRow(c, session[d].use)

LoseDeadlock(c) ==
    /\ \E d \in Clients : Deadlocked(c, d) \/ Deadlocked(d, c)
    /\ Goes(c, Idle)
    /\ UNCHANGED <<rows, history, counters>>

(* A process dies; its transaction is rolled back, its locks are freed.     *)
Crash(c) ==
    /\ session[c].pc # "idle" /\ crashes < MaxCrashes
    /\ crashes' = crashes + 1
    /\ Goes(c, Idle)
    /\ UNCHANGED <<rows, history, requests>>

(* expires_at of an approval request passes.                                *)
Expire(k) ==
    /\ approval[k].status # "ABSENT" /\ ~approval[k].expired
    /\ approval' = [approval EXCEPT ![k].expired = TRUE]
    /\ UNCHANGED <<enabled, spent, audit, session, history, counters>>

Proceed(c) ==
    \/ Dispatch(c) \/ Answer(c)
    \/ LoadDecision(c) \/ CommitDecision(c)
    \/ UpdateKillSwitch(c) \/ AskApproval(c)
    \/ LoadCharge(c) \/ CommitCharge(c)
    \/ MarkApproval(c) \/ TakeAuditLock(c) \/ AppendAudit(c) \/ LoseDeadlock(c)

Next ==
    \/ \E c \in Clients : RequestWork(c) \/ RequestControl(c) \/ BeginInternal(c) \/ Proceed(c) \/ Crash(c)
    \/ \E k \in Keys : Expire(k)

Spec == Init /\ [][Next]_vars

--------------------------------------------------------------------------
TypeOK ==
    /\ approval \in [Keys -> ApprovalRows]
    /\ enabled \in BOOLEAN
    /\ spent \in [Identities -> Nat]
    /\ audit \in Seq(AuditRows)
    /\ session \in [Clients -> Sessions]
    /\ approvers \in [Keys -> SUBSET Identities]
    /\ used \subseteq Keys /\ redecided \subseteq Keys
    /\ raced \subseteq Identities
    /\ requests \in 0..MaxRequests /\ crashes \in 0..MaxCrashes

(* The advisory lock: the records of the ledger form one chain, in the      *)
(* order of their ids, whoever appends beside whom and dies in between.     *)
ChainHasNoFork == \A i \in 1..Len(audit) : audit[i].prev = i - 1

(* Work of high risk leaves for a runtime.                                  *)
Leaves(c) == session[c].pc = "dispatch" /\ session'[c].pc = "calling" /\ session[c].high

(* The four-eyes rule: work of high risk starts only on an approval of      *)
(* dispatches that its own identity had asked for, for this path or for     *)
(* any, and that somebody else, and never that identity, had approved.      *)
FourEyes ==
    [][\A c \in Clients : Leaves(c) =>
          LET s == session[c] IN
          /\ s.key \in Keys
          /\ approval[s.key].by = s.who
          /\ approval[s.key].action = "runtime:dispatch"
          /\ approval[s.key].target \in {"*", s.path}
          /\ approvers[s.key] # {} /\ s.who \notin approvers[s.key]]_vars

(* An approval is good for one use by requests of its own action: once such *)
(* a use was committed the approval is USED, and no work of high risk       *)
(* starts on it any more, by a request of any action, unless a decision     *)
(* that had found it PENDING was committed over a later status.  It may be  *)
(* shared by what leaves before that commit, and it is never used up by     *)
(* requests of another action: POST .../handoffs asks for handoff:create,   *)
(* so that the middleware marks nothing, while its dispatch leaves on an    *)
(* approval of runtime:dispatch.                                            *)
OneUse ==
    /\ [](\A k \in used : approval[k].status = "USED" \/ k \in redecided)
    /\ [][\A c \in Clients : Leaves(c) =>
             (session[c].key \in used => session[c].key \in redecided)]_vars

(* A total passes its limit only by an entry whose check saw an older total.*)
OverrunOnlyByOverlap == \A i \in Identities : spent[i] > Limit[i] => i \in raced

(* The row of the approval and the advisory lock are taken in either order, *)
(* and both are held to the commit: still somebody in flight can go on.     *)
SomebodyGoesOn ==
    (\E c \in Clients : session[c].pc # "idle") =>
        \E c \in Clients : session[c].pc # "idle" /\ ENABLED Proceed(c)

==========================================================================
