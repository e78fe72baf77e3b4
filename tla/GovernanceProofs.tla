------------------------- MODULE GovernanceProofs -------------------------
(***************************************************************************)
(* Proofs about Governance, for every set of identities, roles, budgets    *)
(* and requests in flight, and for every bound.                            *)
(***************************************************************************)
EXTENDS Governance, TLAPS

(* What a session may rely on about approvals, although it read them in an  *)
(* earlier transaction: a decision is about a row that exists and does not  *)
(* approve its own request; a request for work presents an approval that    *)
(* its identity asked for and its path is covered by; the approval it uses  *)
(* was decided, is left to APPROVED and USED but for a stale decision, and  *)
(* if it is not to be marked, it is USED already.                           *)
Rely(s, row, again) ==
    /\ s.pc = "commit" /\ s.kind = "decide" =>
          /\ s.key \in Keys
          /\ row[s.key].status # "ABSENT"
          /\ s.put \in {"APPROVED", "DENIED", "EXPIRED"}
          /\ s.put = "APPROVED" => row[s.key].by # s.who
    /\ s.pc = "dispatch" /\ s.key # 0 =>
          /\ s.key \in Keys
          /\ row[s.key].status # "ABSENT"
          /\ row[s.key].by = s.who
          /\ row[s.key].target \in {"*", s.path}
    /\ s.use # 0 => /\ s.use \in Keys
                    /\ row[s.use].status \notin {"ABSENT", "PENDING"}
                    /\ row[s.use].status \in {"APPROVED", "USED"} \/ s.use \in again
    /\ s.marks => s.use # 0
    /\ s.ok /\ s.use # 0 /\ ~s.marks => row[s.use].status = "USED" \/ s.use \in again

(* What is stored of an approval, and its history.                          *)
RowInv(k) ==
    /\ approval[k].status = "ABSENT" => approvers[k] = {}
    /\ approval[k].status = "APPROVED" => approvers[k] # {}
    /\ approval[k].by \notin approvers[k]
    /\ k \in used => /\ approval[k].status \notin {"ABSENT", "PENDING"}
                     /\ approval[k].status = "USED" \/ k \in redecided

ApprovalInv ==
    /\ \A c \in Clients : Rely(session[c], approval, redecided)
    /\ \A k \in Keys : RowInv(k)

(* Requesters and targets do not change, nothing returns to ABSENT or       *)
(* PENDING, and only a stale decision changes a row that was APPROVED but   *)
(* to USED, or one that is USED.                                            *)
Evolves(k) ==
    /\ approval[k].status # "ABSENT" =>
          /\ approval'[k].status # "ABSENT"
          /\ approval'[k].by = approval[k].by
          /\ approval'[k].target = approval[k].target
    /\ approval[k].status \notin {"ABSENT", "PENDING"} =>
          /\ approval'[k].status \notin {"ABSENT", "PENDING"}
          /\ \/ approval'[k].status = approval[k].status
             \/ approval'[k].status = "USED"
             \/ k \in redecided'

Acts(c) ==
    \/ RequestWork(c) \/ RequestControl(c) \/ BeginInternal(c) \/ Dispatch(c)
    \/ Answer(c) \/ LoadDecision(c) \/ CommitDecision(c) \/ UpdateKillSwitch(c)
    \/ AskApproval(c) \/ LoadCharge(c) \/ CommitCharge(c) \/ MarkApproval(c)
    \/ TakeAuditLock(c) \/ AppendAudit(c) \/ LoseDeadlock(c) \/ Crash(c)

LEMMA AnyExists == AnyIdentity \in Identities /\ AnyPath \in Paths
<1>1. AnyIdentity \in Identities
  BY ConstantsAssumption DEF AnyIdentity
<1>2. AnyPath \in Paths
  BY ConstantsAssumption DEF AnyPath
<1> QED
  BY <1>1, <1>2

LEMMA ActionTypes ==
    /\ \A p \in Paths : ActionOf[p] \in WorkActions
    /\ Actions \subseteq WorkActions
<1>1. \A p \in Paths : ActionOf[p] \in WorkActions
  BY ConstantsAssumption
<1>2. "runtime:dispatch" \in WorkActions
  BY DEF WorkActions
<1> QED
  BY <1>1, <1>2 DEF Actions

(* The session records that the actions build.                              *)
LEMMA IdleTypes == Idle \in Sessions /\ Closing \in Sessions
<1>1. Idle \in Sessions
  BY AnyExists DEF Idle, Sessions, Kinds, Controls, Keys, Steps, Statuses
<1>2. Closing \in Sessions
  BY <1>1 DEF Closing, Sessions, Steps
<1> QED
  BY <1>1, <1>2

LEMMA RowTypes ==
    ASSUME NEW who \in Identities, NEW action \in WorkActions, NEW target \in Paths \cup {"*"}
    PROVE  NewApproval(who, action, target) \in ApprovalRows
BY DEF NewApproval, ApprovalRows, Statuses

LEMMA CreatedTypes ==
    ASSUME TypeOK, NEW who \in Identities, NEW action \in WorkActions,
           NEW target \in Paths \cup {"*"}
    PROVE  Created(who, action, target) \in [Keys -> ApprovalRows]
<1>1. approval \in [Keys -> ApprovalRows] /\ NewApproval(who, action, target) \in ApprovalRows
  BY RowTypes DEF TypeOK
<1>2. CASE FreeKeys = {}
  BY <1>1, <1>2 DEF Created
<1>3. CASE FreeKeys # {}
  <2>1. (CHOOSE k \in FreeKeys : TRUE) \in Keys
    BY <1>3 DEF FreeKeys
  <2> QED
    BY <1>1, <1>3, <2>1 DEF Created
<1> QED
  BY <1>2, <1>3

(* What the steps between a request and its end leave alone.                *)
LEMMA GoesTypes ==
    ASSUME TypeOK, NEW c \in Clients, NEW s \in Sessions, Goes(c, s)
    PROVE  session' \in [Clients -> Sessions]
BY DEF TypeOK, Goes

LEMMA BeginTypes ==
    ASSUME TypeOK, NEW c \in Clients, NEW s \in Sessions, Begin(c, s)
    PROVE  session' \in [Clients -> Sessions] /\ requests' \in 0..MaxRequests
<1>1. session' \in [Clients -> Sessions]
  BY DEF TypeOK, Begin
<1>2. requests' \in 0..MaxRequests
  BY ConstantsAssumption DEF TypeOK, Begin
<1> QED
  BY <1>1, <1>2

(* The record of a new request for work: it has ended but for its ledger    *)
(* record, or goes on to its dispatch with an approval that is its own and  *)
(* a cost that was within the budget.                                       *)
NewWork(n) ==
    /\ n.kind = "work" /\ n.marks = FALSE /\ n.ok = FALSE
    /\ \/ n.pc = "lock" /\ n.cost = 0 /\ n.use = 0
       \/ /\ n.pc = "dispatch"
          /\ n.key # 0 => /\ n.key \in Keys
                          /\ approval[n.key].status # "ABSENT"
                          /\ approval[n.key].by = n.who
                          /\ approval[n.key].target \in {"*", n.path}
          /\ n.use # 0 => n.use \in Keys /\ approval[n.use].status = "APPROVED"
          /\ n.cost > 0 => n.saw + n.cost <= Limit[n.who]

LEMMA WorkBegins ==
    ASSUME TypeOK, NEW c \in Clients, RequestWork(c)
    PROVE  \E n \in Sessions : NewWork(n) /\ Begin(c, n) /\ UNCHANGED <<rows, history, crashes>>
<1>1. PICK who \in Identities, path \in Paths, key \in (Keys \ FreeKeys) \cup {0},
           high \in BOOLEAN, cost \in Costs :
        LET k == Hardened(key, who, path)
            action == ActionOf[path]
            s == [Idle EXCEPT !.who = who, !.path = path, !.key = k, !.high = high, !.cost = cost,
                              !.saw = IF cost > 0 THEN spent[who] ELSE 0]
        IN /\ Begin(c, IF ~Granted(action, who, cost) THEN Closing
                       ELSE IF Approved(high, k, who, action)
                       THEN [s EXCEPT !.pc = "dispatch",
                                      !.use = IF ValidApproval(k, who, action) THEN k ELSE 0]
                       ELSE IF Awaiting(who, path) # {} THEN Closing
                       ELSE [Closing EXCEPT !.who = who, !.path = path, !.put = "PENDING"])
           /\ UNCHANGED <<rows, history, crashes>>
  BY DEF RequestWork
<1> DEFINE k == Hardened(key, who, path)
           v == IF cost > 0 THEN spent[who] ELSE 0
           u == IF ValidApproval(k, who, ActionOf[path]) THEN k ELSE 0
           p == [Closing EXCEPT !.who = who, !.path = path, !.put = "PENDING"]
           s == [Idle EXCEPT !.who = who, !.path = path, !.key = k, !.high = high, !.cost = cost,
                             !.saw = v]
           d == [s EXCEPT !.pc = "dispatch", !.use = u]
<1>2. k \in Keys \cup {0} /\ cost \in Nat
  BY ConstantsAssumption DEF Hardened
<1>3. k # 0 => /\ approval[k].status # "ABSENT"
               /\ approval[k].by = who
               /\ approval[k].target \in {"*", path}
  BY DEF Hardened, FreeKeys
<1>4. u \in {k, 0} /\ (u # 0 => approval[u].status = "APPROVED")
  BY DEF ValidApproval
<1>5. Closing \in Sessions /\ NewWork(Closing)
  BY IdleTypes DEF NewWork, Closing, Idle
<1>6. p \in Sessions /\ NewWork(p)
  <2>1. p \in Sessions
    BY IdleTypes DEF Sessions, Statuses
  <2> QED
    BY <2>1 DEF NewWork, Closing, Idle
<1>7. Begin(c, Closing) \/ Begin(c, p) \/ (Begin(c, d) /\ Granted(ActionOf[path], who, cost))
  BY <1>1
<1>v. v \in Nat /\ (cost > 0 => v = spent[who])
  BY DEF TypeOK
<1> HIDE DEF k, u, v
<1>8. d \in Sessions
  <2>1. s \in Sessions
    BY <1>2, <1>v, IdleTypes DEF Sessions
  <2> QED
    BY <1>2, <1>4, <2>1 DEF Sessions, Steps
<1>9. ASSUME Granted(ActionOf[path], who, cost) PROVE NewWork(d)
  <2>1. /\ d.pc = "dispatch" /\ d.kind = "work" /\ d.key = k /\ d.who = who /\ d.path = path
        /\ d.use = u /\ d.marks = FALSE /\ d.ok = FALSE /\ d.cost = cost /\ d.saw = v
    BY DEF Idle
  <2> HIDE DEF d
  <2>2. cost > 0 => v + cost <= Limit[who]
    BY <1>2, <1>9, <1>v DEF Granted, WithinBudget
  <2> QED
    BY <1>2, <1>3, <1>4, <2>1, <2>2 DEF NewWork
<1> HIDE DEF p, d
<1> QED
  BY <1>1, <1>5, <1>6, <1>7, <1>8, <1>9

(* What becomes of the record of a session by each action that goes on.     *)
LEMMA ControlRecord ==
    ASSUME TypeOK, NEW c \in Clients, RequestControl(c) \/ BeginInternal(c), NEW n, n = session'[c]
    PROVE  /\ \/ n.kind \in Controls /\ n.pc \in {"load", "lock"}
              \/ n.kind = "internal" /\ n.pc = "dispatch"
           /\ n.key = 0 /\ n.use = 0 /\ n.cost = 0 /\ n.high = FALSE /\ n.marks = FALSE /\ n.ok = FALSE
<1>1. CASE RequestControl(c)
  <2>1. PICK kind \in Controls, who \in Identities, pc \in {"load", "lock"} :
          session' = [session EXCEPT ![c] = [Idle EXCEPT !.kind = kind, !.who = who, !.pc = pc]]
    BY <1>1 DEF RequestControl, Begin
  <2>2. n = [Idle EXCEPT !.kind = kind, !.who = who, !.pc = pc]
    BY <2>1 DEF TypeOK
  <2> QED
    BY <2>2 DEF Idle
<1>2. CASE BeginInternal(c)
  <2>1. n = [Idle EXCEPT !.kind = "internal", !.pc = "dispatch"]
    BY <1>2 DEF BeginInternal, Begin, TypeOK
  <2> QED
    BY <2>1 DEF Idle
<1> QED
  BY <1>1, <1>2

(* ... and of that of a session whose step goes on with it.                 *)
Kept(n, s) == /\ n.kind = s.kind /\ n.key = s.key /\ n.path = s.path
              /\ n.use = s.use /\ n.marks = s.marks /\ n.ok = s.ok

(* The record of a request that has succeeded.                              *)
Succeeded(n, s) ==
    /\ n.pc \in {"mark", "lock"} /\ n.kind = s.kind /\ n.who = s.who
    /\ n.cost = s.cost /\ n.saw = s.saw /\ n.use = s.use /\ n.high = s.high
    /\ n.marks => s.use # 0
    /\ s.use # 0 /\ ~n.marks => approval[s.use].status # "APPROVED"

(* ... of a session whose approval in use is that of s.                     *)
SucceededWith(n, s) == \E d \in Sessions : d.use = s.use /\ Succeeded(n, d)

LEMMA ReturnedRecord ==
    ASSUME NEW s \in Sessions
    PROVE  Returned(s) \in Sessions /\ Succeeded(Returned(s), s)
<1>1. PICK m \in BOOLEAN : m = Marks(s)
  BY DEF Marks
<1>2. PICK pc \in {"mark", "lock"} : pc = IF Marks(s) /\ s.cost > 0 THEN "mark" ELSE "lock"
  OBVIOUS
<1>3. PICK n : n = Returned(s)
  OBVIOUS
<1>4. n = [s EXCEPT !.ok = TRUE, !.marks = m, !.pc = pc]
  BY <1>1, <1>2, <1>3 DEF Returned
<1>5. m => s.use # 0
  BY <1>1 DEF Marks
<1>6. s.use # 0 /\ ~m => approval[s.use].status # "APPROVED"
  BY <1>1 DEF Marks
<1>7. n \in Sessions
  BY <1>4 DEF Sessions, Steps
<1>8. /\ n.pc = pc /\ n.kind = s.kind /\ n.who = s.who /\ n.cost = s.cost /\ n.saw = s.saw
      /\ n.use = s.use /\ n.high = s.high
      /\ n.marks = m
  BY <1>4 DEF Sessions
<1> QED
  BY <1>3, <1>5, <1>6, <1>7, <1>8 DEF Succeeded

(* The record of a request whose call has left, ...                         *)
Gone(n, s) ==
    /\ Dispatchable(s)
    /\ n.pc = "calling" /\ n.kind = s.kind /\ n.who = s.who /\ n.cost = s.cost
    /\ n.use = s.use /\ n.marks = s.marks /\ n.ok = s.ok /\ n.high = FALSE
    /\ s.cost > 0 => n.saw = spent[s.who]

(* ... and of one whose dispatch is refused and which succeeds all the same. *)
Refused(n, s) ==
    /\ n.pc \in {"mark", "lock"} /\ n.kind = s.kind /\ n.who = s.who
    /\ n.cost = s.cost /\ n.saw = s.saw /\ n.high = FALSE
    /\ SucceededWith(n, s)

LEMMA DispatchRecord ==
    ASSUME TypeOK, NEW c \in Clients, Dispatch(c), NEW s, s = session[c], NEW n, n = session'[c]
    PROVE  /\ n \in Sessions
           /\ n = Closing \/ Gone(n, s) \/ Refused(n, s)
<1>1. s \in Sessions /\ session \in [Clients -> Sessions]
  BY DEF TypeOK
<1>2. PICK v : v = IF s.cost > 0 THEN spent[s.who] ELSE 0
  OBVIOUS
<1>3. v \in Nat
  BY <1>1, <1>2 DEF TypeOK, Sessions
<1> DEFINE d == [s EXCEPT !.key = 0, !.path = AnyPath, !.high = FALSE]
<1>4. d \in Sessions
  BY <1>1, AnyExists DEF Sessions
<1>5. /\ d.kind = s.kind /\ d.who = s.who /\ d.cost = s.cost /\ d.saw = s.saw /\ d.use = s.use
      /\ d.marks = s.marks /\ d.ok = s.ok /\ d.high = FALSE
  BY <1>1 DEF Sessions
<1>6. \/ Dispatchable(session[c]) /\ n = [d EXCEPT !.pc = "calling", !.saw = v]
      \/ n = Returned(d)
      \/ n = Closing
  BY <1>1, <1>2 DEF Dispatch, Goes
<1> HIDE DEF d
<1>7. CASE Dispatchable(session[c]) /\ n = [d EXCEPT !.pc = "calling", !.saw = v]
  <2>1. n \in Sessions
    BY <1>3, <1>4, <1>7 DEF Sessions, Steps
  <2>2. /\ n.pc = "calling" /\ n.kind = d.kind /\ n.who = d.who /\ n.cost = d.cost
        /\ n.use = d.use /\ n.marks = d.marks /\ n.ok = d.ok /\ n.high = d.high /\ n.saw = v
    BY <1>4, <1>7 DEF Sessions
  <2> QED
    BY <1>2, <1>5, <1>7, <2>1, <2>2 DEF Gone
<1>8. CASE n = Returned(d)
  <2>1. n \in Sessions /\ Succeeded(n, d)
    BY <1>4, <1>8, ReturnedRecord
  <2>2. /\ n.pc \in {"mark", "lock"} /\ n.kind = d.kind /\ n.who = d.who
        /\ n.cost = d.cost /\ n.saw = d.saw /\ n.high = d.high
    BY <2>1 DEF Succeeded
  <2>3. SucceededWith(n, s)
    BY <1>4, <1>5, <2>1 DEF SucceededWith
  <2> QED
    BY <1>5, <2>1, <2>2, <2>3 DEF Refused
<1>9. CASE n = Closing
  BY <1>9, IdleTypes
<1> QED
  BY <1>6, <1>7, <1>8, <1>9

LEMMA AnswerRecord ==
    ASSUME TypeOK, NEW c \in Clients, Answer(c), NEW s, s = session[c], NEW n, n = session'[c]
    PROVE  /\ n \in Sessions
           /\ n # Closing => s.pc = "calling" /\ Succeeded(n, s)
<1>1. s \in Sessions /\ session \in [Clients -> Sessions]
  BY DEF TypeOK
<1>2. s.pc = "calling" /\ (n = Returned(s) \/ n = Closing)
  BY <1>1 DEF Answer, Goes
<1> QED
  BY <1>1, <1>2, ReturnedRecord, IdleTypes

LEMMA DecisionRecord ==
    ASSUME TypeOK, NEW c \in Clients, LoadDecision(c), NEW s, s = session[c], NEW n, n = session'[c]
    PROVE  \/ n = Closing
           \/ /\ n.pc = "commit" /\ n.kind = "decide" /\ n.high = s.high /\ n.cost = s.cost
              /\ n.use = s.use /\ n.marks = s.marks /\ n.ok = s.ok
              /\ n.key \in Keys
              /\ approval[n.key].status = "PENDING"
              /\ n.put \in {"EXPIRED", "APPROVED", "DENIED"}
              /\ n.put = "APPROVED" => approval[n.key].by # n.who
<1>1. s \in Sessions /\ session \in [Clients -> Sessions] /\ s.kind = "decide"
  BY DEF TypeOK, LoadDecision
<1>2. PICK key \in Keys, decision \in {"APPROVED", "DENIED"} :
        LET refused == \/ approval[key].status # "PENDING"
                       \/ approval[key].by = session[c].who /\ ~approval[key].expired
        IN Goes(c, IF refused THEN Closing
                   ELSE [session[c] EXCEPT !.pc = "commit", !.key = key,
                                           !.put = IF approval[key].expired THEN "EXPIRED" ELSE decision])
  BY DEF LoadDecision
<1>3. PICK put : put = IF approval[key].expired THEN "EXPIRED" ELSE decision
  OBVIOUS
<1>4. \/ n = Closing
      \/ /\ n = [s EXCEPT !.pc = "commit", !.key = key, !.put = put]
         /\ approval[key].status = "PENDING"
         /\ put = "APPROVED" => approval[key].by # s.who
  <2>1. approval[key].expired \in BOOLEAN
    BY DEF TypeOK, ApprovalRows
  <2> QED
    BY <1>1, <1>2, <1>3, <2>1 DEF Goes
<1>5. put \in {"EXPIRED", "APPROVED", "DENIED"}
  BY <1>3
<1> QED
  BY <1>1, <1>4, <1>5 DEF Sessions

LEMMA ChargeRecord ==
    ASSUME TypeOK, NEW c \in Clients, LoadCharge(c), NEW s, s = session[c], NEW n, n = session'[c]
    PROVE  \/ n = Closing
           \/ /\ Kept(n, s) /\ n.pc = "commit" /\ n.kind = "charge"
              /\ n.saw + n.cost <= Limit[n.who]
<1>1. s \in Sessions /\ session \in [Clients -> Sessions] /\ s.kind = "charge"
  BY DEF TypeOK, LoadCharge
<1>2. PICK who \in Identities, amount \in Costs \ {0} :
        Goes(c, IF WithinBudget(who, amount)
                THEN [session[c] EXCEPT !.pc = "commit", !.who = who, !.cost = amount, !.saw = spent[who]]
                ELSE Closing)
  BY DEF LoadCharge
<1>3. CASE WithinBudget(who, amount)
  <2>1. PICK v : v = spent[who]
    OBVIOUS
  <2>2. n = [s EXCEPT !.pc = "commit", !.who = who, !.cost = amount, !.saw = v]
    BY <1>1, <1>2, <1>3, <2>1 DEF Goes
  <2>3. v + amount <= Limit[who]
    BY <1>3, <2>1 DEF WithinBudget
  <2> QED
    BY <1>1, <2>2, <2>3 DEF Kept, Sessions
<1>4. CASE ~WithinBudget(who, amount)
  BY <1>1, <1>2, <1>4 DEF Goes
<1> QED
  BY <1>3, <1>4

LEMMA LockRecord ==
    ASSUME TypeOK, NEW c \in Clients, MarkApproval(c) \/ TakeAuditLock(c),
           NEW s, s = session[c], NEW n, n = session'[c]
    PROVE  /\ Kept(n, s) /\ n.high = s.high /\ n.who = s.who /\ n.cost = s.cost /\ n.saw = s.saw
           /\ \/ MarkApproval(c) /\ s.pc = "mark" /\ n.pc = "lock"
              \/ TakeAuditLock(c) /\ s.pc = "lock" /\ n.pc = "append" /\ n.head = Len(audit)
<1>1. s \in Sessions /\ session \in [Clients -> Sessions]
  BY DEF TypeOK
<1>2. CASE MarkApproval(c)
  <2>1. n = [s EXCEPT !.pc = "lock"] /\ s.pc = "mark"
    BY <1>1, <1>2 DEF MarkApproval, Goes
  <2> QED
    BY <1>1, <1>2, <2>1 DEF Kept, Sessions
<1>3. CASE TakeAuditLock(c)
  <2>1. PICK h : h = Len(audit)
    OBVIOUS
  <2>2. n = [s EXCEPT !.pc = "append", !.head = h] /\ s.pc = "lock"
    BY <1>1, <1>3, <2>1 DEF TakeAuditLock, Goes
  <2> QED
    BY <1>1, <1>3, <2>1, <2>2 DEF Kept, Sessions
<1> QED
  BY <1>2, <1>3

(* All other actions of a session end it, or leave its ledger record.       *)
Ends(c) ==
    \/ CommitDecision(c) \/ UpdateKillSwitch(c) \/ AskApproval(c) \/ CommitCharge(c)
    \/ AppendAudit(c) \/ LoseDeadlock(c) \/ Crash(c)

LEMMA EndRecord ==
    ASSUME TypeOK, NEW c \in Clients, Ends(c)
    PROVE  session'[c] \in {Idle, Closing}
BY DEF Ends, CommitDecision, UpdateKillSwitch, AskApproval, CommitCharge, AppendAudit,
   LoseDeadlock, Crash, Goes, TypeOK

LEMMA InitType == Init => TypeOK
<1> SUFFICES ASSUME Init PROVE TypeOK
  OBVIOUS
<1>1. NoApproval \in ApprovalRows
  BY AnyExists DEF NoApproval, ApprovalRows, Statuses, WorkActions
<1>2. approval \in [Keys -> ApprovalRows]
  <2>1. {NewApproval(who, action, target) : who \in Identities, action \in Actions,
                                            target \in Paths \cup {"*"}} \subseteq ApprovalRows
    BY RowTypes, ActionTypes
  <2> QED
    BY <1>1, <2>1 DEF Init
<1>3. session \in [Clients -> Sessions]
  BY IdleTypes DEF Init
<1>4. audit \in Seq(AuditRows)
  BY DEF Init
<1>5. requests \in 0..MaxRequests /\ crashes \in 0..MaxCrashes
  BY ConstantsAssumption DEF Init
<1> QED
  BY <1>2, <1>3, <1>4, <1>5 DEF Init, TypeOK

LEMMA TypeStep == TypeOK /\ ApprovalInv /\ [Next]_vars => TypeOK'
<1> SUFFICES ASSUME TypeOK, ApprovalInv, [Next]_vars PROVE TypeOK'
  OBVIOUS
<1>tc. \A c \in Clients : session[c] \in Sessions
  BY DEF TypeOK
<1>ta. \A k \in Keys : approval[k] \in ApprovalRows
  BY DEF TypeOK
<1>1. ASSUME NEW c \in Clients, RequestWork(c) PROVE TypeOK'
  <2>1. PICK n \in Sessions : Begin(c, n) /\ UNCHANGED <<rows, history, crashes>>
    BY <1>1, WorkBegins
  <2>2. session' \in [Clients -> Sessions] /\ requests' \in 0..MaxRequests
    BY <2>1, BeginTypes
  <2> QED
    BY <2>1, <2>2 DEF TypeOK, rows, history
<1>2. ASSUME NEW c \in Clients, RequestControl(c) PROVE TypeOK'
  <2>1. PICK kind \in Controls, who \in Identities, cost \in Costs :
          /\ Begin(c, [Idle EXCEPT !.kind = kind, !.who = who,
                                   !.pc = IF Granted(kind, who, HardenedCost(kind, cost)) THEN "load" ELSE "lock"])
          /\ UNCHANGED <<rows, history, crashes>>
    BY <1>2 DEF RequestControl
  <2> DEFINE n == [Idle EXCEPT !.kind = kind, !.who = who,
                               !.pc = IF Granted(kind, who, HardenedCost(kind, cost)) THEN "load" ELSE "lock"]
  <2>2. n \in Sessions
    BY IdleTypes DEF Sessions, Steps, Kinds
  <2>3. Begin(c, n)
    BY <2>1
  <2> HIDE DEF n
  <2>4. session' \in [Clients -> Sessions] /\ requests' \in 0..MaxRequests
    BY <2>2, <2>3, BeginTypes
  <2> QED
    BY <2>1, <2>4 DEF TypeOK, rows, history
<1>3. ASSUME NEW c \in Clients, BeginInternal(c) PROVE TypeOK'
  <2> DEFINE n == [Idle EXCEPT !.kind = "internal", !.pc = "dispatch"]
  <2>1. n \in Sessions
    BY IdleTypes DEF Sessions, Steps
  <2>2. Begin(c, n) /\ UNCHANGED <<rows, history, crashes>>
    BY <1>3 DEF BeginInternal
  <2> HIDE DEF n
  <2>3. session' \in [Clients -> Sessions] /\ requests' \in 0..MaxRequests
    BY <2>1, <2>2, BeginTypes
  <2> QED
    BY <2>2, <2>3 DEF TypeOK, rows, history
<1>4. ASSUME NEW c \in Clients, Dispatch(c) \/ Answer(c) PROVE TypeOK'
  <2>1. PICK n : n = session'[c]
    OBVIOUS
  <2>2. n \in Sessions
    BY <1>4, <2>1, DispatchRecord, AnswerRecord
  <2>3. \E m : Goes(c, m)
    BY <1>4 DEF Dispatch, Answer
  <2>4. session' \in [Clients -> Sessions]
    BY <2>1, <2>2, <2>3 DEF Goes, TypeOK
  <2> QED
    BY <1>4, <2>4 DEF Dispatch, Answer, TypeOK, rows, history, counters
<1>6. ASSUME NEW c \in Clients, LoadDecision(c) PROVE TypeOK'
  <2> DEFINE s == session[c]
  <2>1. PICK key \in Keys, decision \in {"APPROVED", "DENIED"} :
          LET refused == \/ approval[key].status # "PENDING"
                         \/ approval[key].by = session[c].who /\ ~approval[key].expired
          IN Goes(c, IF refused THEN Closing
                     ELSE [session[c] EXCEPT !.pc = "commit", !.key = key,
                                             !.put = IF approval[key].expired THEN "EXPIRED" ELSE decision])
    BY <1>6 DEF LoadDecision
  <2> DEFINE e == [s EXCEPT !.pc = "commit", !.key = key, !.put = "EXPIRED"]
             d == [s EXCEPT !.pc = "commit", !.key = key, !.put = decision]
  <2>2. s \in Sessions
    BY <1>tc
  <2>3. e \in Sessions /\ d \in Sessions
    BY <2>2 DEF Sessions, Steps, Statuses
  <2>4. Goes(c, Closing) \/ Goes(c, e) \/ Goes(c, d)
    BY <2>1
  <2> HIDE DEF e, d
  <2>5. session' \in [Clients -> Sessions]
    BY <2>3, <2>4, IdleTypes, GoesTypes
  <2> QED
    BY <1>6, <2>5 DEF LoadDecision, TypeOK, rows, history, counters
<1>7. ASSUME NEW c \in Clients, CommitDecision(c) PROVE TypeOK'
  <2> DEFINE s == session[c]
  <2>1. s.put \in Statuses /\ s.key \in Keys /\ s.who \in Identities
    BY <1>7, <1>tc DEF CommitDecision, ApprovalInv, Rely, Sessions
  <2>2. approval' \in [Keys -> ApprovalRows]
    <3>1. approval' = [approval EXCEPT ![s.key].status = s.put]
      BY <1>7 DEF CommitDecision
    <3>2. s.key \in Keys => [approval[s.key] EXCEPT !.status = s.put] \in ApprovalRows
      BY <1>ta, <2>1 DEF ApprovalRows
    <3> QED
      BY <3>1, <3>2 DEF TypeOK
  <2>3. approvers' \in [Keys -> SUBSET Identities]
    BY <1>7, <2>1 DEF CommitDecision, TypeOK
  <2>4. redecided' \subseteq Keys
    BY <1>7, <2>1 DEF CommitDecision, TypeOK
  <2>5. session' \in [Clients -> Sessions]
    BY <1>7, IdleTypes, GoesTypes DEF CommitDecision
  <2> QED
    BY <1>7, <2>2, <2>3, <2>4, <2>5 DEF CommitDecision, TypeOK, counters
<1>8. ASSUME NEW c \in Clients, UpdateKillSwitch(c) PROVE TypeOK'
  <2>1. session' \in [Clients -> Sessions]
    BY <1>8, IdleTypes, GoesTypes DEF UpdateKillSwitch
  <2> QED
    BY <1>8, <2>1 DEF UpdateKillSwitch, TypeOK, history, counters
<1>9. ASSUME NEW c \in Clients, AskApproval(c) PROVE TypeOK'
  <2>1. session' \in [Clients -> Sessions]
    BY <1>9, IdleTypes, GoesTypes DEF AskApproval
  <2>2. session[c].who \in Identities
    BY <1>tc DEF Sessions
  <2>3. approval' \in [Keys -> ApprovalRows]
    BY <1>9, <2>2, CreatedTypes, ActionTypes DEF AskApproval
  <2> QED
    BY <1>9, <2>1, <2>3 DEF AskApproval, TypeOK, history, counters
<1>10. ASSUME NEW c \in Clients, LoadCharge(c) PROVE TypeOK'
  <2> DEFINE s == session[c]
  <2>1. PICK who \in Identities, amount \in Costs \ {0} :
          Goes(c, IF WithinBudget(who, amount)
                  THEN [s EXCEPT !.pc = "commit", !.who = who, !.cost = amount, !.saw = spent[who]]
                  ELSE Closing)
    BY <1>10 DEF LoadCharge
  <2> DEFINE n == [s EXCEPT !.pc = "commit", !.who = who, !.cost = amount, !.saw = spent[who]]
  <2>2. s \in Sessions /\ amount \in Nat /\ spent[who] \in Nat
    BY <1>tc, ConstantsAssumption DEF TypeOK
  <2>3. n \in Sessions
    BY <2>2 DEF Sessions, Steps
  <2>4. Goes(c, n) \/ Goes(c, Closing)
    BY <2>1
  <2> HIDE DEF n
  <2>5. session' \in [Clients -> Sessions]
    BY <2>3, <2>4, IdleTypes, GoesTypes
  <2> QED
    BY <1>10, <2>5 DEF LoadCharge, TypeOK, rows, history, counters
<1>r. ASSUME NEW c \in Clients, Record(session[c])
      PROVE  spent' \in [Identities -> Nat] /\ raced' \subseteq Identities
  <2>1. session[c].who \in Identities /\ session[c].cost \in Nat
    BY <1>tc DEF Sessions
  <2>2. spent[session[c].who] + session[c].cost \in Nat
    BY <2>1 DEF TypeOK
  <2> QED
    BY <1>r, <2>1, <2>2 DEF Record, TypeOK
<1>11. ASSUME NEW c \in Clients, CommitCharge(c) PROVE TypeOK'
  <2>1. session' \in [Clients -> Sessions]
    BY <1>11, IdleTypes, GoesTypes DEF CommitCharge
  <2>2. spent' \in [Identities -> Nat] /\ raced' \subseteq Identities
    BY <1>11, <1>r DEF CommitCharge
  <2> QED
    BY <1>11, <2>1, <2>2 DEF CommitCharge, TypeOK, counters
<1>12. ASSUME NEW c \in Clients, MarkApproval(c) PROVE TypeOK'
  <2> DEFINE n == [session[c] EXCEPT !.pc = "lock"]
  <2>1. n \in Sessions
    BY <1>tc DEF Sessions, Steps
  <2>2. Goes(c, n) /\ UNCHANGED <<rows, history, counters>>
    BY <1>12 DEF MarkApproval
  <2> HIDE DEF n
  <2>3. session' \in [Clients -> Sessions]
    BY <2>1, <2>2, GoesTypes
  <2> QED
    BY <2>2, <2>3 DEF TypeOK, rows, history, counters
<1>13. ASSUME NEW c \in Clients, TakeAuditLock(c) PROVE TypeOK'
  <2> DEFINE n == [session[c] EXCEPT !.pc = "append", !.head = Len(audit)]
  <2>1. Len(audit) \in Nat
    BY DEF TypeOK
  <2>2. n \in Sessions
    BY <1>tc, <2>1 DEF Sessions, Steps
  <2>3. Goes(c, n) /\ UNCHANGED <<rows, history, counters>>
    BY <1>13 DEF TakeAuditLock
  <2> HIDE DEF n
  <2>4. session' \in [Clients -> Sessions]
    BY <2>2, <2>3, GoesTypes
  <2> QED
    BY <2>3, <2>4 DEF TypeOK, rows, history, counters
<1>14. ASSUME NEW c \in Clients, AppendAudit(c) PROVE TypeOK'
  <2> DEFINE s == session[c]
  <2>1. s \in Sessions
    BY <1>tc
  <2>2. session' \in [Clients -> Sessions]
    BY <1>14, IdleTypes, GoesTypes DEF AppendAudit
  <2>3. audit' \in Seq(AuditRows)
    <3>1. PICK agent \in Agents : audit' = Append(audit, AuditRecord(s.head, agent))
      BY <1>14 DEF AppendAudit
    <3>2. AuditRecord(s.head, agent) \in AuditRows
      BY <2>1, ConstantsAssumption DEF AuditRecord, AuditRows, Truncated, Sessions
    <3> QED
      BY <3>1, <3>2 DEF TypeOK
  <2>4. approval' \in [Keys -> ApprovalRows]
    <3>1. \/ approval' = [approval EXCEPT ![s.use].status = "USED"]
          \/ approval' = Created(s.who, ActionOf[s.path], s.path)
          \/ approval' = approval
      BY <1>14 DEF AppendAudit
    <3>2. CASE approval' = [approval EXCEPT ![s.use].status = "USED"]
      <4>1. s.use \in Keys => [approval[s.use] EXCEPT !.status = "USED"] \in ApprovalRows
        BY <1>ta DEF ApprovalRows, Statuses
      <4> QED
        BY <3>2, <4>1 DEF TypeOK
    <3>3. CASE approval' = Created(s.who, ActionOf[s.path], s.path)
      BY <2>1, <3>3, CreatedTypes, ActionTypes DEF Sessions
    <3> QED
      BY <3>1, <3>2, <3>3 DEF TypeOK
  <2>5. used' \subseteq Keys
    BY <1>14, <2>1 DEF AppendAudit, Sessions, TypeOK
  <2>6. spent' \in [Identities -> Nat] /\ raced' \subseteq Identities
    BY <1>14, <1>r DEF AppendAudit, TypeOK
  <2> QED
    BY <1>14, <2>2, <2>3, <2>4, <2>5, <2>6 DEF AppendAudit, TypeOK, counters
<1>15. ASSUME NEW c \in Clients, LoseDeadlock(c) PROVE TypeOK'
  <2>1. session' \in [Clients -> Sessions]
    BY <1>15, IdleTypes, GoesTypes DEF LoseDeadlock
  <2> QED
    BY <1>15, <2>1 DEF LoseDeadlock, TypeOK, rows, history, counters
<1>16. ASSUME NEW c \in Clients, Crash(c) PROVE TypeOK'
  <2>1. session' \in [Clients -> Sessions]
    BY <1>16, IdleTypes, GoesTypes DEF Crash
  <2>2. crashes' \in 0..MaxCrashes
    BY <1>16, ConstantsAssumption DEF Crash, TypeOK
  <2> QED
    BY <1>16, <2>1, <2>2 DEF Crash, TypeOK, rows, history
<1>17. ASSUME NEW k \in Keys, Expire(k) PROVE TypeOK'
  <2>1. [approval[k] EXCEPT !.expired = TRUE] \in ApprovalRows
    BY <1>ta DEF ApprovalRows
  <2>2. approval' \in [Keys -> ApprovalRows]
    BY <1>17, <2>1 DEF Expire, TypeOK
  <2> QED
    BY <1>17, <2>2 DEF Expire, TypeOK, history, counters
<1>18. CASE UNCHANGED vars
  BY <1>18 DEF TypeOK, vars, rows, history, counters
<1> QED
  BY <1>1, <1>2, <1>3, <1>4, <1>6, <1>7, <1>8, <1>9, <1>10, <1>11, <1>12,
     <1>13, <1>14, <1>15, <1>16, <1>17, <1>18 DEF Next, Proceed

LEMMA CreatedRow ==
    ASSUME TypeOK, NEW who \in Identities, NEW action \in WorkActions,
           NEW target \in Paths \cup {"*"}, NEW k \in Keys
    PROVE  \/ Created(who, action, target)[k] = approval[k]
           \/ /\ approval[k].status = "ABSENT"
              /\ Created(who, action, target)[k] = NewApproval(who, action, target)
<1>1. CASE FreeKeys = {}
  BY <1>1 DEF Created
<1>2. CASE FreeKeys # {}
  <2>1. (CHOOSE j \in FreeKeys : TRUE) \in FreeKeys
    BY <1>2
  <2> QED
    BY <1>2, <2>1 DEF Created, FreeKeys, TypeOK
<1> QED
  BY <1>1, <1>2

LEMMA RowsEvolve ==
    ASSUME TypeOK, ApprovalInv, [Next]_vars, NEW k \in Keys
    PROVE  Evolves(k) /\ redecided \subseteq redecided'
<1>t. approval \in [Keys -> ApprovalRows]
  BY DEF TypeOK
<1>1. ASSUME approval' = approval, redecided \subseteq redecided'
      PROVE  Evolves(k) /\ redecided \subseteq redecided'
  BY <1>1 DEF Evolves
<1>2. ASSUME NEW c \in Clients, CommitDecision(c)
      PROVE  Evolves(k) /\ redecided \subseteq redecided'
  <2> DEFINE s == session[c]
  <2>1. s.key \in Keys /\ s.put \in {"APPROVED", "DENIED", "EXPIRED"}
    BY <1>2 DEF CommitDecision, ApprovalInv, Rely
  <2>2. /\ approval' = [approval EXCEPT ![s.key].status = s.put]
        /\ redecided' = IF approval[s.key].status = "PENDING" THEN redecided ELSE redecided \cup {s.key}
    BY <1>2 DEF CommitDecision
  <2>3. CASE k = s.key
    <3>1. /\ approval'[k].status = s.put
          /\ approval'[k].by = approval[k].by
          /\ approval'[k].target = approval[k].target
      BY <1>t, <2>2, <2>3 DEF ApprovalRows
    <3> QED
      BY <2>1, <2>2, <2>3, <3>1 DEF Evolves
  <2>4. CASE k # s.key
    BY <1>t, <2>1, <2>2, <2>4 DEF Evolves
  <2> QED
    BY <2>3, <2>4
<1>3. ASSUME NEW who \in Identities, NEW action \in WorkActions,
             NEW target \in Paths \cup {"*"}, approval' = Created(who, action, target), redecided' = redecided
      PROVE  Evolves(k) /\ redecided \subseteq redecided'
  BY <1>3, CreatedRow DEF Evolves
<1>4. ASSUME NEW c \in Clients, AppendAudit(c)
      PROVE  Evolves(k) /\ redecided \subseteq redecided'
  <2> DEFINE s == session[c]
  <2>1. s \in Sessions
    BY DEF TypeOK
  <2>2. redecided' = redecided
    BY <1>4 DEF AppendAudit
  <2>3. CASE s.marks
    <3>1. s.use \in Keys
      BY <2>3 DEF ApprovalInv, Rely
    <3>2. approval' = [approval EXCEPT ![s.use].status = "USED"]
      BY <1>4, <2>3 DEF AppendAudit
    <3>3. CASE k = s.use
      <4>1. /\ approval'[k].status = "USED"
            /\ approval'[k].by = approval[k].by
            /\ approval'[k].target = approval[k].target
        BY <1>t, <3>2, <3>3 DEF ApprovalRows
      <4> QED
        BY <2>2, <4>1 DEF Evolves
    <3>4. CASE k # s.use
      BY <1>t, <2>2, <3>2, <3>4 DEF Evolves
    <3> QED
      BY <3>3, <3>4
  <2>4. CASE ~s.marks /\ s.put = "PENDING"
    <3>1. approval' = Created(s.who, ActionOf[s.path], s.path) /\ s.who \in Identities /\ s.path \in Paths
      BY <1>4, <2>1, <2>4 DEF AppendAudit, Sessions
    <3> QED
      BY <1>3, <2>2, <3>1, ActionTypes
  <2>5. CASE ~s.marks /\ s.put # "PENDING"
    BY <1>1, <1>4, <2>2, <2>5 DEF AppendAudit
  <2> QED
    BY <2>3, <2>4, <2>5
<1>5. ASSUME NEW c \in Clients, AskApproval(c)
      PROVE  Evolves(k) /\ redecided \subseteq redecided'
  <2>1. session[c].who \in Identities
    BY DEF TypeOK, Sessions
  <2> QED
    BY <1>3, <1>5, <2>1, ActionTypes DEF AskApproval, history
<1>6. ASSUME NEW j \in Keys, Expire(j)
      PROVE  Evolves(k) /\ redecided \subseteq redecided'
  <2>1. /\ approval'[k].status = approval[k].status
        /\ approval'[k].by = approval[k].by
        /\ approval'[k].target = approval[k].target
    BY <1>t, <1>6 DEF Expire, ApprovalRows
  <2> QED
    BY <1>6, <2>1 DEF Expire, Evolves, history
<1>7. ASSUME NEW c \in Clients,
             \/ RequestWork(c) \/ RequestControl(c) \/ BeginInternal(c) \/ Dispatch(c) \/ Answer(c)
             \/ LoadDecision(c) \/ UpdateKillSwitch(c) \/ LoadCharge(c) \/ CommitCharge(c)
             \/ MarkApproval(c) \/ TakeAuditLock(c) \/ LoseDeadlock(c) \/ Crash(c)
      PROVE  approval' = approval /\ redecided' = redecided
  <2>1. CASE Dispatch(c)
    BY <2>1 DEF Dispatch, rows, history
  <2>2. CASE Answer(c)
    BY <2>2 DEF Answer, rows, history
  <2>3. CASE RequestWork(c)
    BY <2>3 DEF RequestWork, rows, history
  <2>6. CASE RequestControl(c)
    BY <2>6 DEF RequestControl, rows, history
  <2>7. CASE BeginInternal(c)
    BY <2>7 DEF BeginInternal, rows, history
  <2>4. CASE LoadDecision(c) \/ UpdateKillSwitch(c) \/ LoadCharge(c) \/ CommitCharge(c)
    BY <2>4 DEF LoadDecision, UpdateKillSwitch, LoadCharge, CommitCharge, rows, history
  <2>5. CASE MarkApproval(c) \/ TakeAuditLock(c) \/ LoseDeadlock(c) \/ Crash(c)
    BY <2>5 DEF MarkApproval, TakeAuditLock, LoseDeadlock, Crash, rows, history
  <2> QED
    BY <1>7, <2>1, <2>2, <2>3, <2>4, <2>5, <2>6, <2>7
<1>8. CASE UNCHANGED vars
  BY <1>1, <1>8 DEF vars, rows, history
<1> QED
  BY <1>1, <1>2, <1>4, <1>5, <1>6, <1>7, <1>8 DEF Next, Proceed

LEMMA ApprovalInit == Init => ApprovalInv
<1> SUFFICES ASSUME Init PROVE ApprovalInv
  OBVIOUS
<1>1. \A c \in Clients : Rely(session[c], approval, redecided)
  BY DEF Init, Rely, Idle
<1>2. ASSUME NEW k \in Keys PROVE RowInv(k)
  <2>1. approval[k].status \in {"ABSENT", "PENDING"}
    BY DEF Init, NoApproval, NewApproval
  <2> QED
    BY <2>1 DEF Init, RowInv
<1> QED
  BY <1>1, <1>2 DEF ApprovalInv

LEMMA RedecidedGrows == TypeOK /\ ApprovalInv /\ [Next]_vars => redecided \subseteq redecided'
<1>1. 1 \in Keys
  BY ConstantsAssumption DEF Keys
<1> QED
  BY <1>1, RowsEvolve

(* A session that does nothing keeps what it may rely on.                   *)
LEMMA RelyStable ==
    ASSUME TypeOK, ApprovalInv, [Next]_vars,
           NEW s, s \in Sessions, Rely(s, approval, redecided)
    PROVE  Rely(s, approval', redecided')
<1>1. \A k \in Keys : Evolves(k)
  BY RowsEvolve
<1>2. redecided \subseteq redecided'
  BY RedecidedGrows
<1>3. s.pc = "commit" /\ s.kind = "decide" =>
         /\ s.key \in Keys
         /\ approval'[s.key].status # "ABSENT"
         /\ s.put \in {"APPROVED", "DENIED", "EXPIRED"}
         /\ s.put = "APPROVED" => approval'[s.key].by # s.who
  BY <1>1 DEF Rely, Evolves
<1>4. s.pc = "dispatch" /\ s.key # 0 =>
         /\ s.key \in Keys
         /\ approval'[s.key].status # "ABSENT"
         /\ approval'[s.key].by = s.who
         /\ approval'[s.key].target \in {"*", s.path}
  BY <1>1 DEF Rely, Evolves
<1>5. s.use # 0 => /\ s.use \in Keys
                   /\ approval'[s.use].status \notin {"ABSENT", "PENDING"}
                   /\ approval'[s.use].status \in {"APPROVED", "USED"} \/ s.use \in redecided'
  BY <1>1, <1>2 DEF Rely, Evolves
<1>6. s.ok /\ s.use # 0 /\ ~s.marks => approval'[s.use].status = "USED" \/ s.use \in redecided'
  BY <1>1, <1>2 DEF Rely, Evolves
<1> QED
  BY <1>3, <1>4, <1>5, <1>6 DEF Rely

(* The session that acts may rely on what its new record says.              *)
LEMMA ActorStep ==
    ASSUME TypeOK, ApprovalInv, [Next]_vars, NEW c \in Clients, NEW s, s = session[c]
    PROVE  \A n : session' = [session EXCEPT ![c] = n] /\ Acts(c) => Rely(n, approval', redecided')
<1>s. s \in Sessions /\ Rely(s, approval, redecided) /\ session \in [Clients -> Sessions]
  BY DEF TypeOK, ApprovalInv
<1>t. Rely(s, approval', redecided')
  BY <1>s, RelyStable
<1>i. Rely(Idle, approval', redecided') /\ Rely(Closing, approval', redecided')
  BY DEF Rely, Idle, Closing
<1> SUFFICES ASSUME NEW n, session' = [session EXCEPT ![c] = n], Acts(c)
             PROVE  Rely(n, approval', redecided')
  OBVIOUS
<1>n. n = session'[c]
  BY <1>s
<1>1. CASE RequestWork(c)
  <2>1. NewWork(n) /\ UNCHANGED <<rows, history, crashes>>
    BY <1>s, <1>n, <1>1, WorkBegins DEF Begin
  <2> QED
    BY <2>1 DEF NewWork, Rely, rows, history
<1>2. CASE RequestControl(c) \/ BeginInternal(c)
  <2>1. (n.pc # "commit" /\ n.key = 0 /\ n.use = 0) /\ n.marks = FALSE /\ n.ok = FALSE
    BY <1>n, <1>2, ControlRecord
  <2> QED
    BY <2>1 DEF Rely
<1>u. approval' = approval /\ redecided' = redecided =>
         (\A d \in Sessions : d.use = s.use /\ Succeeded(n, d) => Rely(n, approval', redecided'))
  BY <1>s DEF Rely, Succeeded
<1>3. CASE Dispatch(c)
  <2>1. approval' = approval /\ redecided' = redecided
    BY <1>3 DEF Dispatch, rows, history
  <2>2. CASE n = Closing
    BY <1>i, <2>2
  <2>3. CASE Gone(n, s)
    BY <1>t, <2>3 DEF Gone, Rely
  <2>4. CASE Refused(n, s)
    BY <1>u, <2>1, <2>4 DEF Refused, SucceededWith
  <2> QED
    BY <1>n, <1>3, <2>2, <2>3, <2>4, DispatchRecord
<1>4. CASE Answer(c)
  <2>1. n # Closing => Succeeded(n, s)
    BY <1>n, <1>4, AnswerRecord
  <2>2. approval' = approval /\ redecided' = redecided
    BY <1>4 DEF Answer, rows, history
  <2> QED
    BY <1>s, <1>i, <1>u, <2>1, <2>2
<1>5. CASE LoadDecision(c)
  <2>1. \/ n = Closing
        \/ /\ n.pc = "commit" /\ n.use = s.use /\ n.marks = s.marks /\ n.ok = s.ok
           /\ n.key \in Keys
           /\ approval[n.key].status = "PENDING"
           /\ n.put \in {"EXPIRED", "APPROVED", "DENIED"}
           /\ n.put = "APPROVED" => approval[n.key].by # n.who
    BY <1>n, <1>5, DecisionRecord
  <2>2. approval' = approval /\ redecided' = redecided
    BY <1>5 DEF LoadDecision, rows, history
  <2> QED
    BY <1>s, <1>i, <2>1, <2>2 DEF Rely
<1>6. CASE LoadCharge(c)
  <2>1. n = Closing \/ (Kept(n, s) /\ n.pc = "commit" /\ n.kind = "charge")
    BY <1>n, <1>6, ChargeRecord
  <2> QED
    BY <1>t, <1>i, <2>1 DEF Rely, Kept
<1>7. CASE MarkApproval(c) \/ TakeAuditLock(c)
  <2>1. Kept(n, s) /\ n.pc \in {"lock", "append"}
    BY <1>n, <1>7, LockRecord
  <2> QED
    BY <1>t, <2>1 DEF Rely, Kept
<1>8. CASE Ends(c)
  BY <1>n, <1>i, <1>8, EndRecord
<1> QED
  BY <1>1, <1>2, <1>3, <1>4, <1>5, <1>6, <1>7, <1>8 DEF Acts, Ends

(* An action of a session writes the record of that session alone.          *)
LEMMA ActorRecord ==
    ASSUME NEW c \in Clients, Acts(c)
    PROVE  \E n : session' = [session EXCEPT ![c] = n]
<1>0. \A s : Begin(c, s) \/ Goes(c, s) => \E n : session' = [session EXCEPT ![c] = n]
  BY DEF Begin, Goes
<1>1. CASE RequestWork(c)
  <2>1. \E s : Begin(c, s)
    BY <1>1 DEF RequestWork
  <2> QED
    BY <1>0, <2>1
<1>2. CASE RequestControl(c)
  <2>1. \E s : Begin(c, s)
    BY <1>2 DEF RequestControl
  <2> QED
    BY <1>0, <2>1
<1>3. CASE BeginInternal(c)
  <2>1. \E s : Begin(c, s)
    BY <1>3 DEF BeginInternal
  <2> QED
    BY <1>0, <2>1
<1>4. CASE Dispatch(c)
  <2>1. \E s : Goes(c, s)
    BY <1>4 DEF Dispatch
  <2> QED
    BY <1>0, <2>1
<1>5. CASE Answer(c)
  <2>1. \E s : Goes(c, s)
    BY <1>5 DEF Answer
  <2> QED
    BY <1>0, <2>1
<1>6. CASE LoadDecision(c)
  <2>1. \E s : Goes(c, s)
    BY <1>6 DEF LoadDecision
  <2> QED
    BY <1>0, <2>1
<1>7. CASE CommitDecision(c) \/ UpdateKillSwitch(c) \/ AskApproval(c)
  <2>1. \E s : Goes(c, s)
    BY <1>7 DEF CommitDecision, UpdateKillSwitch, AskApproval
  <2> QED
    BY <1>0, <2>1
<1>8. CASE LoadCharge(c)
  <2>1. \E s : Goes(c, s)
    BY <1>8 DEF LoadCharge
  <2> QED
    BY <1>0, <2>1
<1>9. CASE CommitCharge(c) \/ MarkApproval(c) \/ TakeAuditLock(c)
  <2>1. \E s : Goes(c, s)
    BY <1>9 DEF CommitCharge, MarkApproval, TakeAuditLock
  <2> QED
    BY <1>0, <2>1
<1>10. CASE AppendAudit(c) \/ LoseDeadlock(c) \/ Crash(c)
  <2>1. \E s : Goes(c, s)
    BY <1>10 DEF AppendAudit, LoseDeadlock, Crash
  <2> QED
    BY <1>0, <2>1
<1> QED
  BY <1>1, <1>2, <1>3, <1>4, <1>5, <1>6, <1>7, <1>8, <1>9, <1>10 DEF Acts

(* At most one session acts in a step.                                      *)
LEMMA ActingStep ==
    ASSUME [Next]_vars
    PROVE  \/ session' = session
           \/ \E c \in Clients : \E n :
                 /\ session' = [session EXCEPT ![c] = n]
                 /\ Acts(c)
<1>1. ASSUME NEW c \in Clients, Acts(c) PROVE \E n : session' = [session EXCEPT ![c] = n]
  BY <1>1, ActorRecord
<1>2. ASSUME NEW k \in Keys, Expire(k) PROVE session' = session
  BY <1>2 DEF Expire
<1> QED
  BY <1>1, <1>2 DEF Next, Proceed, Acts, vars

LEMMA ApprovalStep == TypeOK /\ ApprovalInv /\ [Next]_vars => ApprovalInv'
<1> SUFFICES ASSUME TypeOK, ApprovalInv, [Next]_vars PROVE ApprovalInv'
  OBVIOUS
<1>1. ASSUME NEW x \in Clients PROVE Rely(session'[x], approval', redecided')
  <2>1. \/ session' = session
        \/ \E c \in Clients : \E n :
              /\ session' = [session EXCEPT ![c] = n]
              /\ Acts(c)
    BY ActingStep
  <2>2. CASE session'[x] = session[x]
    <3>1. PICK s : s = session[x]
      OBVIOUS
    <3>2. s \in Sessions /\ Rely(s, approval, redecided)
      BY <3>1 DEF TypeOK, ApprovalInv
    <3>3. Rely(s, approval', redecided')
      BY <3>2, RelyStable
    <3> QED
      BY <2>2, <3>1, <3>3
  <2>3. ASSUME NEW c \in Clients, NEW n, session' = [session EXCEPT ![c] = n],
               Acts(c)
        PROVE  Rely(session'[x], approval', redecided')
    <3>1. PICK s : s = session[c]
      OBVIOUS
    <3>2. Rely(n, approval', redecided')
      BY <2>3, <3>1, ActorStep
    <3>3. x = c => session'[x] = n
      BY <2>3 DEF TypeOK
    <3>4. x # c => session'[x] = session[x]
      BY <2>3 DEF TypeOK
    <3> QED
      BY <2>2, <3>2, <3>3, <3>4
  <2> QED
    BY <2>1, <2>2, <2>3
<1>2. ASSUME NEW k \in Keys PROVE RowInv(k)'
  <2>r. RowInv(k) /\ Evolves(k) /\ redecided \subseteq redecided'
    BY RowsEvolve DEF ApprovalInv
  <2>t. approval[k] \in ApprovalRows /\ approvers \in [Keys -> SUBSET Identities]
    BY DEF TypeOK
  <2>u. ASSUME approval'[k].status = approval[k].status, approval'[k].by = approval[k].by,
               approvers' = approvers, used' = used
        PROVE  RowInv(k)'
    BY <2>r, <2>u DEF RowInv
  <2>c. ASSUME NEW who \in Identities, NEW action \in WorkActions,
               NEW target \in Paths \cup {"*"}, approval' = Created(who, action, target), approvers' = approvers, used' = used
        PROVE  RowInv(k)'
    <3>1. CASE Created(who, action, target)[k] = approval[k]
      BY <2>c, <2>u, <3>1
    <3>2. CASE approval[k].status = "ABSENT" /\ Created(who, action, target)[k] = NewApproval(who, action, target)
      BY <2>c, <2>r, <3>2 DEF RowInv, NewApproval
    <3> QED
      BY <3>1, <3>2, CreatedRow
  <2>1. ASSUME NEW c \in Clients,
               \/ RequestWork(c) \/ RequestControl(c) \/ BeginInternal(c) \/ Dispatch(c) \/ Answer(c)
               \/ LoadDecision(c) \/ UpdateKillSwitch(c) \/ LoadCharge(c) \/ CommitCharge(c)
               \/ MarkApproval(c) \/ TakeAuditLock(c) \/ LoseDeadlock(c) \/ Crash(c)
        PROVE  approval' = approval /\ approvers' = approvers /\ used' = used
    BY ZenonT(30), <2>1 DEF RequestWork, RequestControl, BeginInternal, Dispatch, Answer, LoadDecision,
       UpdateKillSwitch, LoadCharge, CommitCharge, MarkApproval, TakeAuditLock, LoseDeadlock, Crash,
       rows, history
  <2>2. ASSUME NEW c \in Clients, CommitDecision(c) PROVE RowInv(k)'
    <3> DEFINE s == session[c]
    <3>1. /\ s.key \in Keys
          /\ approval[s.key].status # "ABSENT"
          /\ s.put \in {"APPROVED", "DENIED", "EXPIRED"}
          /\ s.put = "APPROVED" => approval[s.key].by # s.who
      BY <2>2 DEF CommitDecision, ApprovalInv, Rely
    <3>2. /\ approval' = [approval EXCEPT ![s.key].status = s.put]
          /\ approvers' = IF s.put = "APPROVED" THEN [approvers EXCEPT ![s.key] = approvers[s.key] \cup {s.who}] ELSE approvers
          /\ redecided' = IF approval[s.key].status = "PENDING" THEN redecided ELSE redecided \cup {s.key}
          /\ used' = used
      BY <2>2 DEF CommitDecision
    <3>3. CASE k = s.key
      <4>1. approval'[k].status = s.put /\ approval'[k].by = approval[k].by
        BY <2>t, <3>2, <3>3 DEF TypeOK, ApprovalRows
      <4>2. approvers'[k] = IF s.put = "APPROVED" THEN approvers[k] \cup {s.who} ELSE approvers[k]
        BY <2>t, <3>2, <3>3
      <4> QED
        BY <2>r, <3>1, <3>2, <3>3, <4>1, <4>2 DEF RowInv
    <3>4. CASE k # s.key
      <4>1. approval'[k] = approval[k] /\ approvers'[k] = approvers[k]
        BY <2>t, <3>1, <3>2, <3>4 DEF TypeOK
      <4> QED
        BY <2>r, <3>2, <4>1 DEF RowInv
    <3> QED
      BY <3>3, <3>4
  <2>3. ASSUME NEW c \in Clients, AskApproval(c) PROVE RowInv(k)'
    <3>1. session[c].who \in Identities
      BY DEF TypeOK, Sessions
    <3> QED
      BY <2>3, <2>c, <3>1, ActionTypes DEF AskApproval, history
  <2>4. ASSUME NEW c \in Clients, AppendAudit(c) PROVE RowInv(k)'
    <3> DEFINE s == session[c]
    <3>1. s \in Sessions /\ Rely(s, approval, redecided)
      BY DEF TypeOK, ApprovalInv
    <3>2. /\ approvers' = approvers /\ redecided' = redecided
          /\ used' = IF s.ok /\ s.use # 0 THEN used \cup {s.use} ELSE used
      BY <2>4 DEF AppendAudit
    <3>3. CASE s.marks
      <4>1. s.use \in Keys /\ approval' = [approval EXCEPT ![s.use].status = "USED"]
        BY <2>4, <3>1, <3>3 DEF AppendAudit, Rely
      <4>2. CASE k = s.use
        <5>1. approval'[k].status = "USED" /\ approval'[k].by = approval[k].by
          BY <2>t, <4>1, <4>2 DEF TypeOK, ApprovalRows
        <5> QED
          BY <2>r, <3>2, <5>1 DEF RowInv
      <4>3. CASE k # s.use
        <5>1. approval'[k] = approval[k] /\ (k \in used' => k \in used)
          BY <3>2, <4>1, <4>3 DEF TypeOK
        <5> QED
          BY <2>r, <3>2, <5>1 DEF RowInv
      <4> QED
        BY <4>2, <4>3
    <3>4. CASE ~s.marks
      <4>1. k \in used' =>
              /\ approval[k].status \notin {"ABSENT", "PENDING"}
              /\ approval[k].status = "USED" \/ k \in redecided
        BY <2>r, <3>1, <3>2, <3>4 DEF RowInv, Rely
      <4>2. approval' = Created(s.who, ActionOf[s.path], s.path) \/ approval' = approval
        BY <2>4, <3>4 DEF AppendAudit
      <4>3. CASE approval'[k] = approval[k]
        BY <2>r, <3>2, <4>1, <4>3 DEF RowInv
      <4>4. CASE approval[k].status = "ABSENT" /\ approval'[k] = NewApproval(s.who, ActionOf[s.path], s.path)
        BY <2>r, <3>2, <4>1, <4>4 DEF RowInv, NewApproval
      <4>5. s.who \in Identities /\ s.path \in Paths
        BY <3>1 DEF Sessions
      <4> QED
        BY <4>2, <4>3, <4>4, <4>5, CreatedRow, ActionTypes
    <3> QED
      BY <3>3, <3>4
  <2>5. ASSUME NEW j \in Keys, Expire(j) PROVE RowInv(k)'
    <3>1. approval'[k].status = approval[k].status /\ approval'[k].by = approval[k].by
      BY <2>5 DEF Expire, TypeOK, ApprovalRows
    <3> QED
      BY <2>5, <2>u, <3>1 DEF Expire, history
  <2>6. CASE UNCHANGED vars
    BY <2>u, <2>6 DEF vars, rows, history
  <2> QED
    BY <2>1, <2>2, <2>3, <2>4, <2>5, <2>6, <2>u DEF Next, Proceed
<1> QED
  BY <1>1, <1>2 DEF ApprovalInv

(* Approvals, controls, ledgers, records and sessions keep their types.     *)
THEOREM TypeCorrect == Spec => []TypeOK
<1>1. Init => TypeOK /\ ApprovalInv
  BY InitType, ApprovalInit
<1>2. TypeOK /\ ApprovalInv /\ [Next]_vars => TypeOK' /\ ApprovalInv'
  BY TypeStep, ApprovalStep
<1> QED
  BY <1>1, <1>2, PTL DEF Spec

--------------------------------------------------------------------------
(* Work leaves by Dispatch alone, and a ledger is extended only by the      *)
(* session that took the advisory lock for it.                              *)
LEMMA Entered ==
    ASSUME TypeOK, NEW c \in Clients, NEW n, session' = [session EXCEPT ![c] = n], Acts(c)
    PROVE  /\ n.pc = "calling" => Dispatch(c) /\ Dispatchable(session[c])
           /\ n.pc = "append" => TakeAuditLock(c)
<1>n. n = session'[c] /\ session \in [Clients -> Sessions]
  BY DEF TypeOK
<1>i. Idle.pc = "idle" /\ Closing.pc = "lock"
  BY DEF Idle, Closing
<1>s. PICK s : s = session[c]
  OBVIOUS
<1>1. CASE RequestWork(c)
  <2>1. NewWork(n)
    BY <1>n, <1>1, WorkBegins DEF Begin
  <2> QED
    BY <2>1 DEF NewWork
<1>2. CASE RequestControl(c) \/ BeginInternal(c)
  <2>1. n.pc \in {"load", "lock", "dispatch"}
    BY <1>n, <1>2, ControlRecord
  <2> QED
    BY <2>1
<1>3. CASE Dispatch(c)
  <2>1. n = Closing \/ (n.pc = "calling" /\ Dispatchable(session[c])) \/ n.pc \in {"mark", "lock"}
    BY <1>n, <1>s, <1>3, DispatchRecord DEF Gone, Refused
  <2> QED
    BY <1>i, <1>3, <2>1
<1>4. CASE Answer(c)
  <2>1. n = Closing \/ n.pc \in {"mark", "lock"}
    BY <1>n, <1>s, <1>4, AnswerRecord DEF Succeeded
  <2> QED
    BY <1>i, <2>1
<1>5. CASE LoadDecision(c)
  <2>1. n = Closing \/ n.pc = "commit"
    BY <1>n, <1>s, <1>5, DecisionRecord
  <2> QED
    BY <1>i, <2>1
<1>6. CASE LoadCharge(c)
  <2>1. n = Closing \/ n.pc = "commit"
    BY <1>n, <1>s, <1>6, ChargeRecord
  <2> QED
    BY <1>i, <2>1
<1>7. CASE MarkApproval(c) \/ TakeAuditLock(c)
  <2>1. n.pc = "lock" \/ (n.pc = "append" /\ TakeAuditLock(c))
    BY <1>n, <1>s, <1>7, LockRecord
  <2> QED
    BY <2>1
<1>8. CASE Ends(c)
  BY <1>n, <1>i, <1>8, EndRecord
<1> QED
  BY <1>1, <1>2, <1>3, <1>4, <1>5, <1>6, <1>7, <1>8 DEF Acts, Ends

(* One session at a time extends the ledger, from its last record.          *)
ChainInv ==
    /\ ChainHasNoFork
    /\ \A c \in Clients : session[c].pc = "append" => session[c].head = Len(audit)
    /\ \A c, d \in Clients : session[c].pc = "append" /\ session[d].pc = "append" => c = d

LEMMA ChainStep == TypeOK /\ ChainInv /\ [Next]_vars => ChainInv'
<1> SUFFICES ASSUME TypeOK, ChainInv, [Next]_vars PROVE ChainInv'
  OBVIOUS
<1>a. CASE session' = session /\ audit' = audit
  BY <1>a DEF ChainInv, ChainHasNoFork
<1>1. ASSUME NEW c \in Clients, NEW n, session' = [session EXCEPT ![c] = n], Acts(c)
      PROVE  ChainInv'
  <2>s. session[c] \in Sessions /\ session \in [Clients -> Sessions] /\ audit \in Seq(AuditRows)
    BY DEF TypeOK
  <2>n. session'[c] = n /\ \A d \in Clients \ {c} : session'[d] = session[d]
    BY <1>1, <2>s
  <2>1. CASE TakeAuditLock(c)
    <3>1. audit' = audit /\ n.head = Len(audit) /\ \A d \in Clients : session[d].pc # "append"
      BY <2>s, <2>n, <2>1 DEF TakeAuditLock, Goes, Sessions, rows
    <3> QED
      BY <2>n, <3>1 DEF ChainInv, ChainHasNoFork
  <2>2. CASE AppendAudit(c)
    <3>1. n = Idle /\ session[c].pc = "append"
      BY <2>s, <2>n, <2>2 DEF AppendAudit, Goes
    <3>2. \A d \in Clients : session'[d].pc # "append"
      BY <2>n, <3>1 DEF ChainInv, Idle
    <3>3. PICK agent \in Agents : audit' = Append(audit, AuditRecord(session[c].head, agent))
      BY <2>2 DEF AppendAudit
    <3>4. session[c].head = Len(audit)
      BY <3>1 DEF ChainInv
    <3>5. AuditRecord(Len(audit), agent).prev = Len(audit)
      BY DEF AuditRecord
    <3>6. ChainHasNoFork'
      <4>1. Len(audit') = Len(audit) + 1
        BY <2>s, <3>3
      <4>2. ASSUME NEW i \in 1..Len(audit) PROVE audit'[i].prev = i - 1
        BY <2>s, <3>3 DEF ChainInv, ChainHasNoFork
      <4>3. audit'[Len(audit) + 1].prev = Len(audit)
        BY <2>s, <3>3, <3>4, <3>5
      <4> QED
        BY <2>s, <4>1, <4>2, <4>3 DEF ChainHasNoFork
    <3> QED
      BY <3>2, <3>6 DEF ChainInv
  <2>3. CASE ~TakeAuditLock(c) /\ ~AppendAudit(c)
    <3>1. n.pc # "append"
      BY <1>1, <2>3, Entered
    <3>2. audit' = audit
      BY <1>1, <2>3 DEF Acts, RequestWork, RequestControl, BeginInternal, Dispatch, Answer, LoadDecision,
         CommitDecision, UpdateKillSwitch, AskApproval, LoadCharge, CommitCharge, MarkApproval,
         LoseDeadlock, Crash, rows
    <3> QED
      BY <2>n, <3>1, <3>2 DEF ChainInv, ChainHasNoFork
  <2> QED
    BY <2>1, <2>2, <2>3
<1>2. ASSUME NEW k \in Keys, Expire(k) PROVE session' = session /\ audit' = audit
  BY <1>2 DEF Expire
<1>3. UNCHANGED vars => session' = session /\ audit' = audit
  BY DEF vars, rows
<1>4. ASSUME NEW c \in Clients, Acts(c) PROVE \E n : session' = [session EXCEPT ![c] = n]
  BY <1>4, ActorRecord
<1> QED
  BY <1>a, <1>1, <1>2, <1>3, <1>4 DEF Next, Proceed, Acts

(* The advisory lock of append_audit: each record of the ledger names the   *)
(* one before it, whoever appends beside whom.                              *)
THEOREM OneChain == Spec => []ChainHasNoFork
<1>1. Init => ChainInv
  BY DEF Init, ChainInv, ChainHasNoFork, Idle
<1>2. TypeOK /\ ChainInv /\ [Next]_vars => ChainInv'
  BY ChainStep
<1>3. ChainInv => ChainHasNoFork
  BY DEF ChainInv
<1> QED
  BY <1>1, <1>2, <1>3, TypeCorrect, PTL DEF Spec

--------------------------------------------------------------------------
(* A worker's own dispatches cost nothing and carry no risk; a cost that is *)
(* still to be charged was within the budget when the total was last read.  *)
Spends(s) == \/ s.pc \in {"dispatch", "calling", "mark", "lock", "append"} /\ s.cost > 0
             \/ s.pc = "commit" /\ s.kind = "charge"

Sound(s) ==
    /\ s.kind = "internal" => ~s.high /\ s.cost = 0
    /\ Spends(s) => s.saw + s.cost <= Limit[s.who]

SoundInv == \A c \in Clients : Sound(session[c])

LEMMA SoundActor ==
    ASSUME TypeOK, SoundInv, NEW c \in Clients, NEW n, session' = [session EXCEPT ![c] = n], Acts(c)
    PROVE  Sound(n)
<1>s. PICK s : s = session[c]
  OBVIOUS
<1>n. n = session'[c] /\ session \in [Clients -> Sessions] /\ s \in Sessions /\ Sound(s)
  BY <1>s DEF TypeOK, SoundInv
<1>i. Sound(Idle) /\ Sound(Closing)
  BY DEF Idle, Closing, Sound, Spends
<1>1. CASE RequestWork(c)
  <2>1. NewWork(n)
    BY <1>n, <1>1, WorkBegins DEF Begin
  <2> QED
    BY <2>1 DEF NewWork, Sound, Spends
<1>2. CASE RequestControl(c) \/ BeginInternal(c)
  <2>1. n.pc # "commit" /\ n.cost = 0 /\ n.high = FALSE
    BY <1>n, <1>2, ControlRecord
  <2> QED
    BY <2>1 DEF Sound, Spends
<1>3. CASE Dispatch(c)
  <2>1. Dispatchable(session[c]) /\ s.cost > 0 => spent[s.who] + s.cost <= Limit[s.who]
    <3>1. s.kind = "internal" => s.cost = 0
      BY <1>n DEF Sound
    <3>2. s.kind # "internal" /\ Dispatchable(session[c]) => WithinBudget(s.who, s.cost)
      BY <1>s DEF Dispatchable, Granted
    <3> QED
      BY <3>1, <3>2 DEF WithinBudget
  <2>2. s.pc = "dispatch"
    BY <1>s, <1>3 DEF Dispatch
  <2>3. CASE n = Closing
    BY <1>i, <2>3
  <2>4. CASE Gone(n, s)
    BY <1>n, <1>s, <2>1, <2>4 DEF Gone, Sound, Spends
  <2>5. CASE Refused(n, s)
    BY <1>n, <2>2, <2>5 DEF Refused, Sound, Spends
  <2> QED
    BY <1>n, <1>s, <1>3, <2>3, <2>4, <2>5, DispatchRecord
<1>4. CASE Answer(c)
  <2>1. n # Closing =>
           /\ s.pc = "calling" /\ n.pc \in {"mark", "lock"} /\ n.high = s.high
           /\ n.kind = s.kind /\ n.who = s.who /\ n.cost = s.cost /\ n.saw = s.saw
    BY <1>n, <1>s, <1>4, AnswerRecord DEF Succeeded
  <2> QED
    BY <1>n, <1>i, <2>1 DEF Sound, Spends
<1>5. CASE LoadDecision(c)
  <2>1. n = Closing \/ (n.pc = "commit" /\ n.kind = "decide")
    BY <1>n, <1>s, <1>5, DecisionRecord
  <2> QED
    BY <1>i, <2>1 DEF Sound, Spends
<1>6. CASE LoadCharge(c)
  <2>1. n = Closing \/ (n.kind = "charge" /\ n.saw + n.cost <= Limit[n.who])
    BY <1>n, <1>s, <1>6, ChargeRecord
  <2> QED
    BY <1>i, <2>1 DEF Sound, Spends
<1>7. CASE MarkApproval(c) \/ TakeAuditLock(c)
  <2>1. /\ n.kind = s.kind /\ n.high = s.high /\ n.who = s.who /\ n.cost = s.cost /\ n.saw = s.saw
        /\ s.pc \in {"mark", "lock"} /\ n.pc \in {"lock", "append"}
    BY <1>n, <1>s, <1>7, LockRecord DEF Kept
  <2> QED
    BY <1>n, <2>1 DEF Sound, Spends
<1>8. CASE Ends(c)
  BY <1>n, <1>i, <1>8, EndRecord
<1> QED
  BY <1>1, <1>2, <1>3, <1>4, <1>5, <1>6, <1>7, <1>8 DEF Acts, Ends

LEMMA SoundStep == TypeOK /\ SoundInv /\ [Next]_vars => SoundInv'
<1> SUFFICES ASSUME TypeOK, SoundInv, [Next]_vars, NEW x \in Clients PROVE Sound(session'[x])
  BY DEF SoundInv
<1>1. Sound(session[x])
  BY DEF SoundInv
<1>2. ASSUME NEW c \in Clients, NEW n, session' = [session EXCEPT ![c] = n], Acts(c)
      PROVE  Sound(session'[x])
  <2>1. Sound(n)
    BY <1>2, SoundActor
  <2> QED
    BY <1>1, <1>2, <2>1 DEF TypeOK
<1> QED
  BY <1>1, <1>2, ActingStep

(* The two transactions that write the budget ledger.                       *)
LEMMA LedgerStep ==
    ASSUME TypeOK, SoundInv, NEW c \in Clients, Record(session[c]), OverrunOnlyByOverlap,
           session[c].cost > 0 => session[c].saw + session[c].cost <= Limit[session[c].who]
    PROVE  OverrunOnlyByOverlap'
<1> DEFINE s == session[c]
<1>1. s \in Sessions /\ spent \in [Identities -> Nat]
  BY DEF TypeOK
<1>2. s.who \in Identities /\ s.cost \in Nat
  BY <1>1 DEF Sessions
<1> SUFFICES ASSUME NEW i \in Identities, spent'[i] > Limit[i] PROVE i \in raced'
  BY DEF OverrunOnlyByOverlap
<1>3. spent' = [spent EXCEPT ![s.who] = spent[s.who] + s.cost] /\ raced \subseteq raced'
  BY DEF Record
<1>4. CASE i # s.who
  BY <1>1, <1>2, <1>3, <1>4 DEF OverrunOnlyByOverlap
<1>5. CASE i = s.who
  <2>1. spent'[i] = spent[i] + s.cost /\ spent[i] \in Nat /\ Limit[i] \in Nat
    BY <1>1, <1>2, <1>3, <1>5, ConstantsAssumption
  <2>2. CASE s.cost = 0
    BY <1>3, <2>1, <2>2 DEF OverrunOnlyByOverlap
  <2>3. CASE s.cost > 0
    <3>1. spent[i] # s.saw
      BY <1>1, <1>5, <2>1, <2>3 DEF Sessions
    <3> QED
      BY <1>5, <2>3, <3>1 DEF Record
  <2> QED
    BY <1>2, <2>2, <2>3
<1> QED
  BY <1>4, <1>5

LEMMA OverrunStep == TypeOK /\ SoundInv /\ OverrunOnlyByOverlap /\ [Next]_vars => OverrunOnlyByOverlap'
<1> SUFFICES ASSUME TypeOK, SoundInv, OverrunOnlyByOverlap, [Next]_vars PROVE OverrunOnlyByOverlap'
  OBVIOUS
<1>a. CASE spent' = spent /\ raced' = raced
  BY <1>a DEF OverrunOnlyByOverlap
<1>1. ASSUME NEW c \in Clients, Acts(c), ~AppendAudit(c), ~CommitCharge(c)
      PROVE  spent' = spent /\ raced' = raced
  <2>1. CASE Dispatch(c)
    BY <2>1 DEF Dispatch, rows, history
  <2>2. CASE Answer(c)
    BY <2>2 DEF Answer, rows, history
  <2>3. CASE RequestWork(c)
    BY <2>3 DEF RequestWork, rows, history
  <2>6. CASE RequestControl(c)
    BY <2>6 DEF RequestControl, rows, history
  <2>7. CASE BeginInternal(c)
    BY <2>7 DEF BeginInternal, rows, history
  <2>4. CASE LoadDecision(c) \/ CommitDecision(c) \/ UpdateKillSwitch(c) \/ AskApproval(c)
    BY <2>4 DEF LoadDecision, CommitDecision, UpdateKillSwitch, AskApproval, rows, history
  <2>5. CASE LoadCharge(c) \/ MarkApproval(c) \/ TakeAuditLock(c) \/ LoseDeadlock(c) \/ Crash(c)
    BY <2>5 DEF LoadCharge, MarkApproval, TakeAuditLock, LoseDeadlock, Crash, rows, history
  <2> QED
    BY <1>1, <2>1, <2>2, <2>3, <2>4, <2>5, <2>6, <2>7 DEF Acts
<1>2. ASSUME NEW c \in Clients, AppendAudit(c) PROVE OverrunOnlyByOverlap'
  <2>1. session[c].pc = "append" /\ (Record(session[c]) \/ (spent' = spent /\ raced' = raced))
    BY <1>2 DEF AppendAudit
  <2>2. session[c].cost > 0 => session[c].saw + session[c].cost <= Limit[session[c].who]
    BY <2>1 DEF SoundInv, Sound, Spends
  <2> QED
    BY <1>a, <2>1, <2>2, LedgerStep
<1>3. ASSUME NEW c \in Clients, CommitCharge(c) PROVE OverrunOnlyByOverlap'
  <2>1. session[c].pc = "commit" /\ session[c].kind = "charge" /\ Record(session[c])
    BY <1>3 DEF CommitCharge
  <2>2. session[c].saw + session[c].cost <= Limit[session[c].who]
    BY <2>1 DEF SoundInv, Sound, Spends
  <2> QED
    BY <2>1, <2>2, LedgerStep
<1>4. ASSUME NEW k \in Keys, Expire(k) PROVE spent' = spent /\ raced' = raced
  BY <1>4 DEF Expire, history
<1>5. UNCHANGED vars => spent' = spent /\ raced' = raced
  BY DEF vars, rows, history
<1> QED
  BY <1>a, <1>1, <1>2, <1>3, <1>4, <1>5 DEF Next, Proceed, Acts

(* Budgets: a total passes its limit only by an entry whose check saw an    *)
(* older total.                                                             *)
THEOREM Budgets == Spec => []OverrunOnlyByOverlap
<1>1. Init => SoundInv /\ OverrunOnlyByOverlap
  <2> SUFFICES ASSUME Init PROVE SoundInv /\ OverrunOnlyByOverlap
    OBVIOUS
  <2>1. SoundInv
    BY DEF Init, SoundInv, Sound, Spends, Idle
  <2>2. OverrunOnlyByOverlap
    BY ConstantsAssumption DEF Init, OverrunOnlyByOverlap
  <2> QED
    BY <2>1, <2>2
<1>2. TypeOK /\ SoundInv /\ OverrunOnlyByOverlap /\ [Next]_vars => SoundInv' /\ OverrunOnlyByOverlap'
  BY SoundStep, OverrunStep
<1> QED
  BY <1>1, <1>2, TypeCorrect, PTL DEF Spec

--------------------------------------------------------------------------
(* Work of high risk leaves on a valid approval.                            *)
LEMMA LeavesApproved ==
    ASSUME TypeOK, SoundInv, [Next]_vars, NEW c \in Clients, Leaves(c)
    PROVE  /\ session[c].pc = "dispatch" /\ session[c].key # 0
           /\ approval[session[c].key].status = "APPROVED"
           /\ approval[session[c].key].action = "runtime:dispatch"
<1>1. session[c].pc = "dispatch" /\ session'[c].pc = "calling" /\ session[c].high
  BY DEF Leaves
<1>2. PICK d \in Clients : \E n : session' = [session EXCEPT ![d] = n] /\ Acts(d)
  <2>1. session' # session
    BY <1>1
  <2> QED
    BY <2>1, ActingStep
<1>n. PICK n : session' = [session EXCEPT ![d] = n] /\ Acts(d)
  BY <1>2
<1>3. d = c /\ n.pc = "calling"
  BY <1>1, <1>n DEF TypeOK
<1>4. Dispatchable(session[c])
  BY <1>n, <1>3, Entered
<1>5. session[c].kind # "internal"
  BY <1>1 DEF SoundInv, Sound
<1>6. Approved(session[c].high, session[c].key, session[c].who, "runtime:dispatch")
  BY <1>4, <1>5 DEF Dispatchable
<1> QED
  BY <1>1, <1>6 DEF Approved, ValidApproval, HighRiskActions

(* The four-eyes rule: work of high risk leaves only on an approval that    *)
(* its own identity asked for, for its path or any, and that somebody else, *)
(* never that identity, approved.                                           *)
THEOREM NobodyApprovesOwnWork == Spec => FourEyes
<1> DEFINE Step == \A c \in Clients : Leaves(c) =>
                      LET s == session[c] IN
                      /\ s.key \in Keys
                      /\ approval[s.key].by = s.who
                      /\ approval[s.key].action = "runtime:dispatch"
                      /\ approval[s.key].target \in {"*", s.path}
                      /\ approvers[s.key] # {} /\ s.who \notin approvers[s.key]
<1>1. TypeOK /\ ApprovalInv /\ SoundInv /\ [Next]_vars => Step
  <2> SUFFICES ASSUME TypeOK, ApprovalInv, SoundInv, [Next]_vars, NEW c \in Clients, Leaves(c)
               PROVE  LET s == session[c] IN
                      /\ s.key \in Keys
                      /\ approval[s.key].by = s.who
                      /\ approval[s.key].action = "runtime:dispatch"
                      /\ approval[s.key].target \in {"*", s.path}
                      /\ approvers[s.key] # {} /\ s.who \notin approvers[s.key]
    OBVIOUS
  <2>1. /\ session[c].pc = "dispatch" /\ session[c].key # 0
        /\ approval[session[c].key].status = "APPROVED"
        /\ approval[session[c].key].action = "runtime:dispatch"
    BY LeavesApproved
  <2>2. /\ session[c].key \in Keys
        /\ approval[session[c].key].by = session[c].who
        /\ approval[session[c].key].target \in {"*", session[c].path}
    BY <2>1 DEF ApprovalInv, Rely
  <2>3. RowInv(session[c].key)
    BY <2>2 DEF ApprovalInv
  <2> QED
    BY <2>1, <2>2, <2>3 DEF RowInv
<1>2. Init => TypeOK /\ ApprovalInv /\ SoundInv
  BY InitType, ApprovalInit DEF Init, SoundInv, Sound, Spends, Idle
<1>3. TypeOK /\ ApprovalInv /\ SoundInv /\ [Next]_vars => (TypeOK /\ ApprovalInv /\ SoundInv)'
  BY TypeStep, ApprovalStep, SoundStep
<1>4. Step => [Step]_vars
  OBVIOUS
<1> QED
  BY <1>1, <1>2, <1>3, PTL DEF Spec, FourEyes

(* One use: an approval whose use was committed is USED, and no work of     *)
(* high risk leaves on it any more, but for a stale decision that decided   *)
(* it again.                                                                *)
THEOREM ApprovalsAreSpent == Spec => OneUse
<1> DEFINE Spent == \A k \in used : approval[k].status = "USED" \/ k \in redecided
           Step == \A c \in Clients : Leaves(c) =>
                      (session[c].key \in used => session[c].key \in redecided)
<1>1. TypeOK /\ ApprovalInv => Spent
  BY DEF TypeOK, ApprovalInv, RowInv
<1>2. TypeOK /\ ApprovalInv /\ SoundInv /\ [Next]_vars => Step
  <2> SUFFICES ASSUME TypeOK, ApprovalInv, SoundInv, [Next]_vars, NEW c \in Clients, Leaves(c),
                      session[c].key \in used
               PROVE  session[c].key \in redecided
    OBVIOUS
  <2>1. session[c].key \in Keys /\ approval[session[c].key].status = "APPROVED"
    BY LeavesApproved DEF TypeOK
  <2> QED
    BY <1>1, <2>1
<1>3. Init => TypeOK /\ ApprovalInv /\ SoundInv
  BY InitType, ApprovalInit DEF Init, SoundInv, Sound, Spends, Idle
<1>4. TypeOK /\ ApprovalInv /\ SoundInv /\ [Next]_vars => (TypeOK /\ ApprovalInv /\ SoundInv)'
  BY TypeStep, ApprovalStep, SoundStep
<1> HIDE DEF Spent
<1>5. Spec => [](TypeOK /\ ApprovalInv /\ SoundInv)
  BY <1>3, <1>4, PTL DEF Spec
<1>6. Spec => []Spent
  BY <1>1, <1>5, PTL
<1>7. Spec => [][Step]_vars
  BY <1>2, <1>3, <1>4, PTL DEF Spec
<1> QED
  BY <1>6, <1>7 DEF OneUse, Spent

--------------------------------------------------------------------------
(* What the steps of a session in flight wait for: a decision and an UPDATE *)
(* before its record for the row of the approval, the record for the        *)
(* advisory lock, and a commit that still has to mark its approval for the  *)
(* row; nothing else waits.                                                 *)
Waits(c) ==
    LET s == session[c] IN
    \/ s.pc = "commit" /\ s.kind = "decide" /\ ~RowFree(c, s.key)
    \/ s.pc = "mark" /\ ~RowFree(c, s.use)
    \/ s.pc = "lock" /\ \E d \in Clients : session[d].pc = "append"
    \/ s.pc = "append" /\ s.marks /\ ~RowFree(c, s.use)

(* PostgreSQL ends a session that is part of a deadlock.                    *)
InDeadlock(c) == \E d \in Clients : Deadlocked(c, d) \/ Deadlocked(d, c)

(* A step of each kind of request is there for where it stands.             *)
HasStep(s) ==
    /\ s.pc = "load" => s.kind \in Controls
    /\ s.pc = "commit" => s.kind \in {"decide", "charge"}

StepExists(c) == HasStep(session[c])

NobodyWaitsInACircle ==
    /\ \A c \in Clients : StepExists(c)
    /\ (\E c \in Clients : session[c].pc # "idle") =>
          \E c \in Clients : session[c].pc # "idle" /\ (~Waits(c) \/ InDeadlock(c))

(* Waits leaves out no guard: who waits does not go on.                     *)
LEMMA WaitingIsWaiting ==
    ASSUME NEW c \in Clients, Waits(c), ~InDeadlock(c) PROVE ~Proceed(c)
BY DEF Waits, InDeadlock, Proceed, Dispatch, Answer, LoadDecision, CommitDecision, UpdateKillSwitch,
   AskApproval, LoadCharge, CommitCharge, MarkApproval, TakeAuditLock, AppendAudit, LoseDeadlock

LEMMA StepExistsStep ==
    ASSUME TypeOK, \A c \in Clients : StepExists(c), [Next]_vars
    PROVE  \A c \in Clients : StepExists(c)'
<1> SUFFICES ASSUME NEW x \in Clients PROVE StepExists(x)'
  OBVIOUS
<1>1. CASE session' = session
  BY <1>1 DEF StepExists, HasStep
<1>2. ASSUME NEW c \in Clients, NEW n, session' = [session EXCEPT ![c] = n], Acts(c)
      PROVE  StepExists(x)'
  <2>n. n = session'[c] /\ session \in [Clients -> Sessions]
    BY <1>2 DEF TypeOK
  <2>s. PICK s : s = session[c]
    OBVIOUS
  <2> SUFFICES HasStep(n)
    BY <1>2, <2>n DEF StepExists
  <2>i. HasStep(Idle) /\ HasStep(Closing)
    BY DEF Idle, Closing, HasStep
  <2>1. CASE RequestWork(c)
    <3>1. NewWork(n)
      BY <2>n, <2>1, WorkBegins DEF Begin
    <3> QED
      BY <3>1 DEF NewWork, HasStep
  <2>2. CASE RequestControl(c) \/ BeginInternal(c)
    <3>1. n.pc # "commit" /\ (n.pc = "load" => n.kind \in Controls)
      BY <2>n, <2>2, ControlRecord
    <3> QED
      BY <3>1 DEF HasStep
  <2>3. CASE Dispatch(c)
    <3>1. n = Closing \/ n.pc \in {"calling", "mark", "lock"}
      BY <2>n, <2>s, <2>3, DispatchRecord DEF Gone, Refused
    <3> QED
      BY <2>i, <3>1 DEF HasStep
  <2>4. CASE Answer(c)
    <3>1. n = Closing \/ n.pc \in {"mark", "lock"}
      BY <2>n, <2>s, <2>4, AnswerRecord DEF Succeeded
    <3> QED
      BY <2>i, <3>1 DEF HasStep
  <2>5. CASE LoadDecision(c)
    <3>1. n = Closing \/ (n.pc = "commit" /\ n.kind = "decide")
      BY <2>n, <2>s, <2>5, DecisionRecord
    <3> QED
      BY <2>i, <3>1 DEF HasStep
  <2>6. CASE LoadCharge(c)
    <3>1. n = Closing \/ (n.pc = "commit" /\ n.kind = "charge")
      BY <2>n, <2>s, <2>6, ChargeRecord
    <3> QED
      BY <2>i, <3>1 DEF HasStep
  <2>7. CASE MarkApproval(c) \/ TakeAuditLock(c)
    <3>1. n.pc \in {"lock", "append"}
      BY <2>n, <2>s, <2>7, LockRecord
    <3> QED
      BY <3>1 DEF HasStep
  <2>8. CASE Ends(c)
    BY <2>n, <2>s, <2>i, <2>8, EndRecord
  <2> QED
    BY <1>2, <2>1, <2>2, <2>3, <2>4, <2>5, <2>6, <2>7, <2>8 DEF Acts, Ends
<1> QED
  BY <1>1, <1>2, ActingStep

(* Of those in flight somebody always goes on: the holder of the advisory   *)
(* lock waits for nobody but a session that holds the row of its approval   *)
(* and waits for the lock, and that circle PostgreSQL breaks.               *)
LEMMA SomebodyIsFree ==
    ASSUME TypeOK, ChainInv, \A c \in Clients : StepExists(c) PROVE NobodyWaitsInACircle
<1> SUFFICES ASSUME NEW c \in Clients, session[c].pc # "idle"
             PROVE  \E d \in Clients : session[d].pc # "idle" /\ (~Waits(d) \/ InDeadlock(d))
  BY DEF NobodyWaitsInACircle
<1>1. CASE \E d \in Clients : session[d].pc = "append"
  <2>1. PICK d \in Clients : session[d].pc = "append"
    BY <1>1
  <2>2. CASE ~Waits(d)
    BY <2>1, <2>2
  <2>3. CASE Waits(d)
    <3>1. session[d].marks /\ ~RowFree(d, session[d].use)
      BY <2>1, <2>3 DEF Waits
    <3>2. PICK e \in Clients \ {d} : HoldsRow(e, session[d].use)
      BY <3>1 DEF RowFree
    <3>3. session[e].pc = "lock"
      BY <2>1, <3>2 DEF HoldsRow, ChainInv
    <3>4. Deadlocked(e, d)
      BY <2>1, <3>1, <3>2, <3>3 DEF Deadlocked
    <3> QED
      BY <2>1, <3>4 DEF InDeadlock
  <2> QED
    BY <2>2, <2>3
<1>2. CASE \A d \in Clients : session[d].pc # "append"
  <2>1. CASE \E d \in Clients : session[d].pc = "lock"
    <3>1. PICK d \in Clients : session[d].pc = "lock"
      BY <2>1
    <3>2. ~Waits(d)
      BY <1>2, <3>1 DEF Waits
    <3> QED
      BY <3>1, <3>2
  <2>2. CASE \A d \in Clients : session[d].pc # "lock"
    <3>1. \A k : RowFree(c, k)
      BY <1>2, <2>2 DEF RowFree, HoldsRow
    <3>2. ~Waits(c)
      BY <1>2, <2>2, <3>1 DEF Waits
    <3> QED
      BY <3>2
  <2> QED
    BY <2>1, <2>2
<1> QED
  BY <1>1, <1>2

(* The two locks of a request - the row of its approval and the advisory    *)
(* lock, taken in either order and kept to the commit - never leave         *)
(* everybody waiting, for any number of requests in flight.                 *)
THEOREM LocksLeaveSomebodyFree == Spec => []NobodyWaitsInACircle
<1>1. Init => ChainInv /\ \A c \in Clients : StepExists(c)
  BY DEF Init, ChainInv, ChainHasNoFork, Idle, StepExists, HasStep
<1>2. TypeOK /\ (ChainInv /\ \A c \in Clients : StepExists(c)) /\ [Next]_vars
        => (ChainInv /\ \A c \in Clients : StepExists(c))'
  BY ChainStep, StepExistsStep
<1>3. TypeOK /\ (ChainInv /\ \A c \in Clients : StepExists(c)) => NobodyWaitsInACircle
  BY SomebodyIsFree
<1> QED
  BY <1>1, <1>2, <1>3, TypeCorrect, PTL DEF Spec
===========================================================================
