--------------------------- MODULE PlatformProofs ---------------------------
(***************************************************************************)
(* Proofs about the three platform layers, for every set of tenants,       *)
(* resources, collectors, outcomes, synchronisations, licences, requests   *)
(* and deployments, and for every bound.  Each layer is taken by itself:   *)
(* they share no variable.                                                 *)
(***************************************************************************)
EXTENDS Enterprise, Business, Commercial, FiniteSetTheorems, WellFoundedInduction, TLAPS

(***************************************************************************)
(* Enterprise: the owner of a resource.                                    *)
(***************************************************************************)

EntSpec == EntInit /\ [][EntNext]_entVars

(* What each resource goes through: before it is made it has no owner; as  *)
(* long as its maker's request has not scoped it, it is exposed; whoever   *)
(* else scoped it found it exposed; an owner nobody else chose is its      *)
(* maker.                                                                  *)
OwnedRightly(r) ==
  /\ owner[r] \in Tenants \cup {NoTenant} /\ maker[r] \in Tenants \cup {NoTenant}
  /\ stage[r] \in {"none", "created", "scoped", "lost"}
  /\ stage[r] = "none" => owner[r] = NoTenant
  /\ stage[r] \in {"created", "lost"} => r \in exposed
  /\ stage[r] = "scoped" => owner[r] # NoTenant
  /\ stage[r] # "none" => maker[r] \in Tenants
  /\ r \in claimed => r \in exposed
  /\ owner[r] = NoTenant \/ r \in claimed \/ owner[r] = maker[r]

LetInRightly(r) == <<r, "path">> \in strangers => r \in exposed

ScopeInv ==
  /\ owner \in [Resources -> Tenants \cup {NoTenant}]
  /\ maker \in [Resources -> Tenants \cup {NoTenant}]
  /\ stage \in [Resources -> {"none", "created", "scoped", "lost"}]
  /\ \A r \in Resources : OwnedRightly(r)
  /\ claimed \subseteq Resources /\ \A r \in Resources : LetInRightly(r)

LEMMA ScopeInit == EntInit => ScopeInv
  BY EnterpriseAssumption DEF EntInit, ScopeInv, OwnedRightly, LetInRightly

LEMMA ScopeStep == ScopeInv /\ ScopeNext => ScopeInv'
<1> USE EnterpriseAssumption DEF ScopeInv, OwnedRightly, LetInRightly, ScopeResource, gateVars
<1> SUFFICES ASSUME ScopeInv, ScopeNext PROVE ScopeInv'
  OBVIOUS
<1>1. CASE \E r \in Resources, t \in Tenants : CreateTenantMission(r, t)
  <2> PICK r \in Resources, t \in Tenants : CreateTenantMission(r, t)
    BY <1>1
  <2> QED BY DEF CreateTenantMission
<1>2. CASE \E r \in Resources, t \in Tenants : CreateUnscoped(r, t)
  <2> PICK r \in Resources, t \in Tenants : CreateUnscoped(r, t)
    BY <1>2
  <2> QED BY DEF CreateUnscoped
<1>3. CASE \E r \in Resources, t \in Tenants : RunTemplate(r, t)
  <2> PICK r \in Resources, t \in Tenants : RunTemplate(r, t)
    BY <1>3
  <2> QED BY DEF RunTemplate, Made
<1>4. CASE \E r \in Resources : ScopeCreated(r)
  <2> PICK r \in Resources : ScopeCreated(r)
    BY <1>4
  <2> QED BY DEF ScopeCreated
<1>5. CASE \E r \in Resources : CrashBetween(r)
  <2> PICK r \in Resources : CrashBetween(r)
    BY <1>5
  <2> QED BY DEF CrashBetween
<1>6. CASE \E r \in Resources : RetryCreate(r)
  <2> PICK r \in Resources : RetryCreate(r)
    BY <1>6
  <2> QED BY DEF RetryCreate
<1>7. CASE SeedEnterprise
  BY <1>7 DEF SeedEnterprise, Made
<1> QED BY <1>1, <1>2, <1>3, <1>4, <1>5, <1>6, <1>7 DEF ScopeNext

LEMMA VisitStep ==
  ASSUME ScopeInv, NEW c \in Credentials, NEW t \in Tenants, NEW r \in Resources, NEW way \in {"path", "body"},
         Visit(c, t, r, way)
  PROVE  ScopeInv'
<1>1. UNCHANGED scopeVars /\ Made(r)
  BY DEF Visit
<1>2. strangers' = strangers \/ (strangers' = strangers \cup {<<r, way>>} /\ Passes(t, r, way) /\ t # maker[r])
  BY DEF Visit
<1>3. t \in AllowedTenants(r) => t = maker[r] \/ r \in exposed
  BY <1>1 DEF AllowedTenants, Made, ScopeInv, OwnedRightly
<1>4. ASSUME NEW k \in Resources PROVE LetInRightly(k)'
  <2>1. <<k, "path">> \in strangers' => <<k, "path">> \in strangers \/ (k = r /\ way = "path" /\ t \in AllowedTenants(r) /\ t # maker[r])
    BY <1>2 DEF Passes
  <2> QED BY <1>1, <1>3, <2>1 DEF LetInRightly, ScopeInv, scopeVars
<1> QED BY <1>1, <1>4 DEF scopeVars, ScopeInv, OwnedRightly

LEMMA ScopeKept == ScopeInv /\ [EntNext]_entVars => ScopeInv'
<1> SUFFICES ASSUME ScopeInv, [EntNext]_entVars PROVE ScopeInv'
  OBVIOUS
<1>1. CASE ScopeNext
  BY <1>1, ScopeStep
<1>2. CASE \E c \in Credentials, t \in Tenants, r \in Resources, way \in {"path", "body"} : Visit(c, t, r, way)
  BY <1>2, VisitStep
<1>3. CASE UNCHANGED <<scopeVars, strangers>>
  BY <1>3 DEF ScopeInv, OwnedRightly, LetInRightly, scopeVars
<1>4. CASE PullNext
  BY <1>3, <1>4 DEF PullNext, gateVars, AuditOf, PollBegin, ExportRecords, Deliver, CheckpointRead,
     CheckpointSiemSink, PollLost, RequestBackupRun, CompleteBackupRun
<1>5. GateNext => UNCHANGED <<scopeVars, strangers>>
               \/ \E c \in Credentials, t \in Tenants, r \in Resources, way \in {"path", "body"} : Visit(c, t, r, way)
  BY DEF GateNext, ExchangeOidcToken, CreateApiKey, EndCredential, NextWindow
<1>6. CASE UNCHANGED entVars
  BY <1>3, <1>6 DEF entVars, scopeVars
<1> QED BY <1>1, <1>2, <1>3, <1>4, <1>5, <1>6 DEF EntNext

(* TenantsAreIsolated (phase12_runtime.enterprise_auth_isolation with      *)
(* scope_resource and resource_tenant): what is scoped is its maker's and  *)
(* stays so, and the gate of the paths lets nobody else in, except in the  *)
(* window between the commit that makes a resource and the one that scopes *)
(* it, for any tenants, credentials, requests and starts of replicas.      *)
THEOREM TenancyHolds == EntSpec => []TenantsAreIsolated
<1>1. ScopeInv => TenantsAreIsolated
  BY DEF ScopeInv, OwnedRightly, LetInRightly, TenantsAreIsolated
<1> QED BY <1>1, ScopeInit, ScopeKept, PTL DEF EntSpec

(***************************************************************************)
(* Enterprise: the SIEM's cursor.                                          *)
(***************************************************************************)

LEMMA LeastNatural ==
  ASSUME NEW T \in SUBSET Nat, T # {}
  PROVE  \E m \in T : \A n \in T : m <= n
<1> DEFINE R == {ss \in Nat \X Nat : ss[1] < ss[2]}
<1>1. IsWellFoundedOn(R, Nat)
  BY NatLessThanWellFounded DEF OpToRel
<1>2. PICK m \in T : \A n \in T : ~ (<<n, m>> \in R)
  BY <1>1, WFMin
<1>3. \A n \in T : ~(n < m)
  BY <1>2
<1> QED BY <1>3

LEMMA GreatestNatural ==
  ASSUME NEW S \in SUBSET Nat, S # {}, NEW b \in Nat, \A n \in S : n <= b
  PROVE  \E m \in S : \A n \in S : n <= m
<1> DEFINE T == {n \in Nat : \A k \in S : k <= n}
<1>1. PICK m \in T : \A n \in T : m <= n
  <2> b \in T /\ T \in SUBSET Nat
    OBVIOUS
  <2> QED BY LeastNatural
<1>2. m \in S
  <2> SUFFICES ASSUME m \notin S PROVE FALSE
    OBVIOUS
  <2>1. m \in Nat /\ \A k \in S : k \in Nat /\ k < m
    BY <1>1
  <2>2. m - 1 \in T
    <3>1. PICK k \in S : k \in Nat /\ k < m
      BY <2>1
    <3> QED BY <2>1, <3>1
  <2> QED BY <1>1, <2>1, <2>2
<1> QED BY <1>1, <1>2

(* The positions of the log that a page has to carry.                      *)
Relevant(after) == {i \in (after + 1)..Len(audit) : audit[i] = DefaultTenant}

(* An export answers with the front of what is relevant.                   *)
LEMMA ExportIsAFront ==
  ASSUME Len(audit) \in Nat, NEW after \in Nat
  PROVE  /\ AuditExport(after) \subseteq Relevant(after)
         /\ \A m \in AuditExport(after), i \in Relevant(after) :
              i < m => i \in AuditExport(after)
<1> DEFINE Before(m) == {j \in Relevant(after) : j < m}
<1>1. AuditExport(after) = {i \in Relevant(after) : Cardinality(Before(i)) < Page}
  BY DEF AuditExport, Relevant
<1>2. ASSUME NEW m \in AuditExport(after), NEW i \in Relevant(after), i < m
      PROVE  i \in AuditExport(after)
  <2>1. IsFiniteSet((after + 1)..Len(audit))
    BY FS_Interval
  <2>2. Before(m) \in SUBSET ((after + 1)..Len(audit))
    BY DEF Relevant
  <2>3. IsFiniteSet(Before(m))
    BY <2>1, <2>2, FS_Subset
  <2>4. Before(i) \in SUBSET Before(m)
    <3>1. i \in Int /\ m \in Int /\ i < m
      BY <1>1, <1>2 DEF Relevant
    <3>2. \A j \in Relevant(after) : j \in Int
      BY DEF Relevant
    <3>3. \A j \in Relevant(after) : j < i => j < m
      BY <3>1, <3>2
    <3> QED BY <3>3
  <2>5. Cardinality(Before(i)) <= Cardinality(Before(m)) /\ IsFiniteSet(Before(i))
    BY <2>3, <2>4, FS_Subset
  <2>6. Cardinality(Before(i)) \in Nat /\ Cardinality(Before(m)) \in Nat
    BY <2>3, <2>5, FS_CardinalityType
  <2>7. Cardinality(Before(m)) < Page
    BY <1>1
  <2> HIDE DEF Before
  <2>8. Page \in Nat
    BY EnterpriseAssumption
  <2>9. Cardinality(Before(i)) < Page
    BY <2>5, <2>6, <2>7, <2>8
  <2> QED BY <1>1, <2>9
<1> QED BY <1>1, <1>2

(* Up to n every record of the sink's tenant has reached the SIEM.         *)
Held(n) == n \in 0..Len(audit) /\ \A i \in 1..n : audit[i] = DefaultTenant => i \in received

(* A collector started from a cursor, carries a front of what came after,  *)
(* and has delivered it before it asks for the checkpoint.                 *)
PollInv(p) ==
  /\ p.pc # "idle" => Held(p.after)
  /\ p.pc \in {"deliver", "read", "commit"} =>
       /\ p.got \subseteq Relevant(p.after)
       /\ \A m \in p.got, i \in Relevant(p.after) : i < m => i \in p.got
  /\ p.pc \in {"read", "commit"} => p.got \subseteq received

PullInv ==
  /\ audit \in Seq(Tenants)
  /\ poll \in [Exporters -> [pc : {"idle", "export", "deliver", "read", "commit"}, after : Nat,
                             got : SUBSET Nat, copy : Nat]]
  /\ Held(cursor)
  /\ \A x \in Exporters : PollInv(poll[x])

LEMMA PullInit == EntInit => PullInv
  BY DEF EntInit, PullInv, Held, PollInv, NoPoll

(* The next cursor is one up to which the SIEM holds everything.           *)
LEMMA NextAfterHeld ==
  ASSUME PullInv, NEW x \in Exporters, poll[x].pc = "commit"
  PROVE  Held(NextAfter(poll[x]))
<1> DEFINE p == poll[x]
<1>1. /\ Held(p.after) /\ p.got \subseteq Relevant(p.after) /\ p.got \subseteq received
      /\ \A m \in p.got, i \in Relevant(p.after) : i < m => i \in p.got
      /\ p.after \in Nat /\ Len(audit) \in Nat
  BY DEF PullInv, PollInv
<1> HIDE DEF p
<1>2. ASSUME p.got = {} PROVE Held(NextAfter(p))
  BY <1>1, <1>2 DEF NextAfter
<1>3. ASSUME p.got # {} PROVE Held(NextAfter(p))
  <2>1. p.got \in SUBSET Nat /\ \A i \in p.got : i <= Len(audit)
    BY <1>1 DEF Relevant
  <2>2. \E m \in p.got : \A n \in p.got : n <= m
    BY <1>1, <1>3, <2>1, GreatestNatural
  <2>3. PICK m \in p.got : NextAfter(p) = m
    BY <1>3, <2>2 DEF NextAfter
  <2>4. m \in 0..Len(audit)
    BY <1>1, <2>1
  <2>5. ASSUME NEW i \in 1..m, audit[i] = DefaultTenant
        PROVE  i \in received
    <3>1. CASE i <= p.after
      BY <1>1, <2>4, <2>5, <3>1 DEF Held
    <3>2. CASE i > p.after
      <4>1. i \in Relevant(p.after)
        BY <1>1, <2>4, <2>5, <3>2 DEF Relevant
      <4> QED BY <1>1, <2>4, <4>1
    <3> QED BY <1>1, <3>1, <3>2
  <2> QED BY <2>3, <2>4, <2>5 DEF Held
<1>4. Held(NextAfter(p))
  BY <1>2, <1>3
<1> QED BY <1>4 DEF p

LEMMA PullKept == PullInv /\ [EntNext]_entVars => PullInv'
<1> SUFFICES ASSUME PullInv, [EntNext]_entVars PROVE PullInv'
  OBVIOUS
<1> USE DEF PullInv
<1>0. Len(audit) \in Nat /\ NoPoll \in [pc : {"idle", "export", "deliver", "read", "commit"},
        after : Nat, got : SUBSET Nat, copy : Nat] /\ PollInv(NoPoll)' /\ cursor \in Nat
  BY DEF NoPoll, PollInv, Held
<1>1. CASE UNCHANGED siemVars
  BY <1>1 DEF siemVars, Held, PollInv, Relevant
<1>2. ASSUME NEW t \in Tenants, AuditOf(t) PROVE PullInv'
  <2>1. audit' = Append(audit, t) /\ UNCHANGED <<poll, received, cursor>>
    BY <1>2 DEF AuditOf, siemVars
  <2>2. audit' \in Seq(Tenants) /\ Len(audit') = Len(audit) + 1
        /\ \A i \in 1..Len(audit) : audit'[i] = audit[i]
    BY <2>1
  <2>3. \A n : Held(n) => Held(n)'
    BY <1>0, <2>1, <2>2 DEF Held
  <2>4. ASSUME NEW x \in Exporters PROVE PollInv(poll[x])'
    <3> DEFINE p == poll[x]
    <3>1. p.after \in Nat
      OBVIOUS
    <3>2. Relevant(p.after) \subseteq Relevant(p.after)'
      BY <1>0, <2>1, <2>2 DEF Relevant
    <3>3. \A m \in Relevant(p.after), i \in Relevant(p.after)' : i < m => i \in Relevant(p.after)
      BY <1>0, <2>1, <2>2, <3>1 DEF Relevant
    <3> QED BY <2>1, <2>3, <3>1, <3>2, <3>3 DEF PollInv
  <2>5. Held(cursor)'
    <3>1. Held(cursor)
      OBVIOUS
    <3> QED BY <1>0, <2>1, <2>2, <3>1 DEF Held
  <2> QED BY <2>1, <2>2, <2>4, <2>5
<1>3. ASSUME NEW x \in Exporters, PollBegin(x) PROVE PullInv'
  BY <1>0, <1>3 DEF PollBegin, NoPoll, PollInv, Held, Relevant
<1>4. ASSUME NEW x \in Exporters, ExportRecords(x) PROVE PullInv'
  <2>1. /\ AuditExport(poll[x].after) \subseteq Relevant(poll[x].after)
        /\ \A m \in AuditExport(poll[x].after), i \in Relevant(poll[x].after) :
              i < m => i \in AuditExport(poll[x].after)
    BY <1>0, ExportIsAFront
  <2>2. AuditExport(poll[x].after) \in SUBSET Nat
    BY <2>1 DEF Relevant
  <2>3. UNCHANGED <<audit, received, cursor>>
    BY <1>4 DEF ExportRecords
  <2>4. poll' = [poll EXCEPT ![x].pc = "deliver", ![x].got = AuditExport(poll[x].after)]
        /\ poll[x].pc = "export"
    BY <1>4 DEF ExportRecords
  <2> HIDE DEF PullInv
  <2>5. \A z : Held(z) <=> Held(z)'
    BY <2>3 DEF Held
  <2>6. \A z : Relevant(z) = Relevant(z)'
    BY <2>3 DEF Relevant
  <2>7. PollInv(poll[x])'
    BY <2>1, <2>3, <2>4, <2>5, <2>6 DEF PollInv, PullInv
  <2> QED BY ZenonT(30), <2>2, <2>3, <2>4, <2>5, <2>6, <2>7 DEF PollInv, PullInv
<1>5. ASSUME NEW x \in Exporters, Deliver(x) PROVE PullInv'
  BY <1>0, <1>5 DEF Deliver, PollInv, Held, Relevant
<1>6. ASSUME NEW x \in Exporters, CheckpointRead(x) PROVE PullInv'
  BY ZenonT(30), <1>0, <1>6 DEF CheckpointRead, PollInv, Held, Relevant
<1>7. ASSUME NEW x \in Exporters, CheckpointSiemSink(x) PROVE PullInv'
  <2>1. Held(NextAfter(poll[x]))
    BY <1>7, NextAfterHeld DEF CheckpointSiemSink
  <2> QED BY <1>0, <1>7, <2>1 DEF CheckpointSiemSink, PollInv, Held, Relevant
<1>8. ASSUME NEW x \in Exporters, PollLost(x) PROVE PullInv'
  BY <1>0, <1>8 DEF PollLost, PollInv, Held, Relevant
<1>9. ScopeNext => UNCHANGED siemVars
  BY DEF ScopeNext, CreateTenantMission, CreateUnscoped, RunTemplate, ScopeCreated, CrashBetween,
     RetryCreate, SeedEnterprise
<1>10. GateNext => UNCHANGED siemVars
  BY DEF GateNext, ExchangeOidcToken, CreateApiKey, EndCredential, Visit, NextWindow
<1>11. RequestBackupRun => UNCHANGED siemVars
  BY DEF RequestBackupRun
<1>12. ASSUME NEW st, CompleteBackupRun(st) PROVE UNCHANGED siemVars
  BY <1>12 DEF CompleteBackupRun
<1>13. UNCHANGED entVars => UNCHANGED siemVars
  BY DEF entVars, siemVars
<1> QED BY <1>1, <1>2, <1>3, <1>4, <1>5, <1>6, <1>7, <1>8, <1>9, <1>10, <1>11, <1>12, <1>13
        DEF EntNext, PullNext

(* NothingIsSkipped (commercial_service.audit_export and checkpoint_siem,  *)
(* enterprise_service.audit_export): the checkpoint never passes a record  *)
(* the SIEM does not hold, for any number of collectors, any page size and *)
(* any number of collectors that die.                                      *)
THEOREM CursorIsEarned == EntSpec => []NothingIsSkipped
<1>1. PullInv => NothingIsSkipped
  BY DEF PullInv, Held, NothingIsSkipped
<1> QED BY <1>1, PullInit, PullKept, PTL DEF EntSpec

(***************************************************************************)
(* Commercial: onboarding and readiness.                                   *)
(***************************************************************************)

(* A system that starts with any plan and any licences.                    *)
ComStart ==
  \E m \in {"warn", "enforce"}, p \in Plans, T \in SUBSET Tokens :
    IsFiniteSet(T) /\ ComInit(m, p, T)

ComSpec == ComStart /\ [][ComNext]_comVars

(* An advance that is not late holds a true copy, and as long as no late   *)
(* one has written, the status says what the checklist says.               *)
OnboardInv ==
  /\ onboard \in [status : {"NONE", "IN_PROGRESS", "COMPLETED"}, done : SUBSET Steps]
  /\ adv \in [Advances -> [pc : {"idle", "loaded", "done"}, late : BOOLEAN,
        copy : [status : {"NONE", "IN_PROGRESS", "COMPLETED"}, done : SUBSET Steps]]]
  /\ \A a \in Advances : adv[a].pc = "loaded" =>
        onboard.status # "NONE" /\ (adv[a].late \/ adv[a].copy = onboard)
  /\ ~overlapped /\ onboard.status = "COMPLETED" => onboard.done = Steps

LEMMA OnboardKept == OnboardInv /\ [ComNext]_comVars => OnboardInv'
<1> SUFFICES ASSUME OnboardInv, [ComNext]_comVars PROVE OnboardInv'
  OBVIOUS
<1>1. CASE UNCHANGED onbVars
  BY <1>1 DEF OnboardInv, onbVars
<1>2. CASE UpsertOnboarding
  BY <1>2 DEF UpsertOnboarding, OnboardInv
<1>3. ASSUME NEW a \in Advances, AdvanceLoad(a) PROVE OnboardInv'
  BY <1>3 DEF AdvanceLoad, OnboardInv
<1>4. ASSUME NEW a \in Advances, NEW s \in Steps, NEW completed \in BOOLEAN,
             AdvanceOnboarding(a, s, completed)
      PROVE  OnboardInv'
  <2> DEFINE c == adv[a].copy
             done == IF completed THEN c.done \cup {s} ELSE c.done \ {s}
             status == IF done = Steps THEN "COMPLETED" ELSE "IN_PROGRESS"
             new == [status |-> IF status # c.status THEN status ELSE onboard.status,
                     done |-> IF done # c.done THEN done ELSE onboard.done]
  <2>1. /\ adv[a].pc = "loaded" /\ onboard' = new
        /\ adv' = [b \in Advances |->
              IF b = a THEN [IdleAdv EXCEPT !.pc = "done"]
              ELSE IF adv[b].pc = "loaded" /\ new # onboard THEN [adv[b] EXCEPT !.late = TRUE]
              ELSE adv[b]]
        /\ overlapped' = (overlapped \/ adv[a].late)
    BY <1>4 DEF AdvanceOnboarding
  <2>2. c \in [status : {"NONE", "IN_PROGRESS", "COMPLETED"}, done : SUBSET Steps]
    BY DEF OnboardInv
  <2>3. done \in SUBSET Steps /\ status \in {"IN_PROGRESS", "COMPLETED"}
    BY <2>2
  <2>4. /\ new \in [status : {"NONE", "IN_PROGRESS", "COMPLETED"}, done : SUBSET Steps]
        /\ new.status # "NONE"
    <3> HIDE DEF done, status, c
    <3> QED BY <2>1, <2>2, <2>3 DEF OnboardInv
  <2>5. ~adv[a].late => new.status = status /\ new.done = done
    <3>1. ~adv[a].late => c = onboard
      BY <2>1 DEF OnboardInv
    <3> HIDE DEF done, status, c
    <3> QED BY <3>1
  <2>6. status = "COMPLETED" => done = Steps
    OBVIOUS
  <2> HIDE DEF c, done, status, new
  <2>7. adv' \in [Advances -> [pc : {"idle", "loaded", "done"}, late : BOOLEAN,
          copy : [status : {"NONE", "IN_PROGRESS", "COMPLETED"}, done : SUBSET Steps]]]
    <3> DEFINE Type == [pc : {"idle", "loaded", "done"}, late : BOOLEAN,
          copy : [status : {"NONE", "IN_PROGRESS", "COMPLETED"}, done : SUBSET Steps]]
    <3>1. [IdleAdv EXCEPT !.pc = "done"] \in Type
      BY DEF IdleAdv
    <3>2. \A b \in Advances : adv[b] \in Type /\ [adv[b] EXCEPT !.late = TRUE] \in Type
      BY DEF OnboardInv
    <3> HIDE DEF Type
    <3>3. adv' \in [Advances -> Type]
      BY <2>1, <3>1, <3>2
    <3> QED BY <3>3 DEF Type
  <2>8. \A b \in Advances : adv'[b].pc = "loaded" => adv'[b].late \/ adv'[b].copy = onboard'
    BY <2>1 DEF OnboardInv, IdleAdv
  <2>9. ~overlapped' /\ onboard'.status = "COMPLETED" => onboard'.done = Steps
    BY <2>1, <2>5, <2>6 DEF OnboardInv
  <2> QED BY <2>1, <2>4, <2>7, <2>8, <2>9 DEF OnboardInv
<1>5. OnboardNext => UNCHANGED onbVars \/ UpsertOnboarding \/ (\E a \in Advances : AdvanceLoad(a))
        \/ (\E a \in Advances, s \in Steps, completed \in BOOLEAN : AdvanceOnboarding(a, s, completed))
  BY DEF OnboardNext
<1>6. LicenceNext => UNCHANGED onbVars
  BY DEF LicenceNext, ImportLicense, LicenseExpires, SeedCommercial, SetTenantSubscription
<1>7. WriteNext => UNCHANGED onbVars
  BY DEF WriteNext, EnterWrite, SyncContractEntitlements, LicenseEnforcement, StartTasks, WorkerTask,
         TaskEnds
<1>8. RegisterNext => UNCHANGED onbVars
  BY DEF RegisterNext, RegisterCheck, RegisterDeployment
<1>9. ReportNext => UNCHANGED onbVars
  BY DEF ReportNext, DeploymentHeartbeat, PublishRelease
<1>10. UNCHANGED comVars => UNCHANGED onbVars
  BY DEF comVars, onbVars
<1> QED BY <1>1, <1>2, <1>3, <1>4, <1>5, <1>6, <1>7, <1>8, <1>9, <1>10 DEF ComNext

(* ReadyMeansEveryStep (commercial_api.commercial_status with              *)
(* commercial_service.advance_onboarding): unless two advances overlapped, *)
(* production is ready only with every onboarding step done, whatever the  *)
(* steps are and however many advances there were.                         *)
THEOREM ReadinessIsEarned == ComSpec => []ReadyMeansEveryStep
<1>1. ComStart => OnboardInv
  BY DEF ComStart, ComInit, OnboardInv, IdleAdv
<1>2. OnboardInv => ReadyMeansEveryStep
  BY DEF OnboardInv, ReadyMeansEveryStep, ProductionReady
<1> QED BY <1>1, <1>2, OnboardKept, PTL DEF ComSpec

(***************************************************************************)
(* Commercial: the limits and the features.                                *)
(***************************************************************************)

WriteRecords == [pc : {"idle", "rows", "decide", "serve", "started", "done"}, feature : Features,
                 plan : Plans, plans : SUBSET Plans, count : SUBSET Tasks]

ComTypes ==
  /\ plan \in Plans /\ rows \in [features : SUBSET Features, cap : Nat]
  /\ order \in Seq(Tokens) /\ top \in Nat /\ active \subseteq Tasks
  /\ write \in [Writes -> WriteRecords]
  /\ dep \in [Deployments -> {"NONE", "REGISTERED", "ACTIVE", "DEGRADED", "REVOKED"}]
  /\ reg = [g \in Registrars |-> reg[g]]

(* A request that may start tasks, unless no limit was compared with its   *)
(* first, counted fewer tasks than the largest limit.                      *)
CountedWrite(w, q) == w.pc = "serve" /\ <<q, 1>> \notin waived => Cardinality(w.count) < top

(* A request knows the plans in force while it runs; the rows it decides   *)
(* by are those of one of them, and so is the feature it is served for.    *)
Contracted(w) ==
  /\ w.pc \in {"rows", "decide", "serve"} => plan \in w.plans /\ w.plan \in w.plans
  /\ w.pc = "decide" /\ ~crossed => \E p \in w.plans : rows = ContractRows(p)
  /\ w.pc = "serve" /\ mode = "enforce" /\ ~crossed =>
       \E p \in w.plans : w.feature \in PlanFeatures[p]

(* How many deployments there may be: before any limit was compared, the   *)
(* one that was registered at the start.                                   *)
Room(n) == IF n > 0 THEN n ELSE 1

(* A registration to be saved has room for a new deployment, or has seen   *)
(* the one it updates among those that count.                              *)
CountedReg(r) ==
  r.pc = "save" =>
    /\ r.d \in Deployments /\ r.count \subseteq Deployments
    /\ r.gives \in {"REGISTERED", "ACTIVE"}
    /\ r.was = "NONE" /\ r.d \notin waived => Cardinality(r.count) < top
    /\ r.was \notin {"NONE", "REVOKED"} =>
         r.d \in r.count /\ Cardinality(r.count \ waived) <= Room(top)

ComInv ==
  /\ ComTypes
  /\ \A q \in Writes : CountedWrite(write[q], q) /\ Contracted(write[q])
  /\ \A g \in Registrars : CountedReg(reg[g])
  /\ Cardinality(active \ waived) <= top /\ Cardinality(Live \ waived) <= Room(top)

LEMMA TasksFinite == IsFiniteSet(Tasks)
<1>1. IsFiniteSet(1..MaxBatch)
  BY CommercialAssumption, FS_Interval
<1> QED BY <1>1, CommercialAssumption, FS_Product DEF Tasks

LEMMA RoomGrows ==
  \A m, n \in Nat : Room(n) \in Nat /\ n <= Room(n) /\ (m <= n => Room(m) <= Room(n))
  BY DEF Room

LEMMA Counting ==
  ASSUME NEW S, IsFiniteSet(S), NEW T \in SUBSET S
  PROVE  IsFiniteSet(T) /\ Cardinality(T) \in Nat /\ Cardinality(S) \in Nat
         /\ Cardinality(T) <= Cardinality(S)
  BY FS_Subset, FS_CardinalityType

LEMMA CountingOneMore ==
  ASSUME NEW S, IsFiniteSet(S), NEW x, NEW T \in SUBSET (S \cup {x})
  PROVE  Cardinality(T) <= Cardinality(S) + 1
<1>1. IsFiniteSet(S \cup {x})
      /\ Cardinality(S \cup {x}) = IF x \in S THEN Cardinality(S) ELSE Cardinality(S) + 1
  BY FS_AddElement
<1>2. Cardinality(S) \in Nat /\ Cardinality(S \cup {x}) \in Nat
  BY <1>1, FS_CardinalityType
<1>3. Cardinality(T) \in Nat /\ Cardinality(T) <= Cardinality(S \cup {x})
  BY <1>1, Counting
<1> QED BY <1>1, <1>2, <1>3

LEMMA ComInitially == ComStart => ComInv
<1> SUFFICES ASSUME NEW m \in {"warn", "enforce"}, NEW p \in Plans, NEW T \in SUBSET Tokens,
                    IsFiniteSet(T), ComInit(m, p, T)
             PROVE  ComInv
  BY DEF ComStart
<1>1. SetToSeq(T) \in Seq(Tokens)
  <2>1. Cardinality(T) \in Nat /\ \E f \in [1..Cardinality(T) -> T] : IsInjective(f)
    BY FS_CardinalityType DEF ExistsBijection, Bijection, Injection, IsInjective
  <2>2. SetToSeq(T) \in [1..Cardinality(T) -> T]
    BY <2>1 DEF SetToSeq
  <2> QED BY <2>1, <2>2
<1>2. Cardinality({}) = 0
  BY FS_EmptySet
<1>3. IdleWrite \in WriteRecords
  <2>1. \E f \in Features : TRUE
    BY CommercialAssumption
  <2> QED BY <2>1 DEF IdleWrite, WriteRecords
<1>4. ComTypes
  BY <1>1, <1>3 DEF ComInit, ComTypes
<1>5. Live \ waived = {Own} /\ Cardinality({Own}) = 1 /\ active = {} /\ top = 0
  BY CommercialAssumption, FS_Singleton DEF ComInit, Live
<1>6. Cardinality(Live \ waived) <= Room(top)
  BY <1>5 DEF Room
<1> QED BY <1>2, <1>4, <1>5, <1>6 DEF ComInit, ComInv, CountedWrite, Contracted, CountedReg, IdleWrite, IdleReg

(* The limit in force is a number.                                         *)
LEMMA CapIsNatural ==
  ASSUME order \in Seq(Tokens), NEW contract \in [features : SUBSET Features, cap : Nat]
  PROVE  CapWith(contract) \in Nat
<1> DEFINE caps == (UNION {{TokenCap[t], contract.cap} : t \in InForce}) \ {0}
<1>1. InForce \subseteq Tokens
  <2> DEFINE good == {i \in 1..Len(order) : licence[order[i]] = "ACTIVE" /\ order[i] \notin dead}
  <2>1. CASE good = {}
    BY <2>1 DEF InForce
  <2>2. CASE good # {}
    <3>1. good \in SUBSET Nat /\ (\A i \in good : i <= Len(order)) /\ Len(order) \in Nat
      OBVIOUS
    <3>2. \E i \in good : \A j \in good : j <= i
      BY <2>2, <3>1, GreatestNatural
    <3>3. (CHOOSE i \in good : \A j \in good : j <= i) \in good
      BY <3>2
    <3>4. \A i \in good : order[i] \in Tokens
      OBVIOUS
    <3> HIDE DEF good
    <3>5. order[CHOOSE i \in good : \A j \in good : j <= i] \in Tokens
      BY <3>3, <3>4
    <3> QED BY <2>2, <3>5 DEF InForce, good
  <2> QED BY <2>1, <2>2
<1>2. caps \in SUBSET Nat
  BY <1>1, CommercialAssumption
<1>3. CASE caps = {}
  BY <1>3 DEF CapWith
<1>4. CASE caps # {}
  <2>1. \E n \in caps : \A m \in caps : n <= m
    BY <1>2, <1>4, LeastNatural
  <2>2. CapWith(contract) = CHOOSE n \in caps : \A m \in caps : n <= m
    BY <1>4 DEF CapWith
  <2> HIDE DEF caps
  <2> QED BY <1>2, <2>1, <2>2
<1> QED BY <1>3, <1>4

LEMMA ContractType == \A p \in Plans : ContractRows(p) \in [features : SUBSET Features, cap : Nat]
  BY CommercialAssumption DEF ContractRows

(* Steps that leave the counting, the plan, the rows and the requests alone.*)
LEMMA ComQuiet ==
  ASSUME ComInv, UNCHANGED <<plan, rows, crossed, mode, order, top, active, write, waived, dep, reg>>
  PROVE  ComInv'
<1>1. Live' = Live
  BY DEF Live
<1> QED BY <1>1 DEF ComInv, ComTypes, CountedWrite, Contracted, CountedReg

(* Steps of one request that leave the deployments alone, and in which     *)
(* what no limit was compared with and the largest limit only grow.        *)
LEMMA WriteFrame ==
  ASSUME ComInv, NEW q \in Writes, UNCHANGED <<plan, mode, order, dep, reg>>,
         waived \subseteq waived', top <= top', ComTypes',
         \A p \in Writes \ {q} : write'[p] = write[p],
         crossed => crossed', rows' = rows \/ crossed' \/ rows' = ContractRows(plan),
         CountedWrite(write[q], q)', Contracted(write[q])',
         Cardinality(active' \ waived') <= top'
  PROVE  ComInv'
<1>1. Live' = Live /\ top \in Nat /\ top' \in Nat
  BY DEF Live, ComInv, ComTypes
<1>2. Cardinality(Live' \ waived') <= Room(top')
  <2>1. IsFiniteSet(Live \ waived)
    BY CommercialAssumption, FS_Subset DEF Live
  <2>2. Live' \ waived' \in SUBSET (Live \ waived)
    BY <1>1
  <2>3. Cardinality(Live' \ waived') <= Cardinality(Live \ waived)
        /\ Cardinality(Live' \ waived') \in Nat /\ Cardinality(Live \ waived) \in Nat
    BY <2>1, <2>2, Counting
  <2>4. Room(top) <= Room(top') /\ Room(top) \in Nat /\ Room(top') \in Nat
    BY <1>1, RoomGrows
  <2> QED BY <2>3, <2>4 DEF ComInv
<1>3. ASSUME NEW p \in Writes PROVE CountedWrite(write[p], p)' /\ Contracted(write[p])'
  <2>1. CASE p = q
    BY <2>1
  <2>2. CASE p # q
    <3>1. write'[p] = write[p] /\ CountedWrite(write[p], p) /\ Contracted(write[p])
          /\ write[p].count \in SUBSET Tasks
      BY <2>2 DEF ComInv, ComTypes, WriteRecords
    <3>2. Cardinality(write[p].count) \in Nat
      BY <3>1, TasksFinite, Counting
    <3>3. CountedWrite(write[p], p)'
      BY <1>1, <3>1, <3>2 DEF CountedWrite
    <3>4. Contracted(write[p])'
      BY <3>1 DEF Contracted, ContractRows
    <3> QED BY <3>3, <3>4
  <2> QED BY <2>1, <2>2
<1>4. ASSUME NEW g \in Registrars PROVE CountedReg(reg[g])'
  <2>1. CountedReg(reg[g]) /\ reg'[g] = reg[g]
    BY DEF ComInv
  <2>2. SUFFICES ASSUME reg[g].pc = "save" PROVE CountedReg(reg[g])'
    BY <2>1 DEF CountedReg
  <2>3. reg[g].count \in SUBSET Deployments
    BY <2>1, <2>2 DEF CountedReg
  <2>4. IsFiniteSet(reg[g].count) /\ Cardinality(reg[g].count) \in Nat
    BY <2>3, CommercialAssumption, Counting
  <2>5. reg[g].count \ waived \in SUBSET reg[g].count
    OBVIOUS
  <2>6. IsFiniteSet(reg[g].count \ waived) /\ Cardinality(reg[g].count \ waived) \in Nat
    BY <2>4, <2>5, Counting
  <2>7. reg[g].count \ waived' \in SUBSET (reg[g].count \ waived)
    OBVIOUS
  <2>8. Cardinality(reg[g].count \ waived') <= Cardinality(reg[g].count \ waived)
        /\ Cardinality(reg[g].count \ waived') \in Nat
    BY <2>6, <2>7, Counting
  <2>9. Room(top) <= Room(top') /\ Room(top) \in Nat /\ Room(top') \in Nat
    BY <1>1, RoomGrows
  <2> QED BY <1>1, <2>1, <2>4, <2>6, <2>8, <2>9 DEF CountedReg
<1> QED BY <1>2, <1>3, <1>4 DEF ComInv

LEMMA EnterKept ==
  ASSUME ComInv, NEW q \in Writes, NEW f \in Features, EnterWrite(q, f) PROVE ComInv'
<1>1. /\ write' = [write EXCEPT ![q] = [IdleWrite EXCEPT !.pc = "rows", !.feature = f,
                                       !.plan = plan, !.plans = {plan}]]
      /\ UNCHANGED <<mode, order, plan, rows, crossed, active, dep, reg, top, waived>>
  BY DEF EnterWrite, licVars, conVars, depVars
<1>2. ComTypes /\ write'[q] = [pc |-> "rows", feature |-> f, plan |-> plan, plans |-> {plan}, count |-> {}]
  BY <1>1 DEF ComInv, ComTypes, IdleWrite
<1>3. write'[q] \in WriteRecords
  BY <1>2 DEF ComTypes, WriteRecords
<1>4. ComTypes'
  BY <1>1, <1>2, <1>3 DEF ComTypes
<1>5. CountedWrite(write[q], q)' /\ Contracted(write[q])'
  BY <1>1, <1>2 DEF CountedWrite, Contracted
<1>6. Cardinality(active \ waived) <= top /\ top \in Nat
  BY DEF ComInv, ComTypes
<1>7. \A p \in Writes \ {q} : write'[p] = write[p]
  BY <1>1, <1>2 DEF ComTypes
<1> QED BY <1>1, <1>4, <1>5, <1>6, <1>7, WriteFrame

LEMMA RowsKept ==
  ASSUME ComInv, NEW q \in Writes, SyncContractEntitlements(q) PROVE ComInv'
<1>1. /\ write[q].pc = "rows" /\ write' = [write EXCEPT ![q].pc = "decide"]
      /\ rows' = ContractRows(write[q].plan)
      /\ crossed' = (crossed \/ (write[q].plan # plan /\ rows' # rows))
      /\ UNCHANGED <<mode, order, plan, active, dep, reg, top, waived>>
  BY DEF SyncContractEntitlements, licVars, depVars
<1>2. ComTypes /\ write[q] \in WriteRecords /\ Contracted(write[q])
  BY DEF ComInv, ComTypes
<1>3. /\ write'[q] = [write[q] EXCEPT !.pc = "decide"] /\ write'[q] \in WriteRecords
      /\ write'[q].plans = write[q].plans /\ write'[q].plan = write[q].plan /\ write'[q].pc = "decide"
  BY <1>1, <1>2 DEF ComTypes, WriteRecords
<1>4. ComTypes'
  <2>1. rows' \in [features : SUBSET Features, cap : Nat]
    BY <1>1, <1>2, ContractType DEF WriteRecords
  <2>2. write' \in [Writes -> WriteRecords]
    BY <1>1, <1>2, <1>3 DEF ComTypes
  <2> QED BY <1>1, <1>2, <2>1, <2>2 DEF ComTypes
<1>5. Contracted(write[q])'
  <2>1. write[q].plan \in write[q].plans /\ plan \in write[q].plans
    BY <1>1, <1>2 DEF Contracted
  <2> QED BY <1>1, <1>3, <2>1 DEF Contracted, ContractRows
<1>6. CountedWrite(write[q], q)'
  BY <1>3 DEF CountedWrite
<1>7. rows' = rows \/ crossed' \/ rows' = ContractRows(plan)
  BY <1>1
<1>8. top \in Nat /\ Cardinality(active \ waived) <= top
  BY DEF ComInv, ComTypes
<1>9. \A p \in Writes \ {q} : write'[p] = write[p]
  BY <1>1, <1>2 DEF ComTypes
<1>10. crossed => crossed'
  BY <1>1
<1>11. /\ waived \subseteq waived' /\ top <= top' /\ UNCHANGED <<plan, mode, order, dep, reg>>
       /\ Cardinality(active' \ waived') <= top'
  BY <1>1, <1>8
<1> QED BY <1>4, <1>5, <1>6, <1>7, <1>9, <1>10, <1>11, WriteFrame

LEMMA DecideKept ==
  ASSUME ComInv, NEW q \in Writes, LicenseEnforcement(q) PROVE ComInv'
<1>1. /\ write[q].pc = "decide"
      /\ write' = [write EXCEPT ![q].pc = IF Allowed(write[q].feature) THEN "serve" ELSE "done",
                               ![q].count = active]
      /\ top' = IF EffectiveCap > top THEN EffectiveCap ELSE top
      /\ waived' = IF EffectiveCap = 0 THEN waived \cup {<<q, 1>>} ELSE waived
      /\ UNCHANGED <<mode, order, dead, plan, rows, crossed, active, dep, reg>>
  BY DEF LicenseEnforcement, conVars, depVars
<1>2. ComTypes /\ write[q] \in WriteRecords /\ Contracted(write[q])
  BY DEF ComInv, ComTypes
<1>3. EffectiveCap \in Nat /\ top \in Nat
  BY <1>2, CapIsNatural DEF ComTypes, EffectiveCap
<1>4. /\ write'[q].pc = (IF Allowed(write[q].feature) THEN "serve" ELSE "done")
      /\ write'[q].count = active /\ write'[q].feature = write[q].feature
      /\ write'[q].plans = write[q].plans /\ write'[q].plan = write[q].plan
      /\ write'[q] \in WriteRecords
  BY <1>1, <1>2 DEF ComTypes, WriteRecords
<1>5. write' \in [Writes -> WriteRecords] /\ \A p \in Writes \ {q} : write'[p] = write[p]
  BY <1>1, <1>2, <1>4 DEF ComTypes
<1>6. ComTypes'
  BY <1>1, <1>2, <1>3, <1>5 DEF ComTypes
<1>7. CountedWrite(write[q], q)'
  <2>1. SUFFICES ASSUME Allowed(write[q].feature), EffectiveCap # 0
                 PROVE  Cardinality(active) < top'
    BY <1>1, <1>4 DEF CountedWrite
  <2>2. CASE InForce = {}
    BY <2>1, <2>2 DEF EffectiveCap, CapWith
  <2>3. CASE InForce # {}
    <3>1. Cardinality(active) < EffectiveCap
      BY <2>1, <2>3 DEF Allowed
    <3>2. Cardinality(active) \in Nat
      BY <1>2, TasksFinite, Counting DEF ComTypes
    <3> QED BY <1>1, <1>3, <3>1, <3>2
  <2> QED BY <2>2, <2>3
<1>8. Contracted(write[q])'
  <2>1. write'[q].pc \in {"serve", "done"}
    BY <1>4
  <2>2. ASSUME write'[q].pc = "serve", mode = "enforce", ~crossed
        PROVE  \E p \in write[q].plans : write[q].feature \in PlanFeatures[p]
    <3>1. Allowed(write[q].feature)
      BY <1>4, <2>2
    <3>2. write[q].feature \in EffectiveFeatures
      BY <2>2, <3>1 DEF Allowed
    <3>3. rows.features = {} \/ write[q].feature \in rows.features
      BY <3>2 DEF EffectiveFeatures
    <3>4. PICK p \in write[q].plans : rows = ContractRows(p)
      BY <1>1, <1>2, <2>2 DEF Contracted
    <3>5. p \in Plans /\ rows.features = PlanFeatures[p] /\ PlanFeatures[p] # {}
      BY <1>2, <3>4, CommercialAssumption DEF ContractRows, WriteRecords
    <3> QED BY <3>3, <3>5
  <2>3. plan \in write[q].plans /\ write[q].plan \in write[q].plans
    BY <1>1, <1>2 DEF Contracted
  <2> QED BY <1>1, <1>4, <2>1, <2>2, <2>3 DEF Contracted
<1>9. waived \subseteq waived' /\ top <= top' /\ top' \in Nat
  BY <1>1, <1>3
<1>10. Cardinality(active' \ waived') <= top'
  <2>1. active \ waived \in SUBSET Tasks
    BY <1>2 DEF ComTypes
  <2>2. IsFiniteSet(active \ waived)
    BY <2>1, TasksFinite, Counting
  <2>3. active' \ waived' \in SUBSET (active \ waived)
    BY <1>1, <1>9
  <2>4. /\ Cardinality(active' \ waived') <= Cardinality(active \ waived)
        /\ Cardinality(active' \ waived') \in Nat /\ Cardinality(active \ waived) \in Nat
        /\ Cardinality(active \ waived) <= top
    BY <2>2, <2>3, Counting DEF ComInv
  <2> QED BY <1>3, <1>9, <2>4
<1> QED BY <1>1, <1>5, <1>6, <1>7, <1>8, <1>9, <1>10, WriteFrame

LEMMA StartKept ==
  ASSUME ComInv, NEW q \in Writes, NEW n \in 0..MaxBatch, StartTasks(q, n) PROVE ComInv'
<1> DEFINE new == {<<q, i>> : i \in 1..n}
<1>1. /\ write[q].pc = "serve" /\ active' = active \cup new
      /\ write' = [write EXCEPT ![q].pc = "started"]
      /\ waived' = waived \cup (IF active \subseteq write[q].count THEN new \ {<<q, 1>>}
                                ELSE new \cup {<<q, 1>>})
      /\ UNCHANGED <<mode, order, plan, rows, crossed, top, dep, reg>>
  BY DEF StartTasks, licVars, conVars, depVars
<1>2. ComTypes /\ write[q] \in WriteRecords /\ top \in Nat /\ CountedWrite(write[q], q)
  BY DEF ComInv, ComTypes
<1>3. write'[q].pc = "started" /\ write'[q] \in WriteRecords
  BY <1>1, <1>2 DEF ComTypes, WriteRecords
<1>4. write' \in [Writes -> WriteRecords] /\ \A p \in Writes \ {q} : write'[p] = write[p]
  BY <1>1, <1>2, <1>3 DEF ComTypes
<1>5. new \subseteq Tasks
  BY CommercialAssumption DEF Tasks
<1> HIDE DEF new
<1>6. ComTypes'
  BY <1>1, <1>2, <1>4, <1>5 DEF ComTypes
<1>7. Cardinality(active' \ waived') <= top
  <2>1. CASE active' \ waived' \subseteq active \ waived
    <3>1. active \ waived \in SUBSET Tasks
      BY <1>2 DEF ComTypes
    <3>2. IsFiniteSet(active \ waived)
      BY <3>1, TasksFinite, Counting
    <3>3. /\ Cardinality(active' \ waived') <= Cardinality(active \ waived)
          /\ Cardinality(active' \ waived') \in Nat /\ Cardinality(active \ waived) \in Nat
          /\ Cardinality(active \ waived) <= top
      BY <2>1, <3>2, Counting DEF ComInv
    <3> QED BY <1>2, <3>3
  <2>2. CASE ~(active' \ waived' \subseteq active \ waived)
    <3>1. active \subseteq write[q].count /\ <<q, 1>> \notin waived
      BY <1>1, <2>2
    <3>2. Cardinality(write[q].count) < top
      BY <1>1, <1>2, <3>1 DEF CountedWrite
    <3>3. write[q].count \in SUBSET Tasks
      BY <1>2 DEF WriteRecords
    <3>4. IsFiniteSet(write[q].count) /\ Cardinality(write[q].count) \in Nat
      BY <3>3, TasksFinite, Counting
    <3>5. active' \ waived' \in SUBSET (write[q].count \cup {<<q, 1>>})
      BY <1>1, <3>1
    <3>6. Cardinality(active' \ waived') <= Cardinality(write[q].count) + 1
      BY <3>4, <3>5, CountingOneMore
    <3>7. active' \ waived' \in SUBSET Tasks
      BY <1>6 DEF ComTypes
    <3>8. Cardinality(active' \ waived') \in Nat
      BY <3>7, TasksFinite, Counting
    <3> QED BY <1>2, <3>2, <3>4, <3>6, <3>8
  <2> QED BY <2>1, <2>2
<1>8. CountedWrite(write[q], q)' /\ Contracted(write[q])'
  BY <1>3 DEF CountedWrite, Contracted
<1>9. waived \subseteq waived'
  BY <1>1
<1> QED BY <1>1, <1>2, <1>4, <1>6, <1>7, <1>8, <1>9, WriteFrame

(* A task that ends, and one that the worker of the SOPs starts, add       *)
(* nothing to those that the limit was compared with.                      *)
LEMMA UncountedKept ==
  ASSUME ComInv, NEW q \in Writes, active' \subseteq Tasks, waived \subseteq waived',
         active' \ waived' \subseteq active \ waived,
         \A p \in Writes : <<p, 1>> \in waived' /\ <<p, 1>> \notin waived => write[p].pc = "started",
         UNCHANGED <<mode, order, plan, rows, crossed, top, dep, reg, write>>
  PROVE  ComInv'
<1>1. ComTypes /\ top \in Nat
  BY DEF ComInv, ComTypes
<1>2. ComTypes'
  BY <1>1 DEF ComTypes
<1>3. active \ waived \in SUBSET Tasks
  BY <1>1 DEF ComTypes
<1>4. IsFiniteSet(active \ waived)
  BY <1>3, TasksFinite, Counting
<1>5. /\ Cardinality(active' \ waived') <= Cardinality(active \ waived)
      /\ Cardinality(active' \ waived') \in Nat /\ Cardinality(active \ waived) \in Nat
      /\ Cardinality(active \ waived) <= top
  BY <1>4, Counting DEF ComInv
<1>6. CountedWrite(write[q], q)' /\ Contracted(write[q])'
  BY DEF ComInv, CountedWrite, Contracted, ContractRows
<1> QED BY <1>1, <1>2, <1>5, <1>6, WriteFrame

LEMMA TaskKept ==
  ASSUME ComInv, NEW x \in Tasks, WorkerTask(x) \/ TaskEnds(x) PROVE ComInv'
<1>1. x[1] \in Writes /\ active \subseteq Tasks
  BY DEF Tasks, ComInv, ComTypes
<1>2. CASE WorkerTask(x)
  <2>1. /\ write[x[1]].pc = "started" /\ active' = active \cup {x} /\ waived' = waived \cup {x}
        /\ UNCHANGED <<mode, order, plan, rows, crossed, top, dep, reg, write>>
    BY <1>2 DEF WorkerTask, licVars, conVars, depVars
  <2>2. \A p \in Writes : <<p, 1>> \in waived' /\ <<p, 1>> \notin waived => write[p].pc = "started"
    BY <2>1
  <2> QED BY <1>1, <2>1, <2>2, UncountedKept
<1>3. CASE TaskEnds(x)
  <2>1. /\ active' = active \ {x}
        /\ UNCHANGED <<mode, order, plan, rows, crossed, top, dep, reg, write, waived>>
    BY <1>3 DEF TaskEnds, licVars, conVars, depVars
  <2> QED BY <1>1, <2>1, UncountedKept
<1> QED BY <1>2, <1>3

(* The same for steps about deployments: tasks and requests stay.          *)
LEMMA DeploymentFrame ==
  ASSUME ComInv, UNCHANGED <<plan, mode, crossed, active, write>>,
         waived \subseteq waived', top <= top', ComTypes',
         rows' = rows \/ rows' = ContractRows(plan),
         \A g \in Registrars : reg'[g] = reg[g] \/ CountedReg(reg[g])',
         Cardinality(Live' \ waived') <= Room(top')
  PROVE  ComInv'
<1>1. ComTypes /\ top \in Nat /\ top' \in Nat
  BY DEF ComInv, ComTypes
<1>2. Cardinality(active' \ waived') <= top'
  <2>1. active \ waived \in SUBSET Tasks
    BY <1>1 DEF ComTypes
  <2>2. IsFiniteSet(active \ waived)
    BY <2>1, TasksFinite, Counting
  <2>3. active' \ waived' \in SUBSET (active \ waived)
    OBVIOUS
  <2>4. /\ Cardinality(active' \ waived') <= Cardinality(active \ waived)
        /\ Cardinality(active' \ waived') \in Nat /\ Cardinality(active \ waived) \in Nat
        /\ Cardinality(active \ waived) <= top
    BY <2>2, <2>3, Counting DEF ComInv
  <2> QED BY <1>1, <2>4
<1>3. ASSUME NEW p \in Writes PROVE CountedWrite(write[p], p)' /\ Contracted(write[p])'
  <2>1. CountedWrite(write[p], p) /\ Contracted(write[p]) /\ write[p] \in WriteRecords
    BY <1>1 DEF ComInv, ComTypes
  <2>2. write[p].count \in SUBSET Tasks
    BY <2>1 DEF WriteRecords
  <2>3. Cardinality(write[p].count) \in Nat
    BY <2>2, TasksFinite, Counting
  <2>4. CountedWrite(write[p], p)'
    BY <1>1, <2>1, <2>3 DEF CountedWrite
  <2>5. Contracted(write[p])'
    BY <2>1 DEF Contracted, ContractRows
  <2> QED BY <2>4, <2>5
<1>4. ASSUME NEW g \in Registrars, reg'[g] = reg[g] PROVE CountedReg(reg[g])'
  <2>1. CountedReg(reg[g])
    BY DEF ComInv
  <2>2. SUFFICES ASSUME reg[g].pc = "save" PROVE CountedReg(reg[g])'
    BY <1>4, <2>1 DEF CountedReg
  <2>3. reg[g].count \in SUBSET Deployments
    BY <2>1, <2>2 DEF CountedReg
  <2>4. IsFiniteSet(reg[g].count) /\ Cardinality(reg[g].count) \in Nat
    BY <2>3, CommercialAssumption, Counting
  <2>5. reg[g].count \ waived \in SUBSET reg[g].count
    OBVIOUS
  <2>6. IsFiniteSet(reg[g].count \ waived) /\ Cardinality(reg[g].count \ waived) \in Nat
    BY <2>4, <2>5, Counting
  <2>7. reg[g].count \ waived' \in SUBSET (reg[g].count \ waived)
    OBVIOUS
  <2>8. Cardinality(reg[g].count \ waived') <= Cardinality(reg[g].count \ waived)
        /\ Cardinality(reg[g].count \ waived') \in Nat
    BY <2>6, <2>7, Counting
  <2>9. Room(top) <= Room(top') /\ Room(top) \in Nat /\ Room(top') \in Nat
    BY <1>1, RoomGrows
  <2> QED BY <1>1, <1>4, <2>1, <2>4, <2>6, <2>8, <2>9 DEF CountedReg
<1> QED BY <1>2, <1>3, <1>4 DEF ComInv

(* The deployments that count and were let in by the limit are a number.   *)
LEMMA LiveCount ==
  ASSUME NEW T \in SUBSET Deployments
  PROVE  IsFiniteSet(T) /\ Cardinality(T) \in Nat
         /\ \A U \in SUBSET T : Cardinality(U) \in Nat /\ Cardinality(U) <= Cardinality(T)
<1>1. IsFiniteSet(T) /\ Cardinality(T) \in Nat
  BY CommercialAssumption, Counting
<1> QED BY <1>1, Counting

(* A token that becomes active: the deployment this system is becomes       *)
(* active too, without a limit if it had been revoked.                     *)
LEMMA ActivationKept ==
  ASSUME ComInv, NEW t \in Tokens, OwnDeploymentActive(t), order' \in Seq(Tokens),
         rows' = rows \/ rows' = ContractRows(plan),
         UNCHANGED <<mode, plan, crossed, write, active, reg, top>>
  PROVE  ComInv'
<1>1. /\ dep' = dep \/ dep' = [dep EXCEPT ![Own] = "ACTIVE"]
      /\ dep' # dep => dep[Own] # "NONE"
      /\ waived \subseteq waived'
      /\ dep' # dep /\ dep[Own] = "REVOKED" => Own \in waived'
  BY DEF OwnDeploymentActive
<1>2. ComTypes /\ top \in Nat
  BY DEF ComInv, ComTypes
<1>3. rows' \in [features : SUBSET Features, cap : Nat]
  BY <1>2, ContractType DEF ComTypes
<1>4. ComTypes'
  BY <1>1, <1>2, <1>3, CommercialAssumption DEF ComTypes
<1>5. Live \ waived \in SUBSET Deployments /\ Live' \ waived' \in SUBSET (Live \ waived)
  BY <1>1, <1>2, CommercialAssumption DEF ComTypes, Live
<1>6. Cardinality(Live' \ waived') <= Room(top')
  <2>1. /\ Cardinality(Live' \ waived') <= Cardinality(Live \ waived)
        /\ Cardinality(Live \ waived) <= Room(top)
        /\ Cardinality(Live' \ waived') \in Nat /\ Cardinality(Live \ waived) \in Nat
    BY <1>5, LiveCount DEF ComInv
  <2> QED BY <1>2, <2>1, RoomGrows
<1>7. top <= top'
  BY <1>2
<1> QED BY <1>1, <1>4, <1>6, <1>7, DeploymentFrame

LEMMA ContractsKept ==
  ASSUME ComInv, rows' = ContractRows(plan), order' \in Seq(Tokens),
         UNCHANGED <<mode, plan, crossed, write, active, reg, top, dep, waived>>
  PROVE  ComInv'
<1>1. ComTypes /\ top \in Nat
  BY DEF ComInv, ComTypes
<1>2. rows' \in [features : SUBSET Features, cap : Nat]
  BY <1>1, ContractType DEF ComTypes
<1>3. ComTypes'
  BY <1>1, <1>2 DEF ComTypes
<1>4. Live' = Live
  BY DEF Live
<1>5. Cardinality(Live' \ waived') <= Room(top')
  BY <1>4 DEF ComInv
<1>6. top <= top'
  BY <1>1
<1> QED BY <1>3, <1>5, <1>6, DeploymentFrame

LEMMA LicenceKept == ComInv /\ LicenceNext => ComInv'
<1> SUFFICES ASSUME ComInv, LicenceNext PROVE ComInv'
  OBVIOUS
<1>0. (UNCHANGED dep) => Live' = Live
  BY DEF Live
<1>1. ASSUME NEW t \in Tokens, ImportLicense(t) PROVE ComInv'
  <2>1. order' \in Seq(Tokens)
    BY <1>1 DEF ImportLicense, Activated, ComInv, ComTypes
  <2>2. /\ OwnDeploymentActive(t)
        /\ UNCHANGED <<mode, plan, rows, crossed, write, active, reg, top>>
    BY <1>1 DEF ImportLicense, conVars
  <2> QED BY <2>1, <2>2, ActivationKept
<1>2. ASSUME NEW t \in Tokens, LicenseExpires(t) PROVE ComInv'
  BY <1>2, ComQuiet DEF LicenseExpires, conVars, depVars
<1>3. CASE SeedCommercial
  <2>1. order' \in Seq(Tokens)
    <3>1. order \in Seq(Tokens)
      BY DEF ComInv, ComTypes
    <3>2. ASSUME Configured \in Tokens PROVE Activated(order, licence, Configured) \in Seq(Tokens)
      BY <3>1, <3>2 DEF Activated
    <3>3. order' = order \/ (Configured \in Tokens /\ order' = Activated(order, licence, Configured))
      BY <1>3 DEF SeedCommercial
    <3> QED BY <3>1, <3>2, <3>3
  <2>2. rows' = ContractRows(plan) /\ UNCHANGED <<mode, plan, crossed, write, active, reg, top>>
    BY <1>3 DEF SeedCommercial
  <2>3. (\E t \in Tokens : OwnDeploymentActive(t)) \/ UNCHANGED <<dep, waived>>
    BY <1>3 DEF SeedCommercial
  <2> QED BY <2>1, <2>2, <2>3, ActivationKept, ContractsKept
<1>4. ASSUME NEW p \in Plans, SetTenantSubscription(p) PROVE ComInv'
  <2>1. /\ plan' = p /\ UNCHANGED <<rows, crossed, mode, order, top, active, waived, dep, reg>>
        /\ write' = [q \in Writes |-> IF write[q].pc \in {"idle", "started", "done"} THEN write[q]
                                    ELSE [write[q] EXCEPT !.plans = @ \cup {p}]]
    BY <1>4 DEF SetTenantSubscription, licVars, depVars
  <2>2. \A q \in Writes : write[q] \in WriteRecords
    BY DEF ComInv, ComTypes
  <2>3. \A q \in Writes : write'[q] \in WriteRecords
    BY <2>1, <2>2 DEF WriteRecords
  <2>4. write' \in [Writes -> WriteRecords]
    BY <2>1, <2>3
  <2>5. ASSUME NEW q \in Writes PROVE CountedWrite(write[q], q)' /\ Contracted(write[q])'
    <3>1. CountedWrite(write[q], q) /\ Contracted(write[q]) /\ write[q] \in WriteRecords
      BY <2>2 DEF ComInv
    <3>2. CASE write[q].pc \in {"idle", "started", "done"}
      BY <2>1, <3>1, <3>2 DEF CountedWrite, Contracted
    <3>3. CASE write[q].pc \notin {"idle", "started", "done"}
      <4>1. write'[q] = [write[q] EXCEPT !.plans = @ \cup {p}]
        BY <2>1, <3>3
      <4>2. /\ write'[q].pc = write[q].pc /\ write'[q].count = write[q].count
            /\ write'[q].feature = write[q].feature /\ write'[q].plan = write[q].plan
            /\ write'[q].plans = write[q].plans \cup {p}
        BY <3>1, <4>1 DEF WriteRecords
      <4> QED BY <2>1, <3>1, <4>2 DEF CountedWrite, Contracted, ContractRows
    <3> QED BY <3>2, <3>3
  <2>6. ComTypes'
    BY <2>1, <2>4 DEF ComInv, ComTypes
  <2> QED BY <1>0, <2>1, <2>5, <2>6 DEF ComInv, CountedReg
<1> QED BY <1>1, <1>2, <1>3, <1>4 DEF LicenceNext

LEMMA CheckKept ==
  ASSUME ComInv, NEW g \in Registrars, NEW d \in Deployments, RegisterCheck(g, d) PROVE ComInv'
<1> DEFINE cap == CapWith(ContractRows(plan))
<1>1. /\ MayRegister(d, cap) /\ rows' = ContractRows(plan)
      /\ reg' = [reg EXCEPT ![g] = [pc |-> "save", d |-> d, was |-> dep[d], count |-> Live,
                 gives |-> IF InForce = {} THEN "REGISTERED" ELSE "ACTIVE", image |-> image[d]]]
      /\ top' = IF cap > top THEN cap ELSE top
      /\ waived' = IF cap = 0 THEN waived \cup {d} ELSE waived
      /\ UNCHANGED <<mode, order, plan, crossed, write, active, dep>>
  BY DEF RegisterCheck
<1>2. ComTypes /\ top \in Nat /\ ContractRows(plan) \in [features : SUBSET Features, cap : Nat]
  BY ContractType DEF ComInv, ComTypes
<1>3. cap \in Nat
  BY <1>2, CapIsNatural DEF ComTypes
<1> HIDE DEF cap
<1>4. top' \in Nat /\ top <= top' /\ cap <= top' /\ waived \subseteq waived'
  BY <1>1, <1>2, <1>3
<1>5. reg = [x \in Registrars |-> reg[x]]
  BY <1>2 DEF ComTypes
<1>6. /\ reg' = [x \in Registrars |-> reg'[x]] /\ \A x \in Registrars \ {g} : reg'[x] = reg[x]
      /\ reg'[g] = [pc |-> "save", d |-> d, was |-> dep[d], count |-> Live,
                   gives |-> IF InForce = {} THEN "REGISTERED" ELSE "ACTIVE", image |-> image[d]]
  BY <1>1, <1>5
<1>7. ComTypes'
  BY <1>1, <1>2, <1>4, <1>6 DEF ComTypes
<1>8. Live' = Live /\ Live \in SUBSET Deployments
  BY <1>1 DEF Live
<1>9. Cardinality(Live' \ waived') <= Room(top')
  <2>1. Live \ waived \in SUBSET Deployments /\ Live' \ waived' \in SUBSET (Live \ waived)
    BY <1>4, <1>8
  <2>2. Cardinality(Live' \ waived') <= Cardinality(Live \ waived) /\ Cardinality(Live \ waived) <= Room(top)
        /\ Cardinality(Live' \ waived') \in Nat /\ Cardinality(Live \ waived) \in Nat
    BY <2>1, LiveCount DEF ComInv
  <2> QED BY <1>2, <1>4, <2>2, RoomGrows
<1>10. CountedReg(reg[g])'
  <2>1. dep[d] = "NONE" /\ d \notin waived' => Cardinality(Live) < top'
    <3>1. dep[d] = "NONE" /\ d \notin waived' => Cardinality(Live) < cap
      BY <1>1 DEF MayRegister
    <3>2. Cardinality(Live) \in Nat
      BY <1>8, LiveCount
    <3> QED BY <1>3, <1>4, <3>1, <3>2
  <2>2. dep[d] \notin {"NONE", "REVOKED"} => d \in Live
    BY DEF Live
  <2> QED BY <1>6, <1>8, <1>9, <2>1, <2>2 DEF CountedReg
<1>11. \A x \in Registrars : reg'[x] = reg[x] \/ CountedReg(reg[x])'
  BY <1>6, <1>10
<1> QED BY <1>1, <1>4, <1>7, <1>9, <1>11, DeploymentFrame

LEMMA SaveKept ==
  ASSUME ComInv, NEW g \in Registrars, NEW x \in Digests \cup {NoDigest}, RegisterDeployment(g, x) PROVE ComInv'
<1> DEFINE r == reg[g]
           fails == r.was = "NONE" /\ dep[r.d] # "NONE"
<1>1. /\ r.pc = "save" /\ reg' = [reg EXCEPT ![g] = [IdleReg EXCEPT !.pc = "done"]]
      /\ dep' = (IF fails \/ r.gives = r.was THEN dep ELSE [dep EXCEPT ![r.d] = r.gives])
      /\ waived' = (IF r.was = "REVOKED" \/ ~(Live \subseteq r.count)
                     THEN waived \cup {r.d} ELSE waived)
      /\ UNCHANGED <<mode, order, plan, rows, crossed, write, active, top>>
  BY DEF RegisterDeployment, licVars, conVars
<1>2. ComTypes /\ top \in Nat /\ CountedReg(r) /\ reg = [h \in Registrars |-> reg[h]]
  BY DEF ComInv, ComTypes
<1> HIDE DEF fails
<1>3. /\ reg' = [h \in Registrars |-> reg'[h]] /\ reg'[g].pc = "done"
      /\ \A h \in Registrars \ {g} : reg'[h] = reg[h]
  <2>1. reg = [h \in Registrars |-> reg[h]] /\ reg' = [reg EXCEPT ![g] = [IdleReg EXCEPT !.pc = "done"]]
    BY <1>1, <1>2
  <2>2. [IdleReg EXCEPT !.pc = "done"].pc = "done"
    BY DEF IdleReg
  <2> QED BY <2>1, <2>2
<1>4. /\ r.d \in Deployments /\ r.count \subseteq Deployments /\ r.gives \in {"REGISTERED", "ACTIVE"}
      /\ r.was = "NONE" /\ r.d \notin waived => Cardinality(r.count) < top
      /\ r.was \notin {"NONE", "REVOKED"} =>
           r.d \in r.count /\ Cardinality(r.count \ waived) <= Room(top)
  BY <1>1, <1>2 DEF CountedReg
<1> HIDE DEF r
<1>5. ComTypes'
  BY <1>1, <1>2, <1>3, <1>4 DEF ComTypes
<1>6. Live' \subseteq Live \cup {r.d} /\ Live \in SUBSET Deployments /\ Live' \in SUBSET Deployments
  BY <1>1, <1>2, <1>4 DEF ComTypes, Live
<1>7. waived \subseteq waived'
  BY <1>1
<1>8. Cardinality(Live' \ waived') <= Room(top')
  <2>1. CASE r.d \in waived'
    <3>1. Live \ waived \in SUBSET Deployments /\ Live' \ waived' \in SUBSET (Live \ waived)
      BY <1>6, <1>7, <2>1
    <3>2. Cardinality(Live' \ waived') <= Cardinality(Live \ waived) /\ Cardinality(Live \ waived) <= Room(top)
          /\ Cardinality(Live' \ waived') \in Nat /\ Cardinality(Live \ waived) \in Nat
      BY <3>1, LiveCount DEF ComInv
    <3> QED BY <1>1, <1>2, <3>2, RoomGrows
  <2>2. CASE r.d \notin waived'
    <3>1. waived' = waived /\ Live \subseteq r.count /\ r.was # "REVOKED" /\ r.d \notin waived
      BY <1>1, <2>2
    <3>2. Live' \ waived' \in SUBSET Deployments
      BY <1>6
    <3>3. Cardinality(Live' \ waived') \in Nat
      BY <3>2, LiveCount
    <3>4. CASE r.was = "NONE"
      <4>1. Cardinality(r.count) < top
        BY <1>4, <3>1, <3>4
      <4>2. IsFiniteSet(r.count) /\ Cardinality(r.count) \in Nat
        BY <1>4, LiveCount
      <4>3. Live' \ waived' \in SUBSET (r.count \cup {r.d})
        BY <1>6, <3>1
      <4>4. Cardinality(Live' \ waived') <= Cardinality(r.count) + 1
        BY <4>2, <4>3, CountingOneMore
      <4> QED BY <1>1, <1>2, <3>3, <4>1, <4>2, <4>4, RoomGrows
    <3>5. CASE r.was # "NONE"
      <4>1. r.d \in r.count /\ Cardinality(r.count \ waived) <= Room(top)
        BY <1>4, <3>1, <3>5
      <4>2. r.count \ waived \in SUBSET Deployments /\ Live' \ waived' \in SUBSET (r.count \ waived)
        BY <1>4, <1>6, <3>1, <4>1
      <4>3. Cardinality(Live' \ waived') <= Cardinality(r.count \ waived)
            /\ Cardinality(r.count \ waived) \in Nat
        BY <4>2, LiveCount
      <4> QED BY <1>1, <1>2, <3>3, <4>1, <4>3, RoomGrows
    <3> QED BY <3>4, <3>5
  <2> QED BY <2>1, <2>2
<1>9. CountedReg(reg[g])'
  BY <1>3 DEF CountedReg
<1>10. \A h \in Registrars : reg'[h] = reg[h] \/ CountedReg(reg[h])'
  BY <1>3, <1>9
<1>11. top <= top'
  BY <1>1, <1>2
<1> QED BY <1>1, <1>5, <1>7, <1>8, <1>10, <1>11, DeploymentFrame

LEMMA HeartbeatKept ==
  ASSUME ComInv, NEW d \in Deployments, NEW st, NEW x, DeploymentHeartbeat(d, st, x) PROVE ComInv'
<1>1. /\ dep[d] # "NONE" /\ st \in {"ACTIVE", "DEGRADED", "REVOKED"}
      /\ dep' = [dep EXCEPT ![d] = st]
      /\ waived' = IF dep[d] = "REVOKED" THEN waived \cup {d} ELSE waived
      /\ UNCHANGED <<mode, order, plan, rows, crossed, write, active, top, reg>>
  BY DEF DeploymentHeartbeat, licVars, conVars
<1>2. ComTypes /\ top \in Nat
  BY DEF ComInv, ComTypes
<1>3. ComTypes'
  BY <1>1, <1>2 DEF ComTypes
<1>4. Live \ waived \in SUBSET Deployments /\ Live' \ waived' \in SUBSET (Live \ waived)
  BY <1>1, <1>2 DEF ComTypes, Live
<1>5. Cardinality(Live' \ waived') <= Cardinality(Live \ waived) /\ Cardinality(Live \ waived) <= Room(top)
      /\ Cardinality(Live' \ waived') \in Nat /\ Cardinality(Live \ waived) \in Nat
  BY <1>4, LiveCount DEF ComInv
<1>6. Cardinality(Live' \ waived') <= Room(top') /\ waived \subseteq waived' /\ top <= top'
  BY <1>1, <1>2, <1>5 DEF Room
<1> QED BY <1>1, <1>3, <1>6, DeploymentFrame

LEMMA ComKept == ComInv /\ [ComNext]_comVars => ComInv'
<1> SUFFICES ASSUME ComInv, [ComNext]_comVars PROVE ComInv'
  OBVIOUS
<1>1. CASE LicenceNext
  BY <1>1, LicenceKept
<1>2. CASE WriteNext
  BY <1>2, EnterKept, RowsKept, DecideKept, StartKept, TaskKept DEF WriteNext
<1>3. CASE RegisterNext
  BY <1>3, CheckKept, SaveKept DEF RegisterNext
<1>4. CASE ReportNext
  <2>1. ASSUME NEW x \in Digests, PublishRelease(x) PROVE ComInv'
    BY <2>1, ComQuiet DEF PublishRelease, licVars, conVars
  <2> QED BY <1>4, <2>1, HeartbeatKept DEF ReportNext
<1>5. CASE OnboardNext
  <2>1. UNCHANGED <<licVars, conVars, write, active, depVars, top, waived>>
    <3>1. ASSUME NEW a, NEW s, NEW completed, AdvanceOnboarding(a, s, completed)
          PROVE  UNCHANGED <<licVars, conVars, write, active, depVars, top, waived>>
      BY <3>1 DEF AdvanceOnboarding
    <3>2. ASSUME NEW a, AdvanceLoad(a)
          PROVE  UNCHANGED <<licVars, conVars, write, active, depVars, top, waived>>
      BY <3>2 DEF AdvanceLoad
    <3> QED BY <1>5, <3>1, <3>2 DEF OnboardNext, UpsertOnboarding
  <2> QED BY <2>1, ComQuiet DEF licVars, conVars, depVars
<1>6. CASE UNCHANGED comVars
  BY <1>6, ComQuiet DEF comVars
<1> QED BY <1>1, <1>2, <1>3, <1>4, <1>5, <1>6 DEF ComNext

(* EntitlementsHold (commercial_runtime's enforcement with                 *)
(* commercial_service.effective_entitlements and register_deployment): for *)
(* any plans, licences, requests and deployments, the limits bound what    *)
(* was compared with them, the first task of each request and the          *)
(* deployments, and nothing else: not the further tasks of a request nor   *)
(* those the worker of the SOPs starts, not what raced with another        *)
(* request or came while no limit was set, nor a deployment that returns.  *)
THEOREM LimitsHold == ComSpec => []EntitlementsHold
<1>1. ComInv => EntitlementsHold
  BY DEF ComInv, EntitlementsHold, Contracted, Room
<1> QED BY <1>1, ComInitially, ComKept, PTL DEF ComSpec

(***************************************************************************)
(* Business: copies, rows and the meter.                                   *)
(***************************************************************************)

LEMMA RowIsColumns ==
  ASSUME NEW r \in Rows
  PROVE  r = [c \in Columns |-> r[c]]
  BY DEF Rows, Columns

LEMMA FlushedRow ==
  ASSUME NEW cur \in Rows, NEW copy \in Rows, NEW new \in Rows
  PROVE  /\ Flushed(cur, copy, new) \in Rows
         /\ copy = new => Flushed(cur, copy, new) = cur
         /\ copy = cur => Flushed(cur, copy, new) = new
         /\ Flushed(cur, copy, new).mode = IF new.mode # copy.mode THEN new.mode ELSE cur.mode
<1> DEFINE f == Flushed(cur, copy, new)
<1>1. f = [c \in Columns |-> IF new[c] # copy[c] THEN new[c] ELSE cur[c]]
  BY DEF Flushed
<1>2. f \in Rows
  <2>1. f = [mode |-> f["mode"], verified |-> f["verified"], hash |-> f["hash"], base |-> f["base"]]
    BY <1>1 DEF Columns
  <2>2. /\ f["mode"] \in {"NONE", "ESTIMATED", "MANUAL"} /\ f["verified"] \in BOOLEAN
        /\ f["hash"] \in 0..MaxEvals /\ f["base"] \in {"fixed", "raw", "hand"}
    BY <1>1 DEF Rows, Columns
  <2> HIDE DEF f
  <2> QED BY <2>1, <2>2 DEF Rows
<1>3. copy = new => f = cur
  BY <1>1, RowIsColumns
<1>4. copy = cur => f = new
  BY <1>1, RowIsColumns
<1>5. f["mode"] = IF new["mode"] # copy["mode"] THEN new["mode"] ELSE cur["mode"]
  BY <1>1 DEF Columns
<1> QED BY <1>2, <1>3, <1>4, <1>5

SyncRecords == [pc : {"idle", "loaded", "written", "release"}, before : [Outcomes -> Rows],
                now : [Outcomes -> Rows], met : SUBSET Outcomes, made : SUBSET Outcomes]
HandRecords == [pc : {"idle", "loaded", "done"}, task : Outcomes, copy : Rows]

(* A row that a synchronisation did not find, and has not met since, is    *)
(* still missing, or what its first commit made of it; a row it found as   *)
(* an entry by hand it leaves as it is.                                    *)
Unmet(x) ==
  /\ \A k \in Outcomes \ x.met : x.before[k].mode = "NONE" =>
       /\ x.pc = "loaded" => row[k] = x.before[k]
       /\ x.pc = "written" => row[k] = x.now[k]
  /\ x.pc = "written" => \A k \in Outcomes : x.before[k].mode = "MANUAL" => x.now[k].mode = "MANUAL"

(* Where it met nobody, it counts what its first commit verified.          *)
CountsMade(x) == x.pc = "written" =>
  \A k \in Outcomes \ x.met : k \in x.made <=> NewlyVerified(x.before[k], x.now[k])

(* The verifications written and not yet counted.                          *)
Owed == {x \in Syncs \X Outcomes : sync[x[1]].pc = "written" /\ x[2] \in sync[x[1]].made}

Balanced ==
  /\ meter + Cardinality(Owed) <= due + encounters
  /\ due <= meter + Cardinality(Owed) + encounters

BusInv ==
  /\ BusTypeOK
  /\ \A s \in Syncs : Unmet(sync[s])
  /\ doubtful \/ (Balanced /\ \A s \in Syncs : CountsMade(sync[s]))

(* EntriesYieldToOldEstimates of one step.                                 *)
Stands ==
  \A k \in Outcomes : row[k].mode = "MANUAL" /\ row'[k] # row[k] =>
    /\ row'[k].mode = "MANUAL"
    /\ \/ \E h \in Hands : hand[h].task = k /\ hand[h].pc = "loaded" /\ hand'[h].pc = "done"
       \/ \E s \in Syncs : /\ sync[s].before[k].mode = "ESTIMATED"
                         /\ sync'[s].pc # sync[s].pc

LEMMA OwedCount == IsFiniteSet(Owed) /\ Cardinality(Owed) \in Nat
<1>1. IsFiniteSet(Syncs \X Outcomes)
  BY BusinessAssumption, FS_Product
<1>2. Owed \in SUBSET (Syncs \X Outcomes)
  BY DEF Owed
<1> QED BY <1>1, <1>2, Counting

(* A set of pairs grows by those of one synchronisation.                   *)
LEMMA OneMoreRow ==
  ASSUME NEW P, IsFiniteSet(P), NEW s, NEW T \in SUBSET Outcomes, \A x \in P : x[1] # s
  PROVE  Cardinality(P \cup ({s} \X T)) = Cardinality(P) + Cardinality(T)
<1>1. IsFiniteSet(T) /\ Cardinality(T) \in Nat
  BY BusinessAssumption, Counting
<1>2. IsFiniteSet({s}) /\ Cardinality({s}) = 1
  BY FS_Singleton
<1>3. IsFiniteSet({s} \X T) /\ Cardinality({s} \X T) = 1 * Cardinality(T)
  BY <1>1, <1>2, FS_Product
<1>4. P \cap ({s} \X T) = {}
  OBVIOUS
<1>5. Cardinality(P \cup ({s} \X T)) = Cardinality(P) + Cardinality({s} \X T) - Cardinality({})
  BY <1>3, <1>4, FS_Union
<1>6. Cardinality({}) = 0 /\ Cardinality(P) \in Nat
  BY FS_EmptySet, FS_CardinalityType
<1> QED BY <1>1, <1>3, <1>5, <1>6

(* Sets that agree outside a third one differ by its size at most.         *)
LEMMA ApartFrom ==
  ASSUME NEW A \in SUBSET Outcomes, NEW B \in SUBSET Outcomes, NEW C \in SUBSET Outcomes,
         \A k \in Outcomes \ C : k \in A <=> k \in B
  PROVE  /\ Cardinality(A) \in Nat /\ Cardinality(B) \in Nat /\ Cardinality(C) \in Nat
         /\ Cardinality(A) <= Cardinality(B) + Cardinality(C)
         /\ Cardinality(B) <= Cardinality(A) + Cardinality(C)
<1>1. /\ IsFiniteSet(A) /\ IsFiniteSet(B) /\ IsFiniteSet(C) /\ Cardinality(A) \in Nat
      /\ Cardinality(B) \in Nat /\ Cardinality(C) \in Nat
  BY BusinessAssumption, Counting
<1>2. ASSUME NEW X \in SUBSET Outcomes, NEW Y \in SUBSET Outcomes, X \subseteq Y \cup C,
             IsFiniteSet(Y)
      PROVE  Cardinality(X) <= Cardinality(Y) + Cardinality(C)
  <2>1. /\ IsFiniteSet(Y \cup C) /\ IsFiniteSet(Y \cap C)
        /\ Cardinality(Y \cup C) = Cardinality(Y) + Cardinality(C) - Cardinality(Y \cap C)
    BY <1>1, <1>2, FS_Union, FS_Intersection
  <2>2. Cardinality(X) \in Nat /\ Cardinality(X) <= Cardinality(Y \cup C)
    BY <1>2, <2>1, Counting
  <2>3. Cardinality(Y \cap C) \in Nat /\ Cardinality(Y) \in Nat /\ Cardinality(Y \cup C) \in Nat
    BY <1>2, <2>1, FS_CardinalityType
  <2> QED BY <1>1, <2>1, <2>2, <2>3
<1>3. A \subseteq B \cup C /\ B \subseteq A \cup C
  OBVIOUS
<1> QED BY <1>1, <1>2, <1>3

(* What the balance does not notice.                                       *)
LEMMA BalanceFrame ==
  ASSUME BusTypeOK, doubtful \/ Balanced, Owed' = Owed, doubtful => doubtful',
         encounters' = encounters, NEW d \in Nat, meter' = meter + d, due' = due + d
  PROVE  doubtful' \/ Balanced'
<1>1. meter \in Nat /\ due \in Nat /\ encounters \in Nat /\ Cardinality(Owed) \in Nat
  BY OwedCount DEF BusTypeOK
<1>2. Cardinality(Owed)' = Cardinality(Owed)
  OBVIOUS
<1> QED BY <1>1, <1>2 DEF Balanced

LEMMA IdleRecords == NoRow \in Rows /\ IdleSync \in SyncRecords /\ IdleHand \in HandRecords
<1>1. \E k \in Outcomes : TRUE
  BY BusinessAssumption
<1>2. NoRow \in Rows
  BY BusinessAssumption DEF NoRow, Rows
<1> QED BY <1>1, <1>2 DEF IdleSync, IdleHand, SyncRecords, HandRecords

LEMMA BusInitially == BusInit => BusInv
<1> SUFFICES ASSUME BusInit PROVE BusInv
  OBVIOUS
<1>2. NoRow \in Rows
  BY IdleRecords
<1>3. IdleSync \in SyncRecords /\ IdleHand \in HandRecords
  BY IdleRecords
<1>4. BusTypeOK
  <2>1. [k \in Outcomes |-> [verified |-> FALSE, hash |-> 0, n |-> 0]]
          \in [Outcomes -> [verified : BOOLEAN, hash : 0..MaxEvals, n : 0..MaxEvals]]
    BY BusinessAssumption
  <2>2. 0 \in 0..MaxLapses
    BY BusinessAssumption
  <2>3. [s \in Syncs |-> IdleSync] \in [Syncs -> SyncRecords]
        /\ [h \in Hands |-> IdleHand] \in [Hands -> HandRecords]
    BY <1>3
  <2>4. [k \in Outcomes |-> NoRow] \in [Outcomes -> Rows]
    BY <1>2
  <2> QED BY <2>1, <2>2, <2>3, <2>4 DEF BusInit, BusTypeOK, SyncRecords, HandRecords
<1>5. \A s \in Syncs : sync[s].pc = "idle"
  BY DEF BusInit, IdleSync
<1>6. Owed = {}
  BY <1>5 DEF Owed
<1>7. Balanced
  BY <1>6, FS_EmptySet DEF BusInit, Balanced
<1> QED BY <1>4, <1>5, <1>7 DEF BusInv, Unmet, CountsMade

(* A commit of another: nobody moves, and who works without having found a *)
(* row that it writes has met it.                                          *)
Bystander(z) ==
  /\ sync'[z] \in SyncRecords /\ sync'[z].pc = sync[z].pc /\ sync'[z].before = sync[z].before
  /\ sync'[z].now = sync[z].now /\ sync'[z].made = sync[z].made
  /\ sync[z].met \subseteq sync'[z].met
  /\ sync[z].pc \in {"loaded", "written"} =>
       \A k \in Outcomes \ sync'[z].met : sync[z].before[k].mode = "NONE" => row'[k] = row[k]

LEMMA MeetsBystander ==
  ASSUME BusTypeOK, NEW z \in Syncs, sync'[z] = Meets(row')[z]
  PROVE  Bystander(z)
<1>1. sync[z] \in SyncRecords
  BY DEF BusTypeOK, SyncRecords
<1> DEFINE seen == {k \in Outcomes : sync[z].before[k].mode = "NONE" /\ row'[k] # row[k]}
<1>2. sync'[z] = (IF sync[z].pc \in {"loaded", "written"}
                    THEN [sync[z] EXCEPT !.met = sync[z].met \cup seen] ELSE sync[z])
  BY DEF Meets
<1>3. CASE sync[z].pc \in {"loaded", "written"}
  <2>1. sync'[z] = [sync[z] EXCEPT !.met = sync[z].met \cup seen]
    BY <1>2, <1>3
  <2>2. seen \in SUBSET Outcomes
    OBVIOUS
  <2>3. /\ sync'[z] \in SyncRecords /\ sync'[z].pc = sync[z].pc
        /\ sync'[z].before = sync[z].before /\ sync'[z].now = sync[z].now
        /\ sync'[z].made = sync[z].made /\ sync'[z].met = sync[z].met \cup seen
    <3> HIDE DEF seen
    <3> QED BY <1>1, <2>1, <2>2 DEF SyncRecords
  <2> QED BY <2>3 DEF Bystander
<1>4. CASE sync[z].pc \notin {"loaded", "written"}
  <2>1. sync'[z] = sync[z]
    BY <1>2, <1>4
  <2> QED BY <1>1, <1>4, <2>1 DEF Bystander
<1> QED BY <1>3, <1>4

LEMMA BystanderKept ==
  ASSUME NEW z \in Syncs, Unmet(sync[z]), Bystander(z)
  PROVE  Unmet(sync[z])' /\ (CountsMade(sync[z]) => CountsMade(sync[z])')
  BY DEF Unmet, CountsMade, Bystander, NewlyVerified

LEMMA SyncLoads ==
  ASSUME BusInv, NEW s \in Syncs, LockSafeSync(s) PROVE BusInv'
<1> DEFINE new == [IdleSync EXCEPT !.pc = "loaded", !.before = row, !.now = row]
<1>1. /\ sync[s].pc = "idle" /\ lock' = s /\ sync' = [sync EXCEPT ![s] = new]
      /\ UNCHANGED <<latest, row, meter, hand, lapses, due, doubtful, encounters>>
  BY DEF LockSafeSync
<1>2. BusTypeOK /\ row \in [Outcomes -> Rows]
  BY DEF BusInv, BusTypeOK
<1>3. IdleSync \in SyncRecords
  BY IdleRecords
<1>4. new \in SyncRecords /\ new.pc = "loaded" /\ new.before = row
  BY <1>2, <1>3 DEF SyncRecords
<1> HIDE DEF new
<1>5. sync' \in [Syncs -> SyncRecords]
  BY <1>1, <1>2, <1>4 DEF BusTypeOK, SyncRecords
<1>6. BusTypeOK'
  BY <1>1, <1>2, <1>5 DEF BusTypeOK, SyncRecords
<1>7. sync'[s] = new /\ \A z \in Syncs \ {s} : sync'[z] = sync[z]
  BY <1>1, <1>2 DEF BusTypeOK
<1>8. \A z \in Syncs : Unmet(sync[z])' /\ (CountsMade(sync[z]) => CountsMade(sync[z])')
  <2>1. Unmet(sync[s])' /\ CountsMade(sync[s])'
    BY <1>1, <1>4, <1>7 DEF Unmet, CountsMade
  <2>2. ASSUME NEW z \in Syncs \ {s}
        PROVE  Unmet(sync[z])' /\ (CountsMade(sync[z]) => CountsMade(sync[z])')
    BY <1>1, <1>7 DEF BusInv, Unmet, CountsMade, NewlyVerified
  <2> QED BY <2>1, <2>2
<1>9. Owed' = Owed
  BY <1>1, <1>4, <1>7 DEF Owed
<1>10. meter' = meter + 0 /\ due' = due + 0 /\ (doubtful => doubtful') /\ encounters' = encounters
  BY <1>1, <1>2 DEF BusTypeOK
<1>11. doubtful' \/ Balanced'
  BY <1>2, <1>9, <1>10, BalanceFrame DEF BusInv
<1> QED BY <1>1, <1>6, <1>8, <1>11 DEF BusInv

(* The first commit writes the estimates over rows that are not entries by *)
(* hand as far as it knows, and where it wrote over nothing it had not     *)
(* read, it verified just the rows its copies say.                         *)
LEMMA OutcomesWritten ==
  ASSUME BusInv, NEW s \in Syncs, SyncOutcomes(s)
  PROVE  \E new \in [Outcomes -> Rows], made \in SUBSET Outcomes :
           /\ row' \in [Outcomes -> Rows]
           /\ sync' = [Meets(row') EXCEPT ![s] = [sync[s] EXCEPT !.pc = "written", !.now = new,
                                                                !.made = made]]
           /\ due' = due + Cardinality(made)
           /\ \A k \in Outcomes :
                /\ sync[s].before[k].mode = "MANUAL" => new[k].mode = "MANUAL"
                /\ sync[s].before[k].mode = "NONE" /\ k \notin sync[s].met => row'[k] = new[k]
                /\ ~doubtful' /\ k \notin sync[s].met =>
                     (k \in made <=> NewlyVerified(sync[s].before[k], new[k]))
                /\ row[k].mode = "MANUAL" /\ row'[k] # row[k] =>
                     row'[k].mode = "MANUAL" /\ sync[s].before[k].mode = "ESTIMATED"
<1> DEFINE Evaluated(k) == latest[k].hash > 0 /\ MayEstimate(Seen(s, k))
           new == [k \in Outcomes |-> IF Evaluated(k) THEN Estimate(k) ELSE Seen(s, k)]
           after == [k \in Outcomes |-> Flushed(row[k], Seen(s, k), new[k])]
           made == {k \in Outcomes : NewlyVerified(row[k], after[k])}
<1>1. /\ sync[s].pc = "loaded" /\ row' = after
      /\ sync' = [Meets(after) EXCEPT ![s] = [sync[s] EXCEPT !.pc = "written", !.now = new,
                                                            !.made = made]]
      /\ due' = due + Cardinality(made)
      /\ doubtful' = (doubtful \/ \E k \in Outcomes : Overwrites(row[k], Seen(s, k), new[k]))
  BY DEF SyncOutcomes
<1>2. BusTypeOK /\ row \in [Outcomes -> Rows] /\ sync[s] \in SyncRecords
      /\ latest \in [Outcomes -> [verified : BOOLEAN, hash : 0..MaxEvals, n : 0..MaxEvals]]
  BY DEF BusInv, BusTypeOK, SyncRecords
<1>3. \A k \in Outcomes : Seen(s, k) \in Rows
  BY <1>2 DEF Seen, SyncRecords
<1>4. \A k \in Outcomes : Estimate(k) \in Rows
  <2> SUFFICES ASSUME NEW k \in Outcomes PROVE Estimate(k) \in Rows
    OBVIOUS
  <2>1. latest[k].verified \in BOOLEAN /\ latest[k].hash \in 0..MaxEvals
    BY <1>2
  <2> QED BY <2>1 DEF Estimate, Rows
<1>5. new \in [Outcomes -> Rows]
  BY <1>3, <1>4
<1>6. \A k \in Outcomes : row[k] \in Rows /\ new[k] \in Rows
  BY <1>2, <1>5
<1>7. \A k \in Outcomes : after[k] = Flushed(row[k], Seen(s, k), new[k])
  OBVIOUS
<1>8. \A k \in Outcomes : after[k] \in Rows
  BY <1>3, <1>6, <1>7, FlushedRow
<1>9. after \in [Outcomes -> Rows]
  BY <1>8
<1>10. \A k \in Outcomes : \/ new[k] = Seen(s, k)
                           \/ Seen(s, k).mode # "MANUAL" /\ new[k].mode = "ESTIMATED"
  BY DEF MayEstimate, Estimate
<1>11. \A k \in Outcomes : k \in made <=> NewlyVerified(row[k], after[k])
  OBVIOUS
<1> HIDE DEF new, after, made
<1>12. ASSUME NEW k \in Outcomes
       PROVE  /\ sync[s].before[k].mode = "MANUAL" => new[k].mode = "MANUAL"
              /\ sync[s].before[k].mode = "NONE" /\ k \notin sync[s].met => after[k] = new[k]
              /\ ~doubtful' /\ k \notin sync[s].met =>
                   (k \in made <=> NewlyVerified(sync[s].before[k], new[k]))
              /\ row[k].mode = "MANUAL" /\ after[k] # row[k] =>
                   after[k].mode = "MANUAL" /\ sync[s].before[k].mode = "ESTIMATED"
  <2>1. sync[s].before[k] \in Rows
    BY <1>2 DEF SyncRecords
  <2>2. sync[s].before[k].mode = "NONE" => Seen(s, k) = row[k]
    BY DEF Seen
  <2>3. sync[s].before[k].mode # "NONE" => Seen(s, k) = sync[s].before[k]
    BY DEF Seen
  <2>4. sync[s].before[k].mode = "NONE" /\ k \notin sync[s].met => row[k] = sync[s].before[k]
    BY <1>1 DEF BusInv, Unmet
  <2>5. /\ Seen(s, k) = new[k] => after[k] = row[k]
        /\ Seen(s, k) = row[k] => after[k] = new[k]
        /\ after[k].mode = IF new[k].mode # Seen(s, k).mode THEN new[k].mode ELSE row[k].mode
    BY <1>3, <1>6, <1>7, FlushedRow
  <2>6. sync[s].before[k].mode = "MANUAL" => new[k].mode = "MANUAL"
    BY <1>10, <2>3
  <2>7. sync[s].before[k].mode = "NONE" /\ k \notin sync[s].met => after[k] = new[k]
    BY <2>2, <2>5
  <2>8. ASSUME ~doubtful', k \notin sync[s].met
        PROVE  k \in made <=> NewlyVerified(sync[s].before[k], new[k])
    <3>1. ~Overwrites(row[k], Seen(s, k), new[k])
      BY <1>1, <2>8
    <3>2. new[k] = Seen(s, k) \/ row[k] = Seen(s, k)
      BY <3>1 DEF Overwrites
    <3>3. Seen(s, k) = sync[s].before[k]
      BY <2>2, <2>3, <2>4, <2>8
    <3>4. CASE row[k] = Seen(s, k)
      BY <1>11, <2>5, <3>3, <3>4
    <3>5. CASE new[k] = Seen(s, k)
      BY <1>11, <2>5, <3>3, <3>5 DEF NewlyVerified
    <3> QED BY <3>2, <3>4, <3>5
  <2>9. ASSUME row[k].mode = "MANUAL", after[k] # row[k]
        PROVE  after[k].mode = "MANUAL" /\ sync[s].before[k].mode = "ESTIMATED"
    <3>1. Seen(s, k).mode # "MANUAL" /\ new[k].mode = "ESTIMATED"
      BY <1>10, <2>5, <2>9
    <3>2. sync[s].before[k].mode # "NONE" /\ Seen(s, k) = sync[s].before[k]
      BY <2>2, <2>3, <2>9, <3>1
    <3>3. sync[s].before[k].mode = "ESTIMATED"
      BY <2>1, <3>1, <3>2 DEF Rows
    <3> QED BY <2>5, <2>9, <3>1, <3>2, <3>3
  <2> QED BY <2>6, <2>7, <2>8, <2>9
<1>13. made \in SUBSET Outcomes
  BY DEF made
<1> QED BY <1>1, <1>5, <1>9, <1>12, <1>13

LEMMA OutcomesKept ==
  ASSUME BusInv, NEW s \in Syncs, SyncOutcomes(s) PROVE BusInv' /\ Stands
<1>1. PICK new \in [Outcomes -> Rows], made \in SUBSET Outcomes :
        /\ row' \in [Outcomes -> Rows]
        /\ sync' = [Meets(row') EXCEPT ![s] = [sync[s] EXCEPT !.pc = "written", !.now = new,
                                                             !.made = made]]
        /\ due' = due + Cardinality(made)
        /\ \A k \in Outcomes :
             /\ sync[s].before[k].mode = "MANUAL" => new[k].mode = "MANUAL"
             /\ sync[s].before[k].mode = "NONE" /\ k \notin sync[s].met => row'[k] = new[k]
             /\ ~doubtful' /\ k \notin sync[s].met =>
                  (k \in made <=> NewlyVerified(sync[s].before[k], new[k]))
             /\ row[k].mode = "MANUAL" /\ row'[k] # row[k] =>
                  row'[k].mode = "MANUAL" /\ sync[s].before[k].mode = "ESTIMATED"
  BY OutcomesWritten
<1>2. /\ sync[s].pc = "loaded" /\ (doubtful => doubtful') /\ doubtful' \in BOOLEAN
      /\ UNCHANGED <<latest, meter, lock, hand, lapses, encounters>>
  BY DEF SyncOutcomes
<1>3. BusTypeOK /\ sync[s] \in SyncRecords
  BY DEF BusInv, BusTypeOK, SyncRecords
<1>4. sync'[s] = [sync[s] EXCEPT !.pc = "written", !.now = new, !.made = made]
      /\ sync' = [z \in Syncs |-> sync'[z]] /\ \A z \in Syncs \ {s} : sync'[z] = Meets(row')[z]
  BY <1>1 DEF Meets
<1>5. /\ sync'[s].pc = "written" /\ sync'[s].now = new /\ sync'[s].before = sync[s].before
      /\ sync'[s].met = sync[s].met /\ sync'[s].made = made /\ sync'[s] \in SyncRecords
  BY <1>3, <1>4 DEF SyncRecords
<1>6. \A z \in Syncs \ {s} : Bystander(z)
  BY <1>3, <1>4, MeetsBystander
<1>7. Cardinality(made) \in Nat
  BY BusinessAssumption, Counting
<1>8. BusTypeOK'
  <2>1. \A z \in Syncs : sync'[z] \in SyncRecords
    BY <1>5, <1>6 DEF Bystander
  <2>2. sync' \in [Syncs -> SyncRecords]
    BY <1>4, <2>1
  <2>3. due' \in Nat
    BY <1>1, <1>3, <1>7 DEF BusTypeOK
  <2> QED BY <1>1, <1>2, <1>3, <2>2, <2>3 DEF BusTypeOK, SyncRecords
<1>9. \A z \in Syncs : Unmet(sync[z])'
  <2>1. Unmet(sync[s])'
    BY <1>1, <1>5 DEF Unmet
  <2> QED BY <1>6, <2>1, BystanderKept DEF BusInv
<1>10. ~doubtful' => \A z \in Syncs : CountsMade(sync[z])'
  <2>1. ~doubtful' => CountsMade(sync[s])'
    BY <1>1, <1>5 DEF CountsMade, NewlyVerified
  <2> QED BY <1>2, <1>6, <2>1, BystanderKept DEF BusInv
<1>11. ASSUME ~doubtful' PROVE Balanced'
  <2>1. Owed' = Owed \cup ({s} \X made)
    BY <1>2, <1>5, <1>6 DEF Owed, Bystander
  <2>2. \A x \in Owed : x[1] # s
    BY <1>2 DEF Owed
  <2>3. Cardinality(Owed)' = Cardinality(Owed) + Cardinality(made)
    BY <2>1, <2>2, OwedCount, OneMoreRow
  <2>4. meter \in Nat /\ due \in Nat /\ encounters \in Nat /\ Cardinality(Owed) \in Nat
    BY <1>3, OwedCount DEF BusTypeOK
  <2>5. /\ meter + Cardinality(Owed) <= due + encounters
        /\ due <= meter + Cardinality(Owed) + encounters
    BY <1>2, <1>11 DEF BusInv, Balanced
  <2>6. due' = due + Cardinality(made) /\ meter' = meter /\ encounters' = encounters
    BY <1>1, <1>2
  <2> QED BY <1>7, <2>3, <2>4, <2>5, <2>6 DEF Balanced
<1>12. Stands
  BY <1>1, <1>2, <1>5 DEF Stands
<1> QED BY <1>8, <1>9, <1>10, <1>11, <1>12 DEF BusInv

(* A session leaves entries by hand alone that it knew, and where it wrote *)
(* over nothing it had not read, it counts the rows it verified, but those *)
(* it met.                                                                 *)
LEMMA VerifiedCounted ==
  ASSUME BusInv, NEW s \in Syncs, CountVerified(s)
  PROVE  /\ row' \in [Outcomes -> Rows]
         /\ sync' = [Meets(row') EXCEPT ![s] = [IdleSync EXCEPT !.pc = "release"]]
         /\ \E counted \in SUBSET Outcomes :
              /\ meter' = meter + Cardinality(counted)
              /\ ~doubtful => \A k \in Outcomes \ sync[s].met : k \in counted <=> k \in sync[s].made
         /\ \A k \in Outcomes : row[k].mode = "MANUAL" /\ row'[k] # row[k] =>
              row'[k].mode = "MANUAL" /\ sync[s].before[k].mode = "ESTIMATED"
<1> DEFINE got == [k \in Outcomes |-> IF sync[s].before[k].mode = "NONE" THEN row[k]
                                     ELSE sync[s].now[k]]
           now == [k \in Outcomes |-> ApplyStableBaseline(got[k])]
           after == [k \in Outcomes |-> Flushed(row[k], got[k], now[k])]
           counted == Metered(sync[s].before, now)
<1>1. /\ sync[s].pc = "written" /\ row' = after
      /\ sync' = [Meets(after) EXCEPT ![s] = [IdleSync EXCEPT !.pc = "release"]]
      /\ meter' = meter + Cardinality(counted)
  BY DEF CountVerified, RecordUsage
<1>2. BusTypeOK /\ row \in [Outcomes -> Rows] /\ sync[s] \in SyncRecords
  BY DEF BusInv, BusTypeOK, SyncRecords
<1>3. \A k \in Outcomes : got[k] \in Rows /\ row[k] \in Rows /\ sync[s].before[k] \in Rows
  BY <1>2 DEF SyncRecords
<1>4. \A r \in Rows : /\ ApplyStableBaseline(r) \in Rows
                      /\ ApplyStableBaseline(r).verified = r.verified
                      /\ ApplyStableBaseline(r).hash = r.hash
                      /\ ApplyStableBaseline(r).mode = r.mode
                      /\ r.mode # "ESTIMATED" => ApplyStableBaseline(r) = r
  BY DEF ApplyStableBaseline, Rows
<1>5. \A k \in Outcomes : /\ sync[s].before[k].mode = "NONE" => got[k] = row[k]
                          /\ sync[s].before[k].mode # "NONE" => got[k] = sync[s].now[k]
  OBVIOUS
<1> HIDE DEF got
<1>6. \A k \in Outcomes : now[k] = ApplyStableBaseline(got[k])
  OBVIOUS
<1>7. \A k \in Outcomes : now[k] \in Rows
  BY <1>3, <1>4
<1>8. \A k \in Outcomes : after[k] = Flushed(row[k], got[k], now[k])
  OBVIOUS
<1> HIDE DEF now
<1>9. \A k \in Outcomes : after[k] \in Rows
  BY <1>3, <1>7, <1>8, FlushedRow
<1>10. after \in [Outcomes -> Rows]
  BY <1>9
<1>11. counted \in SUBSET Outcomes /\ \A k \in Outcomes : k \in counted <=> NewlyVerified(sync[s].before[k], now[k])
  BY DEF Metered
<1> HIDE DEF after, counted
<1>12. ASSUME ~doubtful, NEW k \in Outcomes \ sync[s].met
       PROVE  k \in counted <=> k \in sync[s].made
  <2>1. k \in sync[s].made <=> NewlyVerified(sync[s].before[k], sync[s].now[k])
    BY <1>1, <1>12 DEF BusInv, CountsMade
  <2>2. got[k] = sync[s].now[k]
    BY <1>1, <1>5 DEF BusInv, Unmet
  <2>3. now[k].verified = sync[s].now[k].verified /\ now[k].hash = sync[s].now[k].hash
    BY <1>3, <1>4, <1>6, <2>2
  <2> QED BY <1>11, <2>1, <2>3 DEF NewlyVerified
<1>13. ASSUME NEW k \in Outcomes, row[k].mode = "MANUAL", after[k] # row[k]
       PROVE  after[k].mode = "MANUAL" /\ sync[s].before[k].mode = "ESTIMATED"
  <2>1. /\ got[k] = now[k] => after[k] = row[k]
        /\ after[k].mode = IF now[k].mode # got[k].mode THEN now[k].mode ELSE row[k].mode
    BY <1>3, <1>7, <1>8, FlushedRow
  <2>2. got[k].mode = "ESTIMATED" /\ now[k].mode = got[k].mode
    BY <1>3, <1>4, <1>6, <1>13, <2>1
  <2>3. sync[s].before[k].mode # "NONE" /\ sync[s].now[k].mode = "ESTIMATED"
    BY <1>5, <1>13, <2>2
  <2>4. sync[s].before[k].mode # "MANUAL"
    BY <1>1, <2>3 DEF BusInv, Unmet
  <2>5. sync[s].before[k].mode = "ESTIMATED"
    BY <1>3, <2>3, <2>4 DEF Rows
  <2> QED BY <1>13, <2>1, <2>2, <2>5
<1> QED BY <1>1, <1>10, <1>11, <1>12, <1>13

LEMMA CountKept ==
  ASSUME BusInv, NEW s \in Syncs, CountVerified(s) PROVE BusInv' /\ Stands
<1>1. PICK counted \in SUBSET Outcomes :
        /\ meter' = meter + Cardinality(counted)
        /\ ~doubtful => \A k \in Outcomes \ sync[s].met : k \in counted <=> k \in sync[s].made
  BY VerifiedCounted
<1>2. /\ row' \in [Outcomes -> Rows]
      /\ sync' = [Meets(row') EXCEPT ![s] = [IdleSync EXCEPT !.pc = "release"]]
      /\ \A k \in Outcomes : row[k].mode = "MANUAL" /\ row'[k] # row[k] =>
           row'[k].mode = "MANUAL" /\ sync[s].before[k].mode = "ESTIMATED"
  BY VerifiedCounted
<1>3. /\ sync[s].pc = "written" /\ (doubtful => doubtful') /\ doubtful' \in BOOLEAN
      /\ encounters' = encounters + Cardinality(sync[s].met)
      /\ UNCHANGED <<latest, lock, hand, lapses, due>>
  BY DEF CountVerified
<1>4. BusTypeOK /\ sync[s] \in SyncRecords
  BY DEF BusInv, BusTypeOK, SyncRecords
<1>5. sync'[s] = [IdleSync EXCEPT !.pc = "release"]
      /\ sync' = [z \in Syncs |-> sync'[z]] /\ \A z \in Syncs \ {s} : sync'[z] = Meets(row')[z]
  BY <1>2 DEF Meets
<1>6. sync'[s] \in SyncRecords /\ sync'[s].pc = "release"
  BY <1>5, IdleRecords DEF SyncRecords
<1>7. sync'[s].before = [k \in Outcomes |-> NoRow]
  BY <1>5 DEF IdleSync
<1>8. \A z \in Syncs \ {s} : Bystander(z)
  BY <1>4, <1>5, MeetsBystander
<1>9. sync[s].made \in SUBSET Outcomes /\ sync[s].met \in SUBSET Outcomes
  BY <1>4 DEF SyncRecords
<1>10. /\ Cardinality(counted) \in Nat /\ Cardinality(sync[s].made) \in Nat
       /\ Cardinality(sync[s].met) \in Nat
  BY <1>9, BusinessAssumption, Counting
<1>11. BusTypeOK'
  <2>1. \A z \in Syncs : sync'[z] \in SyncRecords
    BY <1>6, <1>8 DEF Bystander
  <2>2. sync' \in [Syncs -> SyncRecords]
    BY <1>5, <2>1
  <2>3. meter' \in Nat /\ encounters' \in Nat
    BY <1>1, <1>3, <1>4, <1>10 DEF BusTypeOK
  <2> QED BY <1>2, <1>3, <1>4, <2>2, <2>3 DEF BusTypeOK, SyncRecords
<1>12. \A z \in Syncs : Unmet(sync[z])'
  <2>1. Unmet(sync[s])'
    BY <1>6 DEF Unmet
  <2> QED BY <1>8, <2>1, BystanderKept DEF BusInv
<1>13. ~doubtful' => \A z \in Syncs : CountsMade(sync[z])'
  <2>1. CountsMade(sync[s])'
    BY <1>6 DEF CountsMade
  <2> QED BY <1>3, <1>8, <2>1, BystanderKept DEF BusInv
<1>14. ASSUME ~doubtful' PROVE Balanced'
  <2>1. Owed = Owed' \cup ({s} \X sync[s].made)
    BY <1>3, <1>6, <1>8, <1>9 DEF Owed, Bystander
  <2>2. \A x \in Owed' : x[1] # s
    BY <1>6 DEF Owed
  <2>3. IsFiniteSet(Owed') /\ Cardinality(Owed') \in Nat
    <3>1. Owed' \in SUBSET Owed
      BY <2>1
    <3> QED BY <3>1, OwedCount, Counting
  <2>4. Cardinality(Owed) = Cardinality(Owed') + Cardinality(sync[s].made)
    BY <1>9, <2>1, <2>2, <2>3, OneMoreRow
  <2>5. /\ Cardinality(counted) <= Cardinality(sync[s].made) + Cardinality(sync[s].met)
        /\ Cardinality(sync[s].made) <= Cardinality(counted) + Cardinality(sync[s].met)
    BY <1>1, <1>3, <1>9, <1>14, ApartFrom
  <2>6. meter \in Nat /\ due \in Nat /\ encounters \in Nat
    BY <1>4 DEF BusTypeOK
  <2>7. /\ meter + Cardinality(Owed) <= due + encounters
        /\ due <= meter + Cardinality(Owed) + encounters
    BY <1>3, <1>14 DEF BusInv, Balanced
  <2>8. /\ meter' = meter + Cardinality(counted) /\ due' = due
        /\ encounters' = encounters + Cardinality(sync[s].met)
    BY <1>1, <1>3
  <2>9. meter' + Cardinality(Owed') <= due' + encounters'
    BY <1>10, <2>3, <2>4, <2>5, <2>6, <2>7, <2>8
  <2>10. due' <= meter' + Cardinality(Owed') + encounters'
    BY <1>10, <2>3, <2>4, <2>5, <2>6, <2>7, <2>8
  <2> QED BY <2>9, <2>10 DEF Balanced
<1>15. Stands
  BY <1>2, <1>3, <1>6 DEF Stands
<1> QED BY <1>11, <1>12, <1>13, <1>14, <1>15 DEF BusInv

(* Steps that touch neither rows nor the meter, and end no synchronisation *)
(* that has something to count without saying so.                          *)
Aside ==
  /\ UNCHANGED <<row, meter, due, encounters>> /\ BusTypeOK' /\ (doubtful => doubtful')
  /\ \A z \in Syncs :
       \/ sync'[z] = sync[z]
       \/ sync'[z] = IdleSync /\ (sync[z].pc = "written" => sync[z].made = {} \/ doubtful')

LEMMA IdleStep == BusInv /\ Aside => BusInv' /\ Stands
<1> SUFFICES ASSUME BusInv, Aside PROVE BusInv' /\ Stands
  OBVIOUS
<1>1. BusTypeOK /\ IdleSync.pc = "idle"
  BY DEF BusInv, IdleSync
<1>2. \A z \in Syncs : Unmet(sync[z])' /\ (CountsMade(sync[z]) => CountsMade(sync[z])')
  <2> SUFFICES ASSUME NEW z \in Syncs
               PROVE  Unmet(sync[z])' /\ (CountsMade(sync[z]) => CountsMade(sync[z])')
    OBVIOUS
  <2>1. Unmet(sync[z])
    BY DEF BusInv
  <2>2. CASE sync'[z] = sync[z]
    BY <2>1, <2>2 DEF Aside, Unmet, CountsMade, NewlyVerified
  <2>3. CASE sync'[z] = IdleSync
    BY <1>1, <2>3 DEF Unmet, CountsMade
  <2> QED BY <2>2, <2>3 DEF Aside
<1>3. CASE doubtful'
  BY <1>2, <1>3 DEF BusInv, Aside, Stands
<1>4. CASE ~doubtful'
  <2>1. Owed' = Owed
    BY <1>1, <1>4 DEF Aside, Owed
  <2>2. meter' = meter + 0 /\ due' = due + 0 /\ encounters' = encounters /\ (doubtful => doubtful')
    BY <1>1 DEF BusTypeOK, Aside
  <2>3. doubtful' \/ Balanced'
    BY <1>1, <2>1, <2>2, BalanceFrame DEF BusInv
  <2> QED BY <1>2, <1>4, <2>3 DEF BusInv, Aside, Stands
<1> QED BY <1>3, <1>4

LEMMA ReleaseKept ==
  ASSUME BusInv, NEW s \in Syncs, ReleaseLock(s) PROVE BusInv' /\ Stands
<1>1. /\ sync[s].pc = "release" /\ sync' = [sync EXCEPT ![s] = IdleSync]
      /\ lock' \in {NoOne, lock}
      /\ UNCHANGED <<latest, row, meter, hand, lapses, due, doubtful, encounters>>
  BY DEF ReleaseLock
<1>2. BusTypeOK'
  BY <1>1, IdleRecords DEF BusInv, BusTypeOK, SyncRecords
<1>3. \A z \in Syncs : sync'[z] = sync[z] \/ (sync'[z] = IdleSync /\ sync[z].pc # "written")
  BY <1>1 DEF BusInv, BusTypeOK
<1>4. Aside
  BY <1>1, <1>2, <1>3 DEF Aside
<1> QED BY <1>4, IdleStep

LEMMA BreakKept ==
  ASSUME BusInv, NEW s \in Syncs, SyncBreaks(s) PROVE BusInv' /\ Stands
<1>1. /\ sync' = [sync EXCEPT ![s] = IdleSync] /\ lapses < MaxLapses /\ lapses' = lapses + 1
      /\ lock' \in {NoOne, lock} /\ UNCHANGED <<latest, row, meter, hand, due, encounters>>
      /\ doubtful' = (doubtful \/ sync[s].made # {})
  BY DEF SyncBreaks
<1>2. BusTypeOK'
  <2>1. lapses' \in 0..MaxLapses
    BY <1>1, BusinessAssumption DEF BusInv, BusTypeOK
  <2>2. doubtful' \in BOOLEAN
    BY <1>1
  <2> QED BY <1>1, <2>1, <2>2, IdleRecords DEF BusInv, BusTypeOK, SyncRecords
<1>3. \A z \in Syncs : \/ sync'[z] = sync[z]
                       \/ sync'[z] = IdleSync /\ (sync[z].made = {} \/ doubtful')
  BY <1>1 DEF BusInv, BusTypeOK
<1>4. UNCHANGED <<row, meter, due, encounters>> /\ (doubtful => doubtful')
  BY <1>1
<1>5. Aside
  BY <1>2, <1>3, <1>4 DEF Aside
<1> QED BY <1>5, IdleStep

LEMMA ExpiryKept == BusInv /\ LockExpires => BusInv' /\ Stands
<1> SUFFICES ASSUME BusInv, LockExpires PROVE BusInv' /\ Stands
  OBVIOUS
<1>1. /\ lock' = NoOne /\ lapses' \in {lapses, lapses + 1} /\ (lapses' = lapses \/ lapses < MaxLapses)
      /\ UNCHANGED <<latest, row, meter, sync, hand, due, doubtful, encounters>>
  BY DEF LockExpires
<1>2. lapses' \in 0..MaxLapses
  BY <1>1, BusinessAssumption DEF BusInv, BusTypeOK
<1>3. BusTypeOK'
  BY <1>1, <1>2 DEF BusInv, BusTypeOK
<1>4. Aside
  BY <1>1, <1>3 DEF Aside
<1> QED BY <1>4, IdleStep

LEMMA EvaluateKept ==
  ASSUME BusInv, NEW k \in Outcomes, NEW v \in BOOLEAN, NEW x \in 1..MaxEvals, Evaluate(k, v, x)
  PROVE  BusInv' /\ Stands
<1>1. /\ latest[k].n < MaxEvals
      /\ latest' = [latest EXCEPT ![k] = [verified |-> v, hash |-> x, n |-> latest[k].n + 1]]
      /\ UNCHANGED <<row, meter, lock, sync, hand, lapses, due, doubtful, encounters>>
  BY DEF Evaluate
<1>2. [verified |-> v, hash |-> x, n |-> latest[k].n + 1]
        \in [verified : BOOLEAN, hash : 0..MaxEvals, n : 0..MaxEvals]
  BY <1>1, BusinessAssumption DEF BusInv, BusTypeOK
<1>3. BusTypeOK'
  BY <1>1, <1>2 DEF BusInv, BusTypeOK
<1>4. Aside
  BY <1>1, <1>3 DEF Aside
<1> QED BY <1>4, IdleStep

LEMMA HandLoadsKept ==
  ASSUME BusInv, NEW h \in Hands, NEW k \in Outcomes, HandLoads(h, k) PROVE BusInv' /\ Stands
<1>1. /\ hand' = [hand EXCEPT ![h] = [pc |-> "loaded", task |-> k, copy |-> row[k]]]
      /\ UNCHANGED <<latest, row, meter, lock, sync, lapses, due, doubtful, encounters>>
  BY DEF HandLoads
<1>2. BusTypeOK /\ row[k] \in Rows
  BY DEF BusInv, BusTypeOK
<1>3. hand' \in [Hands -> HandRecords]
  BY <1>1, <1>2 DEF BusTypeOK, HandRecords
<1>4. BusTypeOK'
  BY <1>1, <1>2, <1>3 DEF BusTypeOK, HandRecords
<1>5. Aside
  BY <1>1, <1>4 DEF Aside
<1> QED BY <1>5, IdleStep

(* An entry that wrote over nothing it had not read is metered by what     *)
(* happens to the row.                                                     *)
LEMMA EntryCounted ==
  ASSUME BusInv, NEW h \in Hands, NEW v \in BOOLEAN, NEW x \in 0..MaxEvals,
         UpsertManualOutcome(h, v, x)
  PROVE  /\ row' \in [Outcomes -> Rows]
         /\ \E n \in Nat, m \in Nat :
              meter' = meter + n /\ due' = due + m /\ (~doubtful' => n = m)
         /\ \A k \in Outcomes : row[k].mode = "MANUAL" /\ row'[k] # row[k] =>
              k = hand[h].task /\ row'[k].mode = "MANUAL"
<1> DEFINE k == hand[h].task
           new == [mode |-> "MANUAL", verified |-> v, hash |-> x, base |-> "hand"]
           fails == hand[h].copy.mode = "NONE" /\ row[k].mode # "NONE"
           after == IF fails THEN row ELSE [row EXCEPT ![k] = Flushed(row[k], hand[h].copy, new)]
           n == IF ~fails /\ NewlyVerifiedByHand(hand[h].copy, new) THEN 1 ELSE 0
           m == IF ~fails /\ NewlyVerifiedByHand(row[k], after[k]) THEN 1 ELSE 0
<1>1. /\ hand[h].pc = "loaded" /\ row' = after /\ meter' = meter + n /\ due' = due + m
      /\ doubtful' = (doubtful \/ (~fails /\ Overwrites(row[k], hand[h].copy, new)))
  BY DEF UpsertManualOutcome, RecordUsage
<1>2. BusTypeOK /\ row \in [Outcomes -> Rows] /\ hand[h] \in HandRecords
  BY DEF BusInv, BusTypeOK, HandRecords
<1>3. k \in Outcomes /\ hand[h].copy \in Rows /\ row[k] \in Rows
  BY <1>2 DEF HandRecords
<1>4. new \in Rows /\ new.mode = "MANUAL"
  BY DEF Rows
<1> HIDE DEF k, new
<1>5. /\ Flushed(row[k], hand[h].copy, new) \in Rows
      /\ hand[h].copy = row[k] => Flushed(row[k], hand[h].copy, new) = new
      /\ hand[h].copy = new => Flushed(row[k], hand[h].copy, new) = row[k]
      /\ Flushed(row[k], hand[h].copy, new).mode =
           IF new.mode # hand[h].copy.mode THEN new.mode ELSE row[k].mode
  BY <1>3, <1>4, FlushedRow
<1>6. after \in [Outcomes -> Rows]
  BY <1>2, <1>3, <1>5
<1>7. /\ ~fails => after[k] = Flushed(row[k], hand[h].copy, new)
      /\ fails => after = row
      /\ \A j \in Outcomes \ {k} : after[j] = row[j]
  BY <1>2, <1>3
<1> HIDE DEF after
<1>8. ASSUME ~doubtful' PROVE n = m
  <2>1. CASE fails
    BY <2>1
  <2>2. CASE ~fails
    <3>1. hand[h].copy = row[k] \/ hand[h].copy = new
      BY <1>1, <1>8, <2>2 DEF Overwrites
    <3>2. CASE hand[h].copy = row[k]
      <4>1. after[k] = new
        BY <1>5, <1>7, <2>2, <3>2
      <4> HIDE DEF fails
      <4> QED BY <3>2, <4>1
    <3>3. CASE hand[h].copy = new
      <4>1. after[k] = row[k]
        BY <1>5, <1>7, <2>2, <3>3
      <4>2. ~NewlyVerifiedByHand(hand[h].copy, new) /\ ~NewlyVerifiedByHand(row[k], after[k])
        BY <3>3, <4>1 DEF NewlyVerifiedByHand
      <4> QED BY <4>2
    <3> QED BY <3>1, <3>2, <3>3
  <2> QED BY <2>1, <2>2
<1>9. n \in {0, 1} /\ m \in {0, 1}
  OBVIOUS
<1>10. ASSUME NEW j \in Outcomes, row[j].mode = "MANUAL", after[j] # row[j]
       PROVE  j = k /\ after[j].mode = "MANUAL"
  <2>1. j = k /\ ~fails
    BY <1>7, <1>10
  <2>2. after[j] = Flushed(row[k], hand[h].copy, new)
    BY <1>7, <2>1
  <2> HIDE DEF fails
  <2> QED BY <1>4, <1>5, <1>10, <2>1, <2>2
<1> HIDE DEF n, m
<1> QED BY <1>1, <1>6, <1>8, <1>9, <1>10 DEF k

LEMMA EntryKept ==
  ASSUME BusInv, NEW h \in Hands, NEW v \in BOOLEAN, NEW x \in 0..MaxEvals,
         UpsertManualOutcome(h, v, x)
  PROVE  BusInv' /\ Stands
<1>1. PICK n \in Nat, m \in Nat :
        meter' = meter + n /\ due' = due + m /\ (~doubtful' => n = m)
  BY EntryCounted
<1>2. /\ row' \in [Outcomes -> Rows]
      /\ \A k \in Outcomes : row[k].mode = "MANUAL" /\ row'[k] # row[k] =>
           k = hand[h].task /\ row'[k].mode = "MANUAL"
  BY EntryCounted
<1>3. /\ hand[h].pc = "loaded" /\ sync' = Meets(row')
      /\ hand' = [hand EXCEPT ![h] = [IdleHand EXCEPT !.pc = "done"]]
      /\ (doubtful => doubtful') /\ doubtful' \in BOOLEAN
      /\ UNCHANGED <<latest, lock, lapses, encounters>>
  BY DEF UpsertManualOutcome
<1>4. BusTypeOK
  BY DEF BusInv
<1>5. [IdleHand EXCEPT !.pc = "done"] \in HandRecords /\ [IdleHand EXCEPT !.pc = "done"].pc = "done"
  BY IdleRecords DEF HandRecords
<1>6. hand'[h].pc = "done" /\ hand' \in [Hands -> HandRecords]
  BY <1>3, <1>4, <1>5 DEF BusTypeOK, HandRecords
<1>7. sync' = [z \in Syncs |-> sync'[z]] /\ \A z \in Syncs : sync'[z] = Meets(row')[z]
  BY <1>3 DEF Meets
<1>8. \A z \in Syncs : Bystander(z)
  BY <1>4, <1>7, MeetsBystander
<1>9. BusTypeOK'
  <2>1. sync' \in [Syncs -> SyncRecords]
    BY <1>7, <1>8 DEF Bystander
  <2>2. meter' \in Nat /\ due' \in Nat
    BY <1>1, <1>4 DEF BusTypeOK
  <2> QED BY <1>2, <1>3, <1>4, <1>6, <2>1, <2>2 DEF BusTypeOK, SyncRecords, HandRecords
<1>10. \A z \in Syncs : Unmet(sync[z])' /\ (CountsMade(sync[z]) => CountsMade(sync[z])')
  BY <1>8, BystanderKept DEF BusInv
<1>11. ASSUME ~doubtful' PROVE Balanced'
  <2>1. Owed' = Owed
    BY <1>8 DEF Owed, Bystander
  <2>2. meter' = meter + n /\ due' = due + n /\ encounters' = encounters /\ (doubtful => doubtful')
    BY <1>1, <1>3, <1>11
  <2>3. doubtful' \/ Balanced'
    BY <1>4, <2>1, <2>2, BalanceFrame DEF BusInv
  <2> QED BY <1>11, <2>3
<1>12. Stands
  BY <1>2, <1>3, <1>6 DEF Stands
<1> QED BY <1>3, <1>9, <1>10, <1>11, <1>12 DEF BusInv

LEMMA BusKept == BusInv /\ [BusNext]_busVars => BusInv' /\ Stands
<1> SUFFICES ASSUME BusInv, [BusNext]_busVars PROVE BusInv' /\ Stands
  OBVIOUS
<1>1. ASSUME NEW s \in Syncs, LockSafeSync(s) PROVE BusInv' /\ Stands
  <2>1. UNCHANGED row
    BY <1>1 DEF LockSafeSync
  <2> QED BY <1>1, <2>1, SyncLoads DEF Stands
<1>2. ASSUME NEW s \in Syncs, SyncStep(s) PROVE BusInv' /\ Stands
  BY <1>1, <1>2, OutcomesKept, CountKept, ReleaseKept DEF SyncStep
<1>3. ASSUME NEW s \in Syncs, SyncBreaks(s) PROVE BusInv' /\ Stands
  BY <1>3, BreakKept
<1>4. CASE LockExpires
  BY <1>4, ExpiryKept
<1>5. ASSUME NEW h \in Hands, NEW k \in Outcomes, HandLoads(h, k) PROVE BusInv' /\ Stands
  BY <1>5, HandLoadsKept
<1>6. ASSUME NEW h \in Hands, NEW v \in BOOLEAN, NEW x \in 0..MaxEvals, UpsertManualOutcome(h, v, x)
      PROVE  BusInv' /\ Stands
  BY <1>6, EntryKept
<1>7. ASSUME NEW k \in Outcomes, NEW v \in BOOLEAN, NEW x \in 1..MaxEvals, Evaluate(k, v, x)
      PROVE  BusInv' /\ Stands
  BY <1>7, EvaluateKept
<1>8. CASE UNCHANGED busVars
  <2>1. UNCHANGED <<row, meter, due, encounters, sync>> /\ (doubtful => doubtful')
    BY <1>8 DEF busVars
  <2>2. BusTypeOK'
    BY <1>8 DEF BusInv, BusTypeOK, busVars
  <2>3. Aside
    BY <2>1, <2>2 DEF Aside
  <2> QED BY <2>3, IdleStep
<1> QED BY <1>2, <1>3, <1>4, <1>5, <1>6, <1>7, <1>8 DEF BusNext

(* MeterErrsByEncounters (business_hardening.idempotent_sync_outcomes and  *)
(* business_route_hardening.upsert_manual_outcome_hardened): unless        *)
(* somebody wrote over what he had not read or a synchronisation broke off *)
(* with something to count, the meter is off by one at most for each row   *)
(* that a synchronisation met without having found it, for any number of   *)
(* outcomes, workers and entries by hand.                                  *)
THEOREM MeteringErrsByEncounters == BusSpec => []MeterErrsByEncounters
<1>1. BusInv => MeterErrsByEncounters
  <2> SUFFICES ASSUME BusInv, ~doubtful, \A s \in Syncs : sync[s].pc # "written"
               PROVE  meter <= due + encounters /\ due <= meter + encounters
    BY DEF MeterErrsByEncounters
  <2>1. Owed = {}
    BY DEF Owed
  <2>2. Cardinality(Owed) = 0
    BY <2>1, FS_EmptySet
  <2>3. meter \in Nat /\ due \in Nat /\ encounters \in Nat
    BY DEF BusInv, BusTypeOK
  <2> QED BY <2>2, <2>3 DEF BusInv, Balanced
<1> QED BY <1>1, BusInitially, BusKept, PTL DEF BusSpec

(* EntriesYieldToOldEstimates (business_service.sync_outcomes, which       *)
(* leaves MANUAL rows out): no synchronisation changes an entry made by    *)
(* hand unless it had loaded the row as an estimate, and none takes the    *)
(* mark of the entry away.                                                 *)
THEOREM EntriesStand == BusSpec => EntriesYieldToOldEstimates
<1>1. BusInv /\ [BusNext]_busVars => [Stands]_busVars
  BY BusKept
<1>2. EntriesYieldToOldEstimates <=> [][Stands]_busVars
  BY DEF EntriesYieldToOldEstimates, Stands
<1> QED BY <1>1, <1>2, BusInitially, BusKept, PTL DEF BusSpec
=============================================================================
