------------------------------ MODULE Enterprise ------------------------------
(***************************************************************************)
(* The tenant layer (phase 12): which tenant a resource belongs to, who is *)
(* let in to it, and the pull interfaces of the external back-up runner    *)
(* and of the external SIEM.                                               *)
(*                                                                         *)
(* A mission made by POST /api/missions is scoped to its tenant in the     *)
(* transaction that creates it.  The missions of protocol tasks and of SOP *)
(* runs, and SOP templates, are created by the older layers, which commit; *)
(* the tenant layer scopes them in a second commit.  Between the two, and  *)
(* for ever when the process dies there, the resource has no owner: a      *)
(* mission then counts as the default tenant's, a template as anybody's,   *)
(* and every start of a replica gives what has no owner to the default     *)
(* tenant.                                                                 *)
(*                                                                         *)
(* The gate of the middleware looks at the resource that the path of a     *)
(* request names (or its parameter mission_key).  A key in the body, as of *)
(* the MCP tools and of webhooks, goes to its handler, which asks for no   *)
(* tenant.                                                                 *)
(*                                                                         *)
(* Left out: the listings (filters by scoped key), token formats, the      *)
(* deployment sites, the clock inside a minute (a window simply passes).   *)
(***************************************************************************)
EXTENDS Naturals, FiniteSets, Sequences

CONSTANTS
  Tenants, DefaultTenant, NoTenant,
  Missions,       \* missions made by any of the three ways
  Templates,      \* SOP templates
  Subjects,       \* people of the identity provider
  Keys,           \* API keys
  Home,           \* the tenant of a credential's identity
  Managers,       \* credentials whose identity may name another tenant
  Exporters,      \* SIEM collectors polling one sink
  Limit,          \* requests per minute of one identity in one tenant
  Page,           \* the export's page size
  MaxAudit, MaxStarts, MaxPolls   \* bounds of the model

ASSUME EnterpriseAssumption ==
  /\ DefaultTenant \in Tenants /\ NoTenant \notin Tenants
  /\ Missions \cap Templates = {} /\ Subjects \cap Keys = {}
  /\ Home \in [Subjects \cup Keys -> Tenants] /\ Managers \subseteq Subjects \cup Keys
  /\ Limit \in Nat \ {0} /\ Page \in Nat \ {0}

Resources == Missions \cup Templates
Credentials == Subjects \cup Keys

VARIABLES
  owner,      \* enterprise_resource_scopes: the tenant of a resource
  maker,      \* the tenant whose request created the resource
  stage,      \* "none", "created" (first commit), "scoped", "lost" (died between)
  exposed,    \* resources that were once committed without an owner
  claimed,    \* resources that somebody else than their maker's request scoped
  strangers,  \* <<resource, way>>: another tenant's request was let in, by its path or body
  cred,       \* sessions and API keys: "none", "live", "ended"
  used,       \* requests counted in this minute, by credential and tenant
  starts,     \* starts of replicas so far
  audit,      \* the tenant of each audit record, by id
  cursor,     \* SIEMSink.last_audit_id
  poll,       \* the collectors
  polls,      \* polls begun
  received,   \* ids of the records the SIEM holds
  backup      \* the status of the one BackupRun

entVars == <<owner, maker, stage, exposed, claimed, strangers, cred, used, starts,
             audit, cursor, poll, polls, received, backup>>
scopeVars == <<owner, maker, stage, exposed, claimed>>
gateVars == <<strangers, cred, used>>
siemVars == <<audit, cursor, poll, polls, received>>

NoPoll == [pc |-> "idle", after |-> 0, got |-> {}, copy |-> 0]

EntInit ==
  /\ owner = [r \in Resources |-> NoTenant] /\ maker = [r \in Resources |-> NoTenant]
  /\ stage = [r \in Resources |-> "none"] /\ exposed = {} /\ claimed = {} /\ strangers = {}
  /\ cred = [c \in Credentials |-> "none"]
  /\ used = [c \in Credentials |-> [t \in Tenants |-> 0]] /\ starts = 0
  /\ audit = <<>> /\ cursor = 0 /\ poll = [x \in Exporters |-> NoPoll] /\ polls = 0
  /\ received = {} /\ backup = "none"

(***************************************************************************)
(* Ownership.                                                              *)
(***************************************************************************)

ScopeResourceMutant(own, R, t) == [r \in Resources |-> IF r \in R THEN t ELSE own[r]]

\* The first row stands: the key is unique and nobody updates it.
ScopeResource(own, R, t) == [r \in Resources |->
  IF r \in R /\ own[r] = NoTenant THEN t ELSE own[r]]

\* The mission of a tenant request, scoped by the same commit.
CreateTenantMission(r, t) ==
  /\ r \in Missions /\ stage[r] = "none"
  /\ stage' = [stage EXCEPT ![r] = "scoped"] /\ maker' = [maker EXCEPT ![r] = t]
  /\ owner' = ScopeResource(owner, {r}, t)
  /\ UNCHANGED <<exposed, claimed, gateVars, starts, siemVars, backup>>

\* create_protocol_task, instantiate_run or create_sop_template has committed.
CreateUnscoped(r, t) ==
  /\ stage[r] = "none"
  /\ stage' = [stage EXCEPT ![r] = "created"] /\ maker' = [maker EXCEPT ![r] = t]
  /\ exposed' = exposed \cup {r}
  /\ UNCHANGED <<owner, claimed, gateVars, starts, siemVars, backup>>

\* The second commit of enterprise_create_protocol_task, enterprise_instantiate_run
\* and create_tenant_sop_template.
ScopeCreated(r) ==
  /\ stage[r] = "created"
  /\ stage' = [stage EXCEPT ![r] = "scoped"]
  /\ owner' = ScopeResource(owner, {r}, maker[r])
  /\ UNCHANGED <<maker, exposed, claimed, gateVars, starts, siemVars, backup>>

\* The process dies between the two commits.
CrashBetween(r) ==
  /\ stage[r] = "created" /\ stage' = [stage EXCEPT ![r] = "lost"]
  /\ UNCHANGED <<owner, maker, exposed, claimed, gateVars, starts, siemVars, backup>>

\* The client sends the same protocol message again: the task is found by its
\* idempotency key and scoped after all.  A template is refused: it exists.
RetryCreate(r) ==
  /\ r \in Missions /\ stage[r] = "lost"
  /\ stage' = [stage EXCEPT ![r] = "created"]
  /\ UNCHANGED <<owner, maker, exposed, claimed, gateVars, starts, siemVars, backup>>

Made(r) == stage[r] # "none"

\* A replica starts: what has no owner becomes the default tenant's.
SeedEnterprise ==
  LET open == {r \in Resources : Made(r) /\ owner[r] = NoTenant /\ maker[r] # DefaultTenant} IN
  /\ starts < MaxStarts /\ starts' = starts + 1
  /\ owner' = ScopeResource(owner, {r \in Resources : Made(r)}, DefaultTenant)
  /\ claimed' = claimed \cup open
  /\ UNCHANGED <<maker, stage, exposed, gateVars, siemVars, backup>>

\* The tenant of a resource as the gates see it: a template without an owner is
\* open to everybody, a mission without one belongs to the default tenant.
AllowedTenants(r) ==
  IF owner[r] # NoTenant THEN {owner[r]}
  ELSE IF r \in Templates THEN Tenants ELSE {DefaultTenant}

\* A tenant runs a template, by its path, an MCP tool or a webhook: the run scopes
\* the template too.  One that has an owner keeps it, whoever runs it.
RunTemplate(r, t) ==
  /\ r \in Templates /\ Made(r) /\ owner[r] = NoTenant
  /\ owner' = ScopeResource(owner, {r}, t)
  /\ claimed' = IF t = maker[r] THEN claimed ELSE claimed \cup {r}
  /\ UNCHANGED <<maker, stage, exposed, gateVars, starts, siemVars, backup>>

(***************************************************************************)
(* Who is let in.                                                          *)
(***************************************************************************)

\* The single-sign-on exchange: identity, role, membership (all with unique keys)
\* and session in one commit.  Of two first logins at once one fails and is repeated.
ExchangeOidcToken(s) ==
  /\ s \in Subjects /\ cred[s] = "none" /\ cred' = [cred EXCEPT ![s] = "live"]
  /\ UNCHANGED <<scopeVars, strangers, used, starts, siemVars, backup>>

CreateApiKey(k) ==
  /\ k \in Keys /\ cred[k] = "none" /\ cred' = [cred EXCEPT ![k] = "live"]
  /\ UNCHANGED <<scopeVars, strangers, used, starts, siemVars, backup>>

\* A key is revoked, or a session or a key expires; only a session comes back.
EndCredential(c) ==
  /\ cred[c] = "live"
  /\ cred' = [cred EXCEPT ![c] = IF c \in Keys THEN "ended" ELSE "none"]
  /\ UNCHANGED <<scopeVars, strangers, used, starts, siemVars, backup>>

\* The tenants a credential may act in.
TenantsOf(c) == IF c \in Managers THEN Tenants ELSE {Home[c]}

\* The counter of the minute is incremented and its new value compared; what it counts
\* past the limit makes no difference.
RateLimit(c, t) == used[c][t] < Limit

\* mission_for_request and sop_tenant_ownership find what the path names; nothing
\* looks for the key that the body of a call of MCP or of a webhook carries.
Passes(t, r, way) == way = "body" \/ t \in AllowedTenants(r)

\* The middleware: credential, tenant, rate, ownership of the resource named.
Visit(c, t, r, way) ==
  /\ cred[c] = "live" /\ t \in TenantsOf(c) /\ Made(r)
  /\ used' = IF RateLimit(c, t) THEN [used EXCEPT ![c][t] = @ + 1] ELSE used
  /\ strangers' = IF RateLimit(c, t) /\ Passes(t, r, way) /\ t # maker[r]
                    THEN strangers \cup {<<r, way>>} ELSE strangers
  /\ UNCHANGED <<scopeVars, cred, starts, siemVars, backup>>

\* The next minute has a counter of its own.
NextWindow ==
  /\ used' = [c \in Credentials |-> [t \in Tenants |-> 0]]
  /\ UNCHANGED <<scopeVars, strangers, cred, starts, siemVars, backup>>

(***************************************************************************)
(* The SIEM collector pulls records after the sink's cursor, delivers them *)
(* and then moves the cursor; several collectors may serve one sink.  The  *)
(* collector is external, the export and the checkpoint are handlers.      *)
(***************************************************************************)

\* A request of tenant t is audited: ids are given in commit order.
AuditOf(t) ==
  /\ Len(audit) < MaxAudit /\ audit' = Append(audit, t)
  /\ UNCHANGED <<scopeVars, gateVars, starts, cursor, poll, polls, received, backup>>

PollBegin(x) ==
  /\ poll[x].pc = "idle" /\ polls < MaxPolls /\ polls' = polls + 1
  /\ poll' = [poll EXCEPT ![x] = [NoPoll EXCEPT !.pc = "export", !.after = cursor]]
  /\ UNCHANGED <<scopeVars, gateVars, starts, audit, cursor, received, backup>>

AuditExportMutant(after) ==
  LET ids == {i \in (after + 1)..Len(audit) : audit[i] = DefaultTenant} IN
  {i \in ids : Cardinality({j \in ids : j > i}) < Page}

\* The first Page records of the sink's tenant after the cursor, in the order of ids.
AuditExport(after) ==
  LET ids == {i \in (after + 1)..Len(audit) : audit[i] = DefaultTenant} IN
  {i \in ids : Cardinality({j \in ids : j < i}) < Page}

ExportRecords(x) ==
  /\ poll[x].pc = "export"
  /\ poll' = [poll EXCEPT ![x].pc = "deliver", ![x].got = AuditExport(poll[x].after)]
  /\ UNCHANGED <<scopeVars, gateVars, starts, audit, cursor, polls, received, backup>>

Deliver(x) ==
  /\ poll[x].pc = "deliver"
  /\ received' = received \cup poll[x].got
  /\ poll' = [poll EXCEPT ![x].pc = "read"]
  /\ UNCHANGED <<scopeVars, gateVars, starts, audit, cursor, polls, backup>>

\* next_after_id of the export's answer.
NextAfter(p) == IF p.got = {} THEN p.after ELSE CHOOSE i \in p.got : \A j \in p.got : j <= i

\* The checkpoint handler loads the sink ...
CheckpointRead(x) ==
  /\ poll[x].pc = "read"
  /\ poll' = [poll EXCEPT ![x].pc = "commit", ![x].copy = cursor]
  /\ UNCHANGED <<scopeVars, gateVars, starts, audit, cursor, polls, received, backup>>

\* ... and writes the greater of the two, if that differs from what it loaded.
CheckpointSiemSink(x) ==
  /\ poll[x].pc = "commit"
  /\ cursor' = IF NextAfter(poll[x]) > poll[x].copy THEN NextAfter(poll[x]) ELSE cursor
  /\ poll' = [poll EXCEPT ![x] = NoPoll]
  /\ UNCHANGED <<scopeVars, gateVars, starts, audit, polls, received, backup>>

\* A collector dies or its call is lost; it polls again later.
PollLost(x) ==
  /\ poll[x].pc # "idle" /\ poll' = [poll EXCEPT ![x] = NoPoll]
  /\ UNCHANGED <<scopeVars, gateVars, starts, audit, cursor, polls, received, backup>>

(***************************************************************************)
(* A back-up is requested and its runner, external, calls back; a repeated *)
(* or late call overwrites what an earlier one said.                       *)
(***************************************************************************)
RequestBackupRun ==
  /\ backup = "none" /\ backup' = "REQUESTED"
  /\ UNCHANGED <<scopeVars, gateVars, starts, siemVars>>

CompleteBackupRun(st) ==
  /\ backup # "none" /\ backup' = st
  /\ UNCHANGED <<scopeVars, gateVars, starts, siemVars>>

ScopeNext ==
  \/ \E r \in Resources : \/ ScopeCreated(r) \/ CrashBetween(r) \/ RetryCreate(r)
                          \/ \E t \in Tenants : \/ CreateTenantMission(r, t)
                                               \/ CreateUnscoped(r, t)
                                               \/ RunTemplate(r, t)
  \/ SeedEnterprise

GateNext ==
  \/ \E s \in Subjects : ExchangeOidcToken(s)
  \/ \E k \in Keys : CreateApiKey(k)
  \/ \E c \in Credentials : \/ EndCredential(c)
                            \/ \E t \in Tenants, r \in Resources, way \in {"path", "body"} : Visit(c, t, r, way)
  \/ NextWindow

PullNext ==
  \/ \E t \in Tenants : AuditOf(t)
  \/ \E x \in Exporters : \/ PollBegin(x) \/ ExportRecords(x) \/ Deliver(x)
                          \/ CheckpointRead(x) \/ CheckpointSiemSink(x) \/ PollLost(x)
  \/ RequestBackupRun
  \/ \E st \in {"COMPLETED", "FAILED", "PARTIAL"} : CompleteBackupRun(st)

EntNext == ScopeNext \/ GateNext \/ PullNext

(***************************************************************************)
(* Properties.                                                             *)
(***************************************************************************)

\* What is made stays its maker's: a resource that its maker's request has scoped is
\* the maker's for good, unless it was made by a handler that commits before it scopes
\* and, while it had no owner, a start of a replica or another tenant's run of the
\* template took it.  And by a path that names it nobody but the maker's tenant gets
\* at it, but for resources of such handlers.  Keys in a body are let in unchecked
\* (phase11_app.py:722 and 875), so nothing is claimed of them but that the owner stays.
\* docs/PHASE-12-ENTERPRISE-PLATFORM.md:88 knows of neither exception.
TenantsAreIsolated ==
  /\ claimed \subseteq exposed
  /\ \A r \in Resources : stage[r] = "scoped" /\ r \notin claimed => owner[r] = maker[r]
  /\ \A r \in Resources : <<r, "path">> \in strangers => r \in exposed

\* The cursor of the SIEM sink never passes a record of its tenant that the SIEM does
\* not hold, whatever collectors run at once and wherever one of them dies.
NothingIsSkipped ==
  \A i \in 1..cursor : audit[i] = DefaultTenant => i \in received
=============================================================================
