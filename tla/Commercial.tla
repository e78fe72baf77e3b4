------------------------------ MODULE Commercial ------------------------------
(***************************************************************************)
(* The commercial edition (phase 14) for one tenant: its licences, the     *)
(* contract its subscription gives, the enforcement of both on every write *)
(* request, the deployments it may register, its onboarding and the        *)
(* readiness derived from them.                                            *)
(*                                                                         *)
(* A write request copies the plan of the subscription into entitlement    *)
(* rows, commits, and then decides with the rows it reads back and with    *)
(* the licence in force; the work itself starts after the decision.  The   *)
(* same check-then-create order holds for deployments, agents and tenants. *)
(*                                                                         *)
(* Left out: signatures and claims of tokens (a token is valid until it    *)
(* expires, and lists features and a limit), branding, the views.          *)
(***************************************************************************)
EXTENDS Naturals, FiniteSets, SequencesExt

CONSTANTS
  Plans, Features,
  PlanFeatures, PlanCap,      \* what a billing plan contracts for
  Tokens,                     \* licence tokens
  TokenFeatures, TokenCap,    \* their claims
  Configured,                 \* BEEZA_LICENSE_TOKEN, or none of the tokens
  Writes,                     \* write requests that start tasks
  MaxBatch,                   \* bound: tasks of one request in progress at a time
  Deployments, Registrars,    \* deployments, and requests registering one
  Own,                        \* DEPLOYMENT_ID: the deployment this system is
  Digests, NoDigest,          \* image digests
  Steps, Advances,            \* onboarding steps, and requests advancing one
  MaxChanges                  \* bound: administrative changes

ASSUME CommercialAssumption ==
  /\ PlanFeatures \in [Plans -> (SUBSET Features) \ {{}}] /\ PlanCap \in [Plans -> Nat]
  /\ TokenFeatures \in [Tokens -> SUBSET Features] /\ TokenCap \in [Tokens -> Nat]
  /\ IsFiniteSet(Writes) /\ IsFiniteSet(Deployments)
  /\ MaxBatch \in Nat /\ Own \in Deployments

VARIABLES
  mode,        \* BEEZA_LICENSE_MODE: "enforce" or "warn"
  plan,        \* the plan of the active subscription
  rows,        \* CONTRACT entitlements: the features enabled and the limit
  licence,     \* status of a token's row; "NONE" before its import
  order,       \* the tokens, by activated_at
  dead,        \* tokens past their expiry
  write,       \* the write requests
  active,      \* tasks in progress, <<the request they come from, a number>>
  dep,         \* status of a deployment; "NONE" before its registration
  image,       \* the digest a deployment last reported
  release,     \* the digest of the newest published, signed release
  reg,         \* the registrations
  onboard,     \* the onboarding row: [status, done]
  adv,         \* the advances
  changes,     \* administrative changes so far
  top,         \* ghost: the largest limit that was ever in force
  waived,      \* ghost: tasks and deployments no limit was compared with
  crossed,     \* ghost: a request wrote the rows of a plan that had been replaced
  overlapped   \* ghost: an advance wrote over another one

comVars == <<mode, plan, rows, licence, order, dead, write, active, dep, image,
             release, reg, onboard, adv, changes, top, waived, crossed, overlapped>>
licVars == <<mode, licence, order, dead>>
conVars == <<plan, rows, crossed>>
depVars == <<dep, image, release, reg>>
onbVars == <<onboard, adv, overlapped>>

IdleWrite == [pc |-> "idle", feature |-> CHOOSE f \in Features : TRUE,
              plan |-> CHOOSE p \in Plans : TRUE, plans |-> {}, count |-> {}]
IdleReg == [pc |-> "idle", d |-> CHOOSE d \in Deployments : TRUE, was |-> "NONE",
            gives |-> "NONE", count |-> {}, image |-> NoDigest]
IdleAdv == [pc |-> "idle", copy |-> [status |-> "IN_PROGRESS", done |-> {}], late |-> FALSE]

\* The default tenant of a system running in mode m under plan p, with at most one
\* licence imported; its own deployment was registered at the start.
ComInit(m, p, T) ==
  /\ mode = m /\ plan = p
  /\ rows = [features |-> {}, cap |-> 0]
  /\ licence = [t \in Tokens |-> IF t \in T THEN "ACTIVE" ELSE "NONE"]
  /\ order = SetToSeq(T) /\ dead = {}
  /\ write = [q \in Writes |-> IdleWrite] /\ active = {}
  /\ dep = [d \in Deployments |-> IF d # Own THEN "NONE"
                                  ELSE IF T = {} THEN "REGISTERED" ELSE "ACTIVE"]
  /\ image = [d \in Deployments |-> NoDigest]
  /\ release = {} /\ reg = [g \in Registrars |-> IdleReg]
  /\ onboard = [status |-> "NONE", done |-> {}] /\ adv = [a \in Advances |-> IdleAdv]
  /\ changes = 0 /\ top = 0 /\ waived = {} /\ crossed = FALSE /\ overlapped = FALSE

(***************************************************************************)
(* Licences and entitlements.                                              *)
(***************************************************************************)

\* The licence in force: the one activated last of those active and not expired.
InForce ==
  LET good == {i \in 1..Len(order) : licence[order[i]] = "ACTIVE" /\ order[i] \notin dead}
  IN IF good = {} THEN {} ELSE {order[CHOOSE i \in good : \A j \in good : j <= i]}

\* Reading it marks the expired ones that were activated after it.
Marked == [t \in Tokens |->
  IF /\ licence[t] = "ACTIVE" /\ t \in dead
     /\ \A u \in InForce : \E i, j \in 1..Len(order) :
          i < j /\ order[i] = u /\ order[j] = t
    THEN "EXPIRED" ELSE licence[t]]

\* A licensed feature counts if the contract has it, or if there is no contract.
EffectiveFeatures ==
  UNION {IF rows.features = {} THEN TokenFeatures[t] ELSE TokenFeatures[t] \cap rows.features
           : t \in InForce}

\* The smaller of the positive limits; 0 is "no limit", as it is without a licence.
CapWith(contract) ==
  LET caps == (UNION {{TokenCap[t], contract.cap} : t \in InForce}) \ {0} IN
  IF caps = {} THEN 0 ELSE CHOOSE n \in caps : \A m \in caps : n <= m
EffectiveCap == CapWith(rows)

\* What an import does to the licences: a token imported before is active again and
\* nothing else changes; a new one revokes the others.
ActivateLicense(lic, t) == [u \in Tokens |->
  IF u = t THEN "ACTIVE"
  ELSE IF lic[t] = "NONE" /\ lic[u] = "ACTIVE" THEN "REVOKED" ELSE lic[u]]

Activated(ord, lic, t) == IF lic[t] = "NONE" THEN Append(ord, t) ELSE ord

\* A new token also sets this system's own deployment, revoked or not, to ACTIVE; no
\* limit is compared then.
OwnDeploymentActive(t) ==
  IF licence[t] = "NONE" /\ dep[Own] # "NONE"
    THEN /\ dep' = [dep EXCEPT ![Own] = "ACTIVE"]
         /\ waived' = IF dep[Own] = "REVOKED" THEN waived \cup {Own} ELSE waived
    ELSE UNCHANGED <<dep, waived>>

Change == changes < MaxChanges /\ changes' = changes + 1

ImportLicense(t) ==
  /\ Change /\ t \notin dead
  /\ licence' = ActivateLicense(licence, t) /\ order' = Activated(order, licence, t)
  /\ OwnDeploymentActive(t)
  /\ UNCHANGED <<mode, dead, conVars, write, active, image, release, reg, onbVars, top>>

LicenseExpires(t) ==
  /\ Change /\ dead' = dead \cup {t} /\ t \notin dead
  /\ UNCHANGED <<mode, licence, order, conVars, write, active, depVars, onbVars, top, waived>>

\* set_entitlements: the rows of a plan replace those of any other.
ContractRows(p) == [features |-> PlanFeatures[p], cap |-> PlanCap[p]]

\* A replica starts: the contract rows are brought up to date and the configured token
\* is imported, again if it was imported before.
SeedCommercial ==
  /\ Change
  /\ rows' = ContractRows(plan)
  /\ IF Configured \in Tokens \ dead
       THEN /\ licence' = ActivateLicense(licence, Configured)
            /\ order' = Activated(order, licence, Configured)
            /\ OwnDeploymentActive(Configured)
       ELSE UNCHANGED <<licence, order, dep, waived>>
  /\ UNCHANGED <<mode, dead, plan, crossed, write, active, image, release, reg, onbVars, top>>

SetTenantSubscription(p) ==
  /\ Change /\ p # plan /\ plan' = p
  /\ write' = [q \in Writes |-> IF write[q].pc \in {"idle", "started", "done"} THEN write[q]
                                ELSE [write[q] EXCEPT !.plans = @ \cup {p}]]
  /\ UNCHANGED <<licVars, rows, crossed, active, depVars, onbVars, top, waived>>

(***************************************************************************)
(* The enforcement of a write request.                                     *)
(***************************************************************************)
EnterWrite(q, f) ==
  /\ write[q].pc = "idle"
  /\ write' = [write EXCEPT ![q] = [IdleWrite EXCEPT !.pc = "rows", !.feature = f,
                                      !.plan = plan, !.plans = {plan}]]
  /\ UNCHANGED <<licVars, conVars, active, depVars, onbVars, changes, top, waived>>

\* The rows are rewritten for the plan the request read when it came.
SyncContractEntitlements(q) ==
  /\ write[q].pc = "rows"
  /\ rows' = ContractRows(write[q].plan)
  /\ crossed' = (crossed \/ (write[q].plan # plan /\ rows' # rows))
  /\ write' = [write EXCEPT ![q].pc = "decide"]
  /\ UNCHANGED <<licVars, plan, active, depVars, onbVars, changes, top, waived>>

AllowedMutant(f) ==
  IF InForce = {} THEN mode = "warn"
  ELSE f \in EffectiveFeatures /\ (EffectiveCap = 0 \/ Cardinality(active) <= EffectiveCap)

\* Whether the request may go on: licence, feature, and the limit on tasks.
Allowed(f) ==
  IF InForce = {} THEN mode = "warn"
  ELSE f \in EffectiveFeatures /\ (EffectiveCap = 0 \/ Cardinality(active) < EffectiveCap)

LicenseEnforcement(q) ==
  /\ write[q].pc = "decide"
  /\ licence' = Marked
  /\ write' = [write EXCEPT ![q].pc = IF Allowed(write[q].feature) THEN "serve" ELSE "done",
                            ![q].count = active]
  /\ top' = IF EffectiveCap > top THEN EffectiveCap ELSE top
  /\ waived' = IF EffectiveCap = 0 THEN waived \cup {<<q, 1>>} ELSE waived
  /\ UNCHANGED <<mode, order, dead, conVars, active, depVars, onbVars, changes>>

Tasks == Writes \X (1..MaxBatch)

\* The handler behind the middleware starts n tasks: none, the one of a handoff, or
\* those of a decision in a meeting or of the first steps of an SOP.
StartTasks(q, n) ==
  LET new == {<<q, i>> : i \in 1..n} IN
  /\ write[q].pc = "serve" /\ active' = active \cup new
  /\ write' = [write EXCEPT ![q].pc = "started"]
  /\ waived' = waived \cup (IF active \subseteq write[q].count THEN new \ {<<q, 1>>}
                            ELSE new \cup {<<q, 1>>})
  /\ UNCHANGED <<licVars, conVars, depVars, onbVars, changes, top>>

\* The worker of the SOPs starts the next tasks of a run that a request started, and a
\* task that was set aside (REVISION, ESCALATED) or reopened counts again, under any
\* licence and whatever the limit.
WorkerTask(x) ==
  /\ write[x[1]].pc = "started" /\ x \notin active
  /\ active' = active \cup {x} /\ waived' = waived \cup {x}
  /\ UNCHANGED <<licVars, conVars, write, depVars, onbVars, changes, top>>

TaskEnds(x) ==
  /\ x \in active /\ active' = active \ {x}
  /\ UNCHANGED <<licVars, conVars, write, depVars, onbVars, changes, top, waived>>

(***************************************************************************)
(* Deployments and releases.                                               *)
(***************************************************************************)
Live == {d \in Deployments : dep[d] \notin {"NONE", "REVOKED"}}

\* A known deployment is not compared with the limit, whatever its status.
MayRegister(d, cap) == dep[d] # "NONE" \/ cap = 0 \/ Cardinality(Live) < cap

\* The limit is read with the contract rows rewritten and committed.
RegisterCheck(g, d) ==
  LET cap == CapWith(ContractRows(plan)) IN
  /\ reg[g].pc = "idle" /\ MayRegister(d, cap)
  /\ rows' = ContractRows(plan) /\ licence' = Marked
  /\ reg' = [reg EXCEPT ![g] = [pc |-> "save", d |-> d, was |-> dep[d], count |-> Live,
               gives |-> IF InForce = {} THEN "REGISTERED" ELSE "ACTIVE", image |-> image[d]]]
  /\ top' = IF cap > top THEN cap ELSE top
  /\ waived' = IF cap = 0 THEN waived \cup {d} ELSE waived
  /\ UNCHANGED <<mode, order, dead, plan, crossed, write, active, dep, image, release,
                 onbVars, changes>>

\* The row is inserted or updated with the digest x the request gives; an insertion
\* that comes second fails, and a column that was the same is not written.
RegisterDeployment(g, x) ==
  LET r == reg[g]
      fails == r.was = "NONE" /\ dep[r.d] # "NONE" IN
  /\ r.pc = "save" /\ reg' = [reg EXCEPT ![g] = [IdleReg EXCEPT !.pc = "done"]]
  /\ dep' = IF fails \/ r.gives = r.was THEN dep ELSE [dep EXCEPT ![r.d] = r.gives]
  /\ image' = IF fails \/ x = r.image THEN image ELSE [image EXCEPT ![r.d] = x]
  /\ waived' = IF r.was = "REVOKED" \/ ~(Live \subseteq r.count)
                 THEN waived \cup {r.d} ELSE waived
  /\ UNCHANGED <<licVars, conVars, write, active, release, onbVars, changes, top>>

\* A heartbeat sets any status and the digest of the image.
DeploymentHeartbeat(d, st, x) ==
  /\ Change /\ dep[d] # "NONE" /\ st \in {"ACTIVE", "DEGRADED", "REVOKED"}
  /\ dep' = [dep EXCEPT ![d] = st] /\ image' = [image EXCEPT ![d] = x]
  /\ waived' = IF dep[d] = "REVOKED" THEN waived \cup {d} ELSE waived
  /\ UNCHANGED <<licVars, conVars, write, active, release, reg, onbVars, top>>

PublishRelease(x) ==
  /\ Change /\ release' = {x}
  /\ UNCHANGED <<licVars, conVars, write, active, dep, image, reg, onbVars, top, waived>>

(***************************************************************************)
(* Onboarding.  An advance loads the row, rewrites the whole checklist and *)
(* sets the status it derives from it; a column that did not change from   *)
(* the copy is not written.                                                *)
(***************************************************************************)
UpsertOnboarding ==
  /\ onboard.status = "NONE" /\ onboard' = [status |-> "IN_PROGRESS", done |-> {}]
  /\ UNCHANGED <<licVars, conVars, write, active, depVars, adv, overlapped, changes, top, waived>>

AdvanceLoad(a) ==
  /\ adv[a].pc = "idle" /\ onboard.status # "NONE"
  /\ adv' = [adv EXCEPT ![a] = [pc |-> "loaded", copy |-> onboard, late |-> FALSE]]
  /\ UNCHANGED <<licVars, conVars, write, active, depVars, onboard, overlapped, changes, top, waived>>

AdvanceOnboardingMutant(a, s, completed) ==
  LET c == adv[a].copy
      done == IF completed THEN c.done \cup {s} ELSE c.done \ {s}
      status == IF done = Steps THEN "COMPLETED" ELSE c.status IN
  /\ adv[a].pc = "loaded" /\ onboard' = [status |-> status, done |-> done]
  /\ adv' = [b \in Advances |->
       IF b = a THEN [IdleAdv EXCEPT !.pc = "done"]
       ELSE IF adv[b].pc = "loaded" THEN [adv[b] EXCEPT !.late = TRUE] ELSE adv[b]]
  /\ overlapped' = (overlapped \/ adv[a].late)
  /\ UNCHANGED <<licVars, conVars, write, active, depVars, changes, top, waived>>

AdvanceOnboarding(a, s, completed) ==
  LET c == adv[a].copy
      done == IF completed THEN c.done \cup {s} ELSE c.done \ {s}
      status == IF done = Steps THEN "COMPLETED" ELSE "IN_PROGRESS"
      new == [status |-> IF status # c.status THEN status ELSE onboard.status,
              done |-> IF done # c.done THEN done ELSE onboard.done] IN
  /\ adv[a].pc = "loaded" /\ onboard' = new
  /\ adv' = [b \in Advances |->
       IF b = a THEN [IdleAdv EXCEPT !.pc = "done"]
       ELSE IF adv[b].pc = "loaded" /\ new # onboard THEN [adv[b] EXCEPT !.late = TRUE]
       ELSE adv[b]]
  /\ overlapped' = (overlapped \/ adv[a].late)
  /\ UNCHANGED <<licVars, conVars, write, active, depVars, changes, top, waived>>

\* GET /api/commercial/status.
ProductionReady ==
  /\ mode = "enforce" /\ onboard.status = "COMPLETED" /\ InForce # {}
  /\ \E d \in Deployments : dep[d] = "ACTIVE" /\ {image[d]} = release

LicenceNext ==
  \/ \E t \in Tokens : ImportLicense(t) \/ LicenseExpires(t)
  \/ SeedCommercial
  \/ \E p \in Plans : SetTenantSubscription(p)

WriteNext ==
  \/ \E q \in Writes : \/ \E f \in Features : EnterWrite(q, f)
                       \/ SyncContractEntitlements(q) \/ LicenseEnforcement(q)
                       \/ \E n \in 0..MaxBatch : StartTasks(q, n)
  \/ \E x \in Tasks : WorkerTask(x) \/ TaskEnds(x)

RegisterNext == \E g \in Registrars :
  \/ \E d \in Deployments : RegisterCheck(g, d)
  \/ \E x \in Digests \cup {NoDigest} : RegisterDeployment(g, x)

ReportNext ==
  \/ \E d \in Deployments, st \in {"ACTIVE", "DEGRADED", "REVOKED"}, x \in Digests :
       DeploymentHeartbeat(d, st, x)
  \/ \E x \in Digests : PublishRelease(x)

OnboardNext ==
  \/ UpsertOnboarding
  \/ \E a \in Advances : \/ AdvanceLoad(a)
                         \/ \E s \in Steps, completed \in BOOLEAN :
                              AdvanceOnboarding(a, s, completed)

ComNext == LicenceNext \/ WriteNext \/ RegisterNext \/ ReportNext \/ OnboardNext

(***************************************************************************)
(* Properties.                                                             *)
(***************************************************************************)

\* The limits are compared with what a request finds as it comes, and bound what was
\* compared with them: the first task of each request, and the deployments.  They do
\* not bound the further tasks of one request, those that the worker of the SOPs
\* starts, those that come back, what was let in between another's check and creation or while no licence
\* set a limit, nor the return of a deployment that had been revoked.  And a request is
\* served for a feature that a plan in force while it ran contracts for, unless some
\* request wrote back the rows of a plan that had been replaced.
EntitlementsHold ==
  /\ top > 0 => /\ Cardinality(active \ waived) <= top
                 /\ Cardinality(Live \ waived) <= top
  /\ \A q \in Writes : write[q].pc = "serve" /\ mode = "enforce" /\ ~crossed =>
       \E p \in write[q].plans : write[q].feature \in PlanFeatures[p]

\* Production is reported ready with every onboarding step done, unless two advances
\* overlapped: then the status of one can stand beside the checklist of the other.
ReadyMeansEveryStep ==
  ProductionReady /\ ~overlapped => onboard.done = Steps
=============================================================================
