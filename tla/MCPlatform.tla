----------------------------- MODULE MCPlatform -----------------------------
(***************************************************************************)
(* Instances of the three platform layers (phases 12 to 14).  They meet    *)
(* only in the tenant of a mission, so a behaviour exercises one part of   *)
(* one layer, chosen at the start: tenants and their gate, the pull        *)
(* interfaces for SIEM and back-up, the KPI synchronisation, the quota on  *)
(* tasks, the deployments, or the onboarding and what readiness needs.     *)
(***************************************************************************)
EXTENDS Enterprise, Business, Commercial, TLC

VARIABLE part

mcVars == <<entVars, busVars, comVars, part>>

CONSTANTS home, other, u1, k1, f1, f2, small, large, tokA, tokB

MCHome == (u1 :> home) @@ (k1 :> other)
MCPlanFeatures == (small :> {f1}) @@ (large :> {f1, f2})
MCPlanCap == (small :> 1) @@ (large :> 2)
MCTokenFeatures == (tokA :> {f1, f2}) @@ (tokB :> {f1})
MCTokenCap == (tokA :> 1) @@ (tokB :> 2)

Parts == {"tenants", "pull", "kpi", "tasks", "deployments", "onboarding"}

\* The commercial parts start with a licence in force, or without one in warn mode.
MCInit ==
  /\ part \in Parts
  /\ EntInit /\ BusInit
  /\ \E m \in IF part = "tasks" THEN {"warn", "enforce"} ELSE {"enforce"} :
       ComInit(m, small, IF m = "warn" THEN {} ELSE {tokA})

MCNext ==
  /\ part' = part
  /\ \/ /\ \/ part = "tenants" /\ (ScopeNext \/ GateNext)
           \/ part = "pull" /\ PullNext
        /\ UNCHANGED <<busVars, comVars>>
     \/ part = "kpi" /\ BusNext /\ UNCHANGED <<entVars, comVars>>
     \/ /\ \/ part = "tasks" /\ (LicenceNext \/ WriteNext)
           \/ part = "deployments" /\ (LicenceNext \/ RegisterNext \/ ReportNext)
           \/ part = "onboarding" /\ (OnboardNext \/ ReportNext)
        /\ UNCHANGED <<entVars, busVars>>

\* The worker of every replica ticks for ever, and a key that nobody deletes expires.
MCSpec ==
  /\ MCInit /\ [][MCNext]_mcVars
  /\ \A s \in Syncs : WF_busVars(part = "kpi" /\ SyncStep(s))
  /\ WF_busVars(part = "kpi" /\ LockExpires)
=============================================================================
