---------------------------- MODULE MCGovernance ----------------------------
(* Instances of Governance for TLC.                                         *)
EXTENDS Governance, TLC

CONSTANTS owner, executive, c1, c2, direct, handoffs

(* The roles of two seeded identities: role:owner has "*", role:executive   *)
(* has approval:*, runtime:*, handoff:* and task:*, but neither kill switch *)
(* nor charges.                                                             *)
SeededRoles == owner :> Controls \cup WorkActions @@ executive :> WorkActions \cup {"decide", "ask"}

(* POST /api/runtimes/{key}/dispatch and POST /api/missions/{key}/handoffs.  *)
RouteRules == direct :> "runtime:dispatch" @@ handoffs :> "handoff:create"

Symmetry == Permutations({c1, c2})

SmallBudgets == owner :> 1 @@ executive :> 1
=============================================================================
