----------------------------- MODULE MCSOPEngine -----------------------------
(* Instances of SOPEngine for TLC.                                          *)
EXTENDS SOPEngine, TLC

CONSTANTS first, second, third, w1, o1

(* Two nodes side by side after the first.                                  *)
Fork == first :> {} @@ second :> {first} @@ third :> {first}
ForkLevel == first :> 0 @@ second :> 1 @@ third :> 1
==============================================================================
