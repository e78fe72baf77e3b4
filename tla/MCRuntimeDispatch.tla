----------------------- MODULE MCRuntimeDispatch -----------------------
(* Small instances of RuntimeDispatch for TLC.                            *)
EXTENDS RuntimeDispatch, TLC

CONSTANTS d1, d2, w1, w2

OneHermes == d1 :> "hermes"
TwoCherry == d1 :> "cherryagent" @@ d2 :> "cherryagent"

(* Each run state is reported by its own name, or by other words.           *)
ManyWords ==
    [s \in RunStates |-> CASE s = "RUNNING" -> {"RUNNING", "IN_PROGRESS"}
                           [] s = "COMPLETED" -> {"COMPLETED", "SUCCESS"}
                           [] OTHER -> {s}]

OwnWords == [s \in RunStates |-> {s}]

==========================================================================
