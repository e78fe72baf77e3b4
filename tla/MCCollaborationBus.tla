----------------------- MODULE MCCollaborationBus -----------------------
(* Instances of CollaborationBus for TLC: a task, and one that depends on it. *)
EXTENDS CollaborationBus, TLC

CONSTANTS first, second, w1, w2, o1, o2

SecondDependsOnFirst == [t \in {first, second} |-> IF t = second THEN {first} ELSE {}]
NoDependencies == [t \in {first} |-> {}]

Symmetric == Permutations({w1, w2})
=========================================================================
