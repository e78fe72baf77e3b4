------------------------- MODULE MCEvaluation -------------------------
(* Small instances of Evaluation for TLC.                                 *)
EXTENDS Evaluation

CONSTANTS s1, s2

(* Two tasks and a tick; one task, two ticks and an operator; one task,   *)
(* two ticks and a text to be cut; one task, a tick, and an operator who  *)
(* rewrites a result or whose replay is cut; one task, a tick and an      *)
(* operator who may ask for a replay and read it.                         *)
AllScenarios ==
    {[tasks |-> {1, 2}, sessions |-> {s1}, texts |-> 2, moves |-> 1],
     [tasks |-> {1}, sessions |-> {s1, s2}, texts |-> 2, moves |-> 1],
     [tasks |-> {1}, sessions |-> {s1, s2}, texts |-> 3, moves |-> 0],
     [tasks |-> {1}, sessions |-> {s1}, texts |-> 3, moves |-> 1],
     [tasks |-> {1}, sessions |-> {s1}, texts |-> 2, moves |-> 2]}

(* A sound result, one that contains an error, and a long one that is     *)
(* sound before it is cut.                                                *)
SoundErrorOrLong ==
    {[score |-> 2, gaps |-> FALSE, traced |-> TRUE, error |-> FALSE, long |-> FALSE],
     [score |-> 1, gaps |-> TRUE, traced |-> TRUE, error |-> TRUE, long |-> FALSE],
     [score |-> 2, gaps |-> FALSE, traced |-> TRUE, error |-> FALSE, long |-> TRUE]}

OneTask == {[tasks |-> {1}, sessions |-> {s1}, texts |-> 3, moves |-> 0]}
=======================================================================
