--------------------------- MODULE MCRouting ---------------------------
(* Small instances of Routing for TLC.                                    *)
EXTENDS Routing, TLC

CONSTANTS a1, a2, r1, r2, t1, t2, s1, s2, q1, q2

OneEach == [a \in Agents |-> 1]
TwoRuntimes == (a1 :> r1) @@ (a2 :> r2)
TwoSlots == [r \in Runtimes |-> 2]
OneForBoth == (t1 :> Agents) @@ (t2 :> {a1})

(* One task and two agents; two tasks for one agent; one task that is      *)
(* commanded; one task and a patch, or a heartbeat; a registry under       *)
(* patches.                                                               *)
AllScenarios ==
    {[tasks |-> {t1}, patches |-> {}, agents |-> {a1, a2}, delegates |-> {},
      sessions |-> {s1, s2}, moves |-> 0, beats |-> 0],
     [tasks |-> {t1, t2}, patches |-> {}, agents |-> {a1, a2}, delegates |-> {},
      sessions |-> {s1}, moves |-> 1, beats |-> 0],
     [tasks |-> {t2}, patches |-> {}, agents |-> {a1, a2}, delegates |-> {},
      sessions |-> {s1, s2}, moves |-> 1, beats |-> 0],
     [tasks |-> {t1}, patches |-> {q1}, agents |-> {a1}, delegates |-> {},
      sessions |-> {s1}, moves |-> 0, beats |-> 0],
     [tasks |-> {t2}, patches |-> {}, agents |-> {a1, a2}, delegates |-> {},
      sessions |-> {s1}, moves |-> 0, beats |-> 1],
     [tasks |-> {}, patches |-> {q1, q2}, agents |-> {a1, a2}, delegates |-> {a1, a2},
      sessions |-> {s1}, moves |-> 0, beats |-> 0]}
==========================================================================
