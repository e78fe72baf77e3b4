----------------------- MODULE MCProtocolGateway -----------------------
(* Small instances of ProtocolGateway for TLC.                           *)
EXTENDS ProtocolGateway

CONSTANTS c1, c2

Scene(kinds, known, sessions, budget) ==
    [kinds |-> kinds, guarded |-> FALSE, moves |-> budget, known |-> known, sessions |-> sessions]

(* Key 5 is cut to key 2, and so is its message: both deliveries are of   *)
(* message 2.  Key 4 starts an SOP run and is cut to key 3, another's.    *)
KeptOf == [key \in {2, 3, 4, 5} |-> CASE key = 5 -> 2 [] key = 4 -> 3 [] OTHER -> key]
MessagesOf == [key \in {2, 3, 4, 5} |-> IF key = 5 THEN 2 ELSE key]

(* Messages and hooks delivered twice, with a crash; a guarded client;    *)
(* a worker beside readers and cancellation; subscriptions; the worker    *)
(* alone with two tasks.                                                  *)
AllScenarios ==
    {Scene({"send", "hook"}, {}, {c1, c2}, 3),
     [Scene({"send", "chat", "mcp"}, {}, {c1, c2}, 3) EXCEPT !.guarded = TRUE],
     Scene({"tick", "read", "cancel"}, {1}, {c1, c2}, 3),
     Scene({"stream", "cancel", "tick"}, {1}, {c1, c2}, 3),
     Scene({"tick", "global"}, {1, 2}, {c1, c2}, 2)}
=========================================================================
