------------------------- MODULE MCRuntimeShutdown -------------------------
(* The two gates of the process with one task of each sort. *)
EXTENDS RuntimeShutdown

MCGates == {"Requests", "Workers"}
MCTasks == {"http", "ws", "tick", "listen", "bonus"}
MCWorkers == {"tick", "listen", "bonus"}
MCGateOf == [t \in MCTasks |-> IF t \in MCWorkers THEN "Workers" ELSE "Requests"]
Itself == [g \in MCGates |-> g]
=============================================================================
