------------------------------ MODULE MCManager -----------------------------
(* Small instances of Manager: two tunnels, in one group, each with a port *)
(* of its own or both with the same.                                       *)
EXTENDS Manager, TLC

MCGroupOf == [n \in Names |-> "g"]
OwnPorts == [n \in Names |-> n]
SamePort == [n \in Names |-> "p"]

NoFaults == {{}}
Overlapping == {{"overlap"}}
InTurnOrOverlapping == {{"bind"}, {"bind", "overlap"}, {"save"}}
BindsFail == {{"bind"}}
ServesFail == {{"serve"}}
Everything == {{"bind", "slowstop", "overlap"}, AllFaults}
=============================================================================
