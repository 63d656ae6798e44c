--------------------------- MODULE MCTunnelServer ---------------------------
(* Values of the constants of TunnelServer for TLC. *)
EXTENDS TunnelServer, TLC

CONSTANTS c1, c2, c3

TwoConns == {c1, c2}
ThreeConns == {c1, c2, c3}

(* On c3 the remote service waits to be asked. *)
FirstTwo == {c1, c2}

(* Connections of one kind are interchangeable.  For safety only. *)
Symmetry == Permutations(GreetsFirst)

NoFaults == {}
(* Everything, but that every service has a first word. *)
OwnFaults == AllFaults \ {"mute"}
=============================================================================
