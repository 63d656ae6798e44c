------------------------- MODULE MCTunnelConnection -------------------------
(* Values of the constants of TunnelConnection for TLC. *)
EXTENDS TunnelConnection

(* A full channel, one short of a byte, and one with room for a buffer. *)
AllWindows == {0, 1, 2}

(* The channel is never full. *)
OpenWindows == {1, 2}
=============================================================================
