------------------------------ MODULE BytePipe ------------------------------
(***************************************************************************)
(* What one direction of a forwarded connection promises its two ends: the *)
(* receiving end sees the bytes of the sending end, in order, each once,   *)
(* none before it was sent, and nothing it was given is taken back.        *)
(*                                                                         *)
(* A byte is known by its position: the i-th byte put into the pipe is the *)
(* number i.  A pipe may stop at any point (the specification has no       *)
(* fairness): a failed connection loses the bytes still under way, never   *)
(* bytes in the middle.                                                    *)
(***************************************************************************)
EXTENDS Naturals, Sequences

VARIABLES
  sent,   \* how many bytes the sending end has put in
  got     \* the bytes the receiving end has taken out

vars == <<sent, got>>

Init ==
  /\ sent = 0
  /\ got = << >>

Put ==
  /\ sent' \in Nat
  /\ sent' > sent
  /\ UNCHANGED got

Deliver ==
  /\ \E n \in 1..(sent - Len(got)) :
        got' = got \o [i \in 1..n |-> Len(got) + i]
  /\ UNCHANGED sent

Next == Put \/ Deliver

Spec == Init /\ [][Next]_vars
=============================================================================
