------------------------------ MODULE Streams ------------------------------
(***************************************************************************)
(* Byte streams.  A byte is a number: the i-th byte an end sends is i, so  *)
(* that a sequence of bytes shows where in the stream each was.            *)
(***************************************************************************)
EXTENDS Integers, Sequences

(* The n bytes of a stream that follow its first k.                        *)
Chunk(k, n) == [i \in 1..n |-> k + i]

Least(a, b) == IF a <= b THEN a ELSE b
=============================================================================
