---------------------------- MODULE AcceptQueue ----------------------------
(***************************************************************************)
(* What a listener promises the callers of its acceptor: it takes each     *)
(* caller once, in the order they came, and never gives one back.          *)
(*                                                                         *)
(* A listener may stop at any point (the specification has no fairness):   *)
(* then the callers that wait are never taken, but none is skipped.        *)
(***************************************************************************)
EXTENDS Sequences

CONSTANT Callers

VARIABLES
  waiting,   \* the callers the listener has not taken yet
  taken,     \* the callers it has taken
  came       \* the callers that have come, in no order

vars == <<waiting, taken, came>>

Init ==
  /\ waiting = << >>
  /\ taken = << >>
  /\ came = {}

Arrive(x) ==
  /\ x \notin came
  /\ waiting' = Append(waiting, x)
  /\ came' = came \union {x}
  /\ UNCHANGED taken

Take ==
  /\ waiting # << >>
  /\ taken' = Append(taken, Head(waiting))
  /\ waiting' = Tail(waiting)
  /\ UNCHANGED came

Next == Take \/ \E x \in Callers : Arrive(x)

Spec == Init /\ [][Next]_vars
=============================================================================
