----------------------- MODULE PortForwardingConnection -----------------------
(***************************************************************************)
(* One connection of the port forwarding server                            *)
(* (src/core/PortForwardingServerConnection.cpp): run copies srcSocket to  *)
(* destSocket, run2 copies destSocket to srcSocket, each a coroutine on a  *)
(* strand of its own.  Each first writes a greeting of zero bytes to the   *)
(* socket it is about to read.  What is read is copied to a buffer that    *)
(* stays in a queue until it is written.                                   *)
(*                                                                         *)
(* The two coroutines are the same code with the sockets exchanged; both   *)
(* are indexed here by the end they read.                                  *)
(*                                                                         *)
(* An end receives the greeting of the one coroutine and the data of the   *)
(* other on one socket, in whatever order they are written.  got has the   *)
(* data and zeros the number of zero bytes: where among the data they fall *)
(* is left out, so only ForwardsOnlyData is about what they do to it.      *)
(***************************************************************************)
EXTENDS Streams

CONSTANTS
  Greeting,          \* how many zero bytes a coroutine writes first (512)
  ReadBufferLength,  \* read_buffer_length
  MaxBytes           \* bound: how many bytes each end sends

ASSUME ForwardingAssumption ==
  /\ Greeting \in Nat \ {0}
  /\ ReadBufferLength \in Nat \ {0}
  /\ MaxBytes \in Nat

Ends == {"src", "dest"}
Peer(e) == IF e = "src" THEN "dest" ELSE "src"

VARIABLES
  end,        \* what each end does: "open", "shut" (sends no more), "gone"
  sent,       \* how many bytes each end has sent
  got,        \* the bytes of the other end each end has received
  zeros,      \* how many bytes of greeting each end has received
  pc,         \* where each coroutine is: "greet", "read", "write", "done"
  greetLeft,  \* how much of its greeting each has to write
  readCount,  \* how many bytes each has read
  queue,      \* dest_write_queue of run, src_write_queue of run2
  left        \* what is left to write of the buffer being written

endVars == <<end, sent>>
bufferVars == <<queue, left>>
vars == <<endVars, got, zeros, pc, greetLeft, readCount, bufferVars>>

Init ==
  /\ end = [e \in Ends |-> "open"] /\ sent = [e \in Ends |-> 0]
  /\ got = [e \in Ends |-> << >>] /\ zeros = [e \in Ends |-> 0]
  /\ pc = [e \in Ends |-> "greet"] /\ greetLeft = [e \in Ends |-> Greeting]
  /\ readCount = [e \in Ends |-> 0]
  /\ queue = [e \in Ends |-> << >>] /\ left = [e \in Ends |-> << >>]

-----------------------------------------------------------------------------
(* The two ends, which the code does not control.                          *)

Sends(e) ==
  /\ end[e] = "open" /\ sent[e] < MaxBytes
  /\ sent' = [sent EXCEPT ![e] = @ + 1]
  /\ UNCHANGED <<end, got, zeros, pc, greetLeft, readCount, bufferVars>>

Leaves(e) ==
  /\ end[e] # "gone"
  /\ end' \in {[end EXCEPT ![e] = x] : x \in {"shut", "gone"} \ {end[e]}}
  /\ UNCHANGED <<sent, got, zeros, pc, greetLeft, readCount, bufferVars>>

-----------------------------------------------------------------------------
(* run and run2.                                                           *)

(* Mutant: the greeting is written again from the start after a partial    *)
(* write.                                                                  *)
GreetsAgain(e, n) ==
  /\ pc[e] = "greet" /\ n <= greetLeft[e]
  /\ greetLeft' = [greetLeft EXCEPT ![e] = IF n = @ THEN 0 ELSE Greeting]
  /\ zeros' = IF end[e] = "gone" THEN zeros ELSE [zeros EXCEPT ![e] = @ + n]
  /\ pc' = [pc EXCEPT ![e] = IF n = greetLeft[e] THEN "read" ELSE "greet"]
  /\ UNCHANGED <<endVars, got, readCount, bufferVars>>

(* Mutant: the greeting is sent to the other socket.                       *)
GreetsPeer(e, n) ==
  /\ pc[e] = "greet" /\ n <= greetLeft[e]
  /\ greetLeft' = [greetLeft EXCEPT ![e] = @ - n]
  /\ zeros' = IF end[Peer(e)] = "gone" THEN zeros
              ELSE [zeros EXCEPT ![Peer(e)] = @ + n]
  /\ pc' = [pc EXCEPT ![e] = IF n = greetLeft[e] THEN "read" ELSE "greet"]
  /\ UNCHANGED <<endVars, got, readCount, bufferVars>>

(* async_write "nothing": the next n zero bytes; it completes with the     *)
(* last one.                                                               *)
Greets(e, n) ==
  /\ pc[e] = "greet" /\ n <= greetLeft[e]
  /\ greetLeft' = [greetLeft EXCEPT ![e] = @ - n]
  /\ zeros' = IF end[e] = "gone" THEN zeros ELSE [zeros EXCEPT ![e] = @ + n]
  /\ pc' = [pc EXCEPT ![e] = IF n = greetLeft[e] THEN "read" ELSE "greet"]
  /\ UNCHANGED <<endVars, got, readCount, bufferVars>>

(* async_read_some completes with n bytes; they are copied to a buffer,    *)
(* the buffer is queued, and async_write begins.                           *)
Reads(e, n) ==
  /\ pc[e] = "read" /\ n <= sent[e] - readCount[e]
  /\ readCount' = [readCount EXCEPT ![e] = @ + n]
  /\ queue' = [queue EXCEPT ![e] = Append(@, Chunk(readCount[e], n))]
  /\ left' = [left EXCEPT ![e] = Chunk(readCount[e], n)]
  /\ pc' = [pc EXCEPT ![e] = "write"]
  /\ UNCHANGED <<endVars, got, zeros, greetLeft>>

(* Mutant: the handler reads the first buffer but does not pop it.         *)
KeepsBuffer(e) == UNCHANGED queue

(* src_write_handler, dest_write_handler: the first buffer is freed.       *)
FreesBuffer(e) == queue' = [queue EXCEPT ![e] = Tail(@)]

(* Mutant: async_write_some, whose short count is ignored.                 *)
WritesSome(e, n) ==
  LET p == Peer(e) IN
  /\ pc[e] = "write" /\ n <= Len(left[e])
  /\ got' = IF end[p] = "gone" THEN got
            ELSE [got EXCEPT ![p] = @ \o SubSeq(left[e], 1, n)]
  /\ left' = [left EXCEPT ![e] = << >>]
  /\ pc' = [pc EXCEPT ![e] = "read"] /\ FreesBuffer(e)
  /\ UNCHANGED <<endVars, zeros, greetLeft, readCount>>

(* Mutant: after a short write the whole buffer is written again.          *)
WritesAgain(e, n) ==
  LET p == Peer(e) IN
  /\ pc[e] = "write" /\ n <= Len(left[e])
  /\ got' = IF end[p] = "gone" THEN got
            ELSE [got EXCEPT ![p] = @ \o SubSeq(left[e], 1, n)]
  /\ IF n = Len(left[e])
     THEN /\ left' = [left EXCEPT ![e] = << >>]
          /\ pc' = [pc EXCEPT ![e] = "read"] /\ FreesBuffer(e)
     ELSE UNCHANGED <<pc, queue, left>>
  /\ UNCHANGED <<endVars, zeros, greetLeft, readCount>>

(* async_write hands the other end the next n bytes; with the last one it  *)
(* completes and the buffer is freed.                                      *)
Writes(e, n) ==
  LET p == Peer(e) IN
  /\ pc[e] = "write" /\ n <= Len(left[e])
  /\ got' = IF end[p] = "gone" THEN got
            ELSE [got EXCEPT ![p] = @ \o SubSeq(left[e], 1, n)]
  /\ left' = [left EXCEPT ![e] = SubSeq(@, n + 1, Len(@))]
  /\ IF n = Len(left[e])
     THEN pc' = [pc EXCEPT ![e] = "read"] /\ FreesBuffer(e)
     ELSE UNCHANGED <<pc, queue>>
  /\ UNCHANGED <<endVars, zeros, greetLeft, readCount>>

(* Mutant: a short read of a shut socket is taken for an empty message.    *)
FailsUnnoticed(e) ==
  /\ \/ pc[e] = "greet" /\ end[e] = "gone"
     \/ pc[e] = "read" /\ end[e] = "gone"
     \/ pc[e] = "write" /\ end[Peer(e)] = "gone"
  /\ pc' = [pc EXCEPT ![e] = "done"]
  /\ UNCHANGED <<endVars, got, zeros, greetLeft, readCount, bufferVars>>

(* Mutant: any end of the connection ends both coroutines.                 *)
FailsTogether(e) ==
  /\ \E f \in Ends : end[f] # "open"
  /\ pc[e] # "done"
  /\ pc' = [pc EXCEPT ![e] = "done"]
  /\ UNCHANGED <<endVars, got, zeros, greetLeft, readCount, bufferVars>>

(* An operation completes with an error: the coroutine returns -1 at once, *)
(* and a buffer it was writing stays allocated, in its queue.              *)
Fails(e) ==
  /\ \/ pc[e] = "greet" /\ end[e] = "gone"
     \/ pc[e] = "read" /\ end[e] = "shut" /\ readCount[e] = sent[e]
     \/ pc[e] = "read" /\ end[e] = "gone"
     \/ pc[e] = "write" /\ end[Peer(e)] = "gone"
  /\ pc' = [pc EXCEPT ![e] = "done"]
  /\ UNCHANGED <<endVars, got, zeros, greetLeft, readCount, bufferVars>>

Step(e) ==
  \/ \E n \in 1..Greeting : Greets(e, n)
  \/ \E n \in 1..ReadBufferLength : Reads(e, n) \/ Writes(e, n)
  \/ Fails(e)

(* Both coroutines have returned.                                          *)
Finished == pc = [e \in Ends |-> "done"] /\ UNCHANGED vars

Next ==
  \/ \E e \in Ends : Sends(e) \/ Leaves(e) \/ Step(e)
  \/ Finished

Spec == Init /\ [][Next]_vars

(* Neither coroutine blocks its thread, so each one that can go on does.   *)
FairSpec == Spec /\ \A e \in Ends : WF_vars(Step(e))

-----------------------------------------------------------------------------
TypeOK ==
  /\ end \in [Ends -> {"open", "shut", "gone"}]
  /\ sent \in [Ends -> 0..MaxBytes]
  /\ got \in [Ends -> Seq(Nat)]
  /\ zeros \in [Ends -> 0..Greeting] /\ greetLeft \in [Ends -> 0..Greeting]
  /\ pc \in [Ends -> {"greet", "read", "write", "done"}]
  /\ readCount \in [Ends -> 0..MaxBytes]
  /\ queue \in [Ends -> Seq(Seq(Nat))]
  /\ left \in [Ends -> Seq(Nat)]

(* While the other end is there, what it has received and what is still to *)
(* be written to it are exactly the bytes read for it.                     *)
Conservation ==
  \A e \in Ends :
    end[Peer(e)] # "gone"
      => got[Peer(e)] \o left[e] = Chunk(0, readCount[e])

(* A queue never holds more than the buffer being written, whose end is    *)
(* what is left to write, and the handler frees that buffer and no other;  *)
(* only a write that fails leaves one behind.                              *)
BufferPerWrite ==
  \A e \in Ends :
    /\ Len(queue[e]) <= 1
    /\ queue[e] # << >> =>
         /\ pc[e] = "write" \/ (pc[e] = "done" /\ end[Peer(e)] = "gone")
         /\ LET b == queue[e][1]
            IN  /\ Len(left[e]) <= Len(b)
                /\ left[e] = SubSeq(b, Len(b) - Len(left[e]) + 1, Len(b))
    /\ pc[e] = "write" => queue[e] # << >>

(* Each end receives the greeting once, whole unless it goes away.         *)
GreetedOnce ==
  \A e \in Ends :
    /\ zeros[e] + greetLeft[e] <= Greeting
    /\ end[e] # "gone" => zeros[e] + greetLeft[e] = Greeting
    /\ pc[e] \in {"read", "write"} => greetLeft[e] = 0

(* What an end that stays receives is whole: its greeting once, wherever   *)
(* among the data it falls, and every byte read for it, with what is still *)
(* to be written.                                                          *)
Intact == Conservation /\ GreetedOnce

FromSource == INSTANCE BytePipe WITH sent <- sent["src"], got <- got["dest"]
FromDest == INSTANCE BytePipe WITH sent <- sent["dest"], got <- got["src"]

(* run implements the pipe from the source to the destination, the         *)
(* greeting apart.                                                         *)
RunIsAPipe == FromSource!Spec

(* run2 implements the pipe from the destination to the source.            *)
Run2IsAPipe == FromDest!Spec

(* The two coroutines share both sockets, and still implement a pipe each. *)
BothArePipes == RunIsAPipe /\ Run2IsAPipe

(* How many steps an end and the coroutine that reads it can still take at *)
(* most: a read of n bytes takes n more to write.                          *)
EndLeft(e) ==
  (MaxBytes - sent[e])
    + (CASE end[e] = "open" -> 2 [] end[e] = "shut" -> 1 [] OTHER -> 0)
CoroutineLeft(e) ==
  greetLeft[e] + 2 * (MaxBytes - readCount[e]) + Len(left[e])
    + (IF pc[e] = "done" THEN 0 ELSE 1)
StepsLeft ==
  EndLeft("src") + EndLeft("dest") + CoroutineLeft("src") + CoroutineLeft("dest")

(* The coroutine that reads end e can do something.                        *)
CanGo(e) ==
  \/ pc[e] = "greet" /\ (greetLeft[e] > 0 \/ end[e] = "gone")
  \/ pc[e] = "read" /\ (readCount[e] < sent[e] \/ end[e] # "open")
  \/ pc[e] = "write" /\ (left[e] # << >> \/ end[Peer(e)] = "gone")

(* A coroutine that can do nothing more holds nothing back: the other end  *)
(* has all that was sent to it.                                            *)
NothingHeldBack ==
  \A e \in Ends :
    ~CanGo(e) /\ (\A f \in Ends : end[f] # "gone")
      => got[Peer(e)] = Chunk(0, sent[e])

(* However writes are cut and whatever fails, the connection comes to rest *)
(* after at most 2 * Greeting + 6 * MaxBytes + 6 steps, with nothing held  *)
(* back: neither loop does anything over again, and neither gets stuck.    *)
Settles ==
  /\ StepsLeft <= 2 * Greeting + 6 * MaxBytes + 6
  /\ [][StepsLeft' \in Nat /\ StepsLeft' < StepsLeft]_vars
  /\ []NothingHeldBack

(* Every byte an end sends reaches the other, unless an end goes away.     *)
Delivers ==
  \A e \in Ends : \A i \in 1..MaxBytes :
    sent[e] >= i ~> Len(got[Peer(e)]) >= i \/ \E f \in Ends : end[f] = "gone"

(* A coroutine returns once the end it reads has nothing more to send.     *)
Returns == \A e \in Ends : end[e] # "open" ~> pc[e] = "done"

(* What a port forwarder is for: an end receives what the other end sent,  *)
(* and nothing else.                                                       *)
ForwardsOnlyData == \A e \in Ends : zeros[e] = 0
===============================================================================
