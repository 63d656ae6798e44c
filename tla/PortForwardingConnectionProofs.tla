-------------------- MODULE PortForwardingConnectionProofs --------------------
(***************************************************************************)
(* What is proved of PortForwardingConnection for every greeting, buffer   *)
(* size and number of bytes.  run and run2 are one coroutine indexed by    *)
(* the end it reads, so what is said of a direction is said of end e.      *)
(***************************************************************************)
EXTENDS PortForwardingConnection, StreamLemmas, TLAPS

(* The two ends are different, and each is the peer of the other.          *)
LEMMA Peers ==
  ASSUME NEW e \in Ends
  PROVE  Peer(e) \in Ends /\ Peer(e) # e /\ Peer(Peer(e)) = e
BY DEF Ends, Peer

-----------------------------------------------------------------------------
(* Types, greetings and buffers, which hold each other up: a buffer is     *)
(* there to be freed, and a greeting is written up to its end.             *)

(* Neither coroutine has read more than was sent.                          *)
ReadSent == \A e \in Ends : readCount[e] <= sent[e]

IForward == TypeOK /\ ReadSent /\ GreetedOnce /\ BufferPerWrite

LEMMA InitIForward == Init => IForward
<1> SUFFICES ASSUME Init
             PROVE  IForward
  OBVIOUS
<1>1. TypeOK
  BY ForwardingAssumption DEF Init, TypeOK
<1>2. ReadSent /\ GreetedOnce /\ BufferPerWrite
  BY ForwardingAssumption DEF Init, ReadSent, GreetedOnce, BufferPerWrite
<1> QED
  BY <1>1, <1>2 DEF IForward

(* The next bytes of a greeting.                                           *)
LEMMA GreetsIForward ==
  ASSUME IForward, NEW e \in Ends, NEW n \in 1..Greeting, Greets(e, n)
  PROVE  IForward'
<1> USE DEF IForward
<1>1. /\ greetLeft[e] \in 0..Greeting /\ zeros[e] \in 0..Greeting
      /\ zeros[e] + greetLeft[e] <= Greeting
      /\ n <= greetLeft[e] /\ n \in Nat /\ n > 0 /\ Greeting \in Nat
  BY ForwardingAssumption DEF TypeOK, GreetedOnce, Greets
<1>2. UNCHANGED <<end, sent, got, readCount, queue, left>>
  BY DEF Greets, endVars, bufferVars
<1>3. /\ greetLeft' = [greetLeft EXCEPT ![e] = greetLeft[e] - n]
      /\ pc' = [pc EXCEPT ![e] = IF n = greetLeft[e] THEN "read" ELSE "greet"]
      /\ zeros' = IF end[e] = "gone" THEN zeros
                  ELSE [zeros EXCEPT ![e] = zeros[e] + n]
      /\ pc[e] = "greet"
  BY DEF Greets
<1>4. TypeOK'
  <2>1. greetLeft' \in [Ends -> 0..Greeting] /\ zeros' \in [Ends -> 0..Greeting]
    <3>1. greetLeft[e] - n \in 0..Greeting /\ zeros[e] + n \in 0..Greeting
      BY <1>1
    <3> QED
      BY <1>3, <3>1 DEF TypeOK
  <2>2. pc' \in [Ends -> {"greet", "read", "write", "done"}]
    BY <1>3 DEF TypeOK
  <2> QED
    BY <1>2, <2>1, <2>2 DEF TypeOK
<1>5. ReadSent'
  BY <1>2 DEF ReadSent
<1>6. GreetedOnce'
  <2> SUFFICES ASSUME NEW f \in Ends
               PROVE  /\ zeros'[f] + greetLeft'[f] <= Greeting
                      /\ end'[f] # "gone" => zeros'[f] + greetLeft'[f] = Greeting
                      /\ pc'[f] \in {"read", "write"} => greetLeft'[f] = 0
    BY DEF GreetedOnce
  <2>1. CASE f = e
    <3>1. /\ greetLeft'[e] = greetLeft[e] - n
          /\ zeros'[e] = IF end[e] = "gone" THEN zeros[e] ELSE zeros[e] + n
          /\ pc'[e] = IF n = greetLeft[e] THEN "read" ELSE "greet"
      BY <1>3 DEF TypeOK
    <3>2. end[e] # "gone" => zeros[e] + greetLeft[e] = Greeting
      BY DEF GreetedOnce
    <3> QED
      BY <1>1, <1>2, <2>1, <3>1, <3>2
  <2>2. CASE f # e
    BY <1>2, <1>3, <2>2 DEF GreetedOnce, TypeOK
  <2> QED
    BY <2>1, <2>2
<1>7. BufferPerWrite'
  BY <1>2, <1>3 DEF BufferPerWrite, TypeOK
<1> QED
  BY <1>4, <1>5, <1>6, <1>7

(* A read, with the buffer it fills.                                       *)
LEMMA ReadsIForward ==
  ASSUME IForward, NEW e \in Ends, NEW n \in 1..ReadBufferLength, Reads(e, n)
  PROVE  IForward'
<1> USE DEF IForward
<1> DEFINE c == Chunk(readCount[e], n)
<1>1. /\ readCount[e] \in Nat /\ n \in Nat /\ sent[e] \in 0..MaxBytes
      /\ n <= sent[e] - readCount[e]
  BY ForwardingAssumption DEF TypeOK, Reads
<1>2. c \in Seq(Nat) /\ Len(c) = n
  BY <1>1, ChunkType
<1>3. UNCHANGED <<end, sent, got, zeros, greetLeft>>
  BY DEF Reads, endVars
<1>4. /\ pc[e] = "read"
      /\ readCount' = [readCount EXCEPT ![e] = readCount[e] + n]
      /\ queue' = [queue EXCEPT ![e] = Append(queue[e], c)]
      /\ left' = [left EXCEPT ![e] = c]
      /\ pc' = [pc EXCEPT ![e] = "write"]
  BY DEF Reads
<1>5. queue[e] = << >>
  BY <1>4 DEF BufferPerWrite
<1> HIDE DEF c
<1>6. Append(queue[e], c) = <<c>> /\ <<c>> \in Seq(Seq(Nat))
  BY <1>2, <1>5
<1>7. TypeOK'
  <2>1. readCount' \in [Ends -> 0..MaxBytes]
    BY <1>1, <1>4, ForwardingAssumption DEF TypeOK
  <2>2. queue' \in [Ends -> Seq(Seq(Nat))] /\ left' \in [Ends -> Seq(Nat)]
    BY <1>2, <1>4, <1>6 DEF TypeOK
  <2>3. pc' \in [Ends -> {"greet", "read", "write", "done"}]
    BY <1>4 DEF TypeOK
  <2> QED
    BY <1>3, <2>1, <2>2, <2>3 DEF TypeOK
<1>8. ReadSent'
  BY <1>1, <1>3, <1>4 DEF ReadSent, TypeOK
<1>9. GreetedOnce'
  BY <1>3, <1>4 DEF GreetedOnce, TypeOK
<1>10. SubSeq(c, 1, Len(c)) = c
  BY <1>2
<1>11. BufferPerWrite'
  <2> SUFFICES ASSUME NEW f \in Ends
               PROVE  BufferPerWrite!(f)'
    BY DEF BufferPerWrite
  <2>1. CASE f = e
    <3>1. queue'[f] = <<c>> /\ left'[f] = c /\ pc'[f] = "write"
      BY <1>4, <1>6, <2>1 DEF TypeOK
    <3>2. Len(c) - Len(c) + 1 = 1
      BY <1>2
    <3> QED
      BY <3>1, <3>2, <1>10
  <2>2. CASE f # e
    <3>1. queue'[f] = queue[f] /\ left'[f] = left[f] /\ pc'[f] = pc[f]
      BY <1>4, <2>2 DEF TypeOK
    <3> QED
      BY <3>1, <1>3 DEF BufferPerWrite
  <2> QED
    BY <2>1, <2>2
<1> QED
  BY <1>7, <1>8, <1>9, <1>11
(* A queue with one buffer is empty when the buffer is taken.              *)
LEMMA OnlyBuffer ==
  ASSUME NEW q \in Seq(Seq(Nat)), q # << >>, Len(q) <= 1
  PROVE  q[1] \in Seq(Nat) /\ Tail(q) = << >>
<1>1. Len(q) \in Nat \ {0}
  <2>1. \A s \in Seq(Seq(Nat)) : s # << >> => Len(s) \in Nat \ {0}
    BY ONLY EmptySeq
  <2> QED
    BY <2>1
<1>2. Len(q) = 1
  <2> DEFINE n == Len(q)
  <2>1. n \in Nat \ {0} /\ n <= 1
    BY <1>1
  <2> HIDE DEF n
  <2>2. n = 1
    BY ONLY <2>1
  <2> QED
    BY <2>2 DEF n
<1>3. q[1] \in Seq(Nat)
  BY <1>2, ElementOfSeq
<1>4. Tail(q) \in Seq(Seq(Nat)) /\ Len(Tail(q)) = Len(q) - 1
  BY HeadTailProperties
<1>5. Len(Tail(q)) = 0
  BY <1>2, <1>4
<1>6. Tail(q) = << >>
  <2>1. Tail(q) # << >> => Len(Tail(q)) \in Nat \ {0}
    BY <1>4, EmptySeq
  <2> QED
    BY <1>5, <2>1
<1> QED
  BY <1>3, <1>6

(* A write that goes on, or completes and frees the buffer.                *)
LEMMA WritesIForward ==
  ASSUME IForward, NEW e \in Ends, NEW n \in 1..ReadBufferLength, Writes(e, n)
  PROVE  IForward'
<1> USE DEF IForward
<1> DEFINE a == SubSeq(left[e], 1, n)
           b == SubSeq(left[e], n + 1, Len(left[e]))
<1>1. Peer(e) \in Ends
  BY Peers
<1>2. /\ left[e] \in Seq(Nat) /\ got[Peer(e)] \in Seq(Nat)
      /\ n \in 0..Len(left[e]) /\ n \in Nat
  BY <1>1, ForwardingAssumption DEF TypeOK, Writes
<1>3. a \in Seq(Nat) /\ b \in Seq(Nat) /\ Len(b) = Len(left[e]) - n
  BY <1>2, MovePrefix
<1>4. got[Peer(e)] \o a \in Seq(Nat)
  BY <1>2, <1>3, Concat
<1>5. UNCHANGED <<end, sent, zeros, greetLeft, readCount>>
  BY DEF Writes, endVars
<1>6. /\ got' = got \/ got' = [got EXCEPT ![Peer(e)] = got[Peer(e)] \o a]
      /\ left' = [left EXCEPT ![e] = b]
      /\ pc[e] = "write"
  BY DEF Writes
<1>7. \/ /\ n = Len(left[e])
         /\ pc' = [pc EXCEPT ![e] = "read"]
         /\ queue' = [queue EXCEPT ![e] = Tail(queue[e])]
      \/ n # Len(left[e]) /\ pc' = pc /\ queue' = queue
  BY DEF Writes, FreesBuffer
<1>8. /\ queue[e] \in Seq(Seq(Nat)) /\ queue[e] # << >>
      /\ queue[e][1] \in Seq(Nat) /\ Tail(queue[e]) = << >>
  <2>1. queue[e] \in Seq(Seq(Nat))
    BY DEF TypeOK
  <2>2. Len(queue[e]) <= 1 /\ queue[e] # << >>
    BY <1>6 DEF BufferPerWrite
  <2> QED
    BY <2>1, <2>2, OnlyBuffer
<1>9. << >> \in Seq(Seq(Nat))
  BY EmptySeq
<1> HIDE DEF a, b
<1>10. TypeOK'
  <2>1. got' \in [Ends -> Seq(Nat)] /\ left' \in [Ends -> Seq(Nat)]
    BY <1>1, <1>3, <1>4, <1>6 DEF TypeOK
  <2>2. queue' \in [Ends -> Seq(Seq(Nat))]
    <3> DEFINE Q == Seq(Seq(Nat))
    <3>1. queue \in [Ends -> Q] /\ << >> \in Q
      BY <1>9 DEF TypeOK
    <3>2. queue' = queue \/ queue' = [queue EXCEPT ![e] = << >>]
      BY <1>7, <1>8
    <3> HIDE DEF Q
    <3>3. queue' \in [Ends -> Q]
      BY <3>1, <3>2
    <3> QED
      BY <3>3 DEF Q
  <2>3. pc' \in [Ends -> {"greet", "read", "write", "done"}]
    BY <1>7 DEF TypeOK
  <2> QED
    BY <1>5, <2>1, <2>2, <2>3 DEF TypeOK
<1>11. ReadSent'
  BY <1>5 DEF ReadSent
<1>12. GreetedOnce'
  BY <1>5, <1>6, <1>7 DEF GreetedOnce, TypeOK
<1>13. BufferPerWrite'
  <2> SUFFICES ASSUME NEW f \in Ends
               PROVE  BufferPerWrite!(f)'
    BY DEF BufferPerWrite
  <2>1. CASE f = e /\ n = Len(left[e])
    <3>1. queue'[f] = << >> /\ pc'[f] = "read"
      BY <1>7, <1>8, <2>1 DEF TypeOK
    <3>2. Len(queue'[f]) <= 1
      BY <3>1
    <3> QED
      BY <3>1, <3>2
  <2>2. CASE f = e /\ n # Len(left[e])
    <3> DEFINE q == queue[e][1]
    <3>1. queue'[f] = queue[e] /\ pc'[f] = "write" /\ left'[f] = b
      BY <1>6, <1>7, <2>2 DEF TypeOK
    <3>2. q \in Seq(Nat) /\ queue[e] # << >> /\ Len(queue[e]) <= 1
      BY <1>8 DEF BufferPerWrite
    <3>3. /\ Len(left[e]) <= Len(q)
          /\ left[e] = SubSeq(q, Len(q) - Len(left[e]) + 1, Len(q))
      BY <3>2 DEF BufferPerWrite
    <3> HIDE DEF q
    <3>4. b = SubSeq(q, Len(q) - Len(b) + 1, Len(q))
      BY <1>2, <3>2, <3>3, SuffixOfSuffix DEF b
    <3>5. Len(b) <= Len(q)
      BY <1>2, <1>3, <3>2, <3>3
    <3> QED
      BY <3>1, <3>2, <3>4, <3>5 DEF q
  <2>3. CASE f # e
    <3>1. queue'[f] = queue[f] /\ left'[f] = left[f] /\ pc'[f] = pc[f]
      BY <1>6, <1>7, <2>3 DEF TypeOK
    <3> QED
      BY <3>1, <1>5 DEF BufferPerWrite
  <2> QED
    BY <2>1, <2>2, <2>3
<1> QED
  BY <1>10, <1>11, <1>12, <1>13

(* The ends act, or a coroutine gives up.                                  *)
LEMMA OthersIForward ==
  ASSUME IForward, NEW e \in Ends, Sends(e) \/ Leaves(e) \/ Fails(e)
  PROVE  IForward'
<1> USE DEF IForward
<1>1. CASE Sends(e)
  <2>1. /\ UNCHANGED <<end, got, zeros, pc, greetLeft, readCount, queue, left>>
        /\ sent' = [sent EXCEPT ![e] = sent[e] + 1] /\ sent[e] < MaxBytes
    BY <1>1 DEF Sends, bufferVars
  <2>2. TypeOK'
    BY <2>1, ForwardingAssumption DEF TypeOK
  <2>3. ReadSent'
    BY <2>1, ForwardingAssumption DEF ReadSent, TypeOK
  <2>4. GreetedOnce' /\ BufferPerWrite'
    BY <2>1 DEF GreetedOnce, BufferPerWrite
  <2> QED
    BY <2>2, <2>3, <2>4
<1>2. CASE Leaves(e)
  <2>1. /\ UNCHANGED <<sent, got, zeros, pc, greetLeft, readCount, queue, left>>
        /\ end[e] # "gone"
        /\ \E x \in {"shut", "gone"} : end' = [end EXCEPT ![e] = x]
    BY <1>2 DEF Leaves, bufferVars
  <2>2. TypeOK' /\ \A f \in Ends : end[f] = "gone" => end'[f] = "gone"
    BY <2>1 DEF TypeOK
  <2>3. ReadSent' /\ GreetedOnce'
    BY <2>1, <2>2 DEF ReadSent, GreetedOnce, TypeOK
  <2>4. BufferPerWrite'
    BY <2>1, <2>2, Peers DEF BufferPerWrite
  <2> QED
    BY <2>2, <2>3, <2>4
<1>3. CASE Fails(e)
  <2>1. /\ UNCHANGED <<end, sent, got, zeros, greetLeft, readCount, queue, left>>
        /\ pc' = [pc EXCEPT ![e] = "done"]
        /\ pc[e] = "write" => end[Peer(e)] = "gone"
        /\ pc[e] # "done"
    BY <1>3 DEF Fails, endVars, bufferVars
  <2>2. TypeOK'
    BY <2>1 DEF TypeOK
  <2>3. ReadSent' /\ GreetedOnce'
    BY <2>1 DEF ReadSent, GreetedOnce, TypeOK
  <2>4. BufferPerWrite'
    BY <2>1 DEF BufferPerWrite, TypeOK
  <2> QED
    BY <2>2, <2>3, <2>4
<1> QED
  BY <1>1, <1>2, <1>3

LEMMA NextIForward ==
  ASSUME IForward, [Next]_vars
  PROVE  IForward'
<1>1. CASE Finished \/ UNCHANGED vars
  <2>1. UNCHANGED <<end, sent, got, zeros, pc, greetLeft, readCount, queue, left>>
    BY <1>1 DEF Finished, vars, endVars, bufferVars
  <2> QED
    BY <2>1 DEF IForward, TypeOK, ReadSent, GreetedOnce, BufferPerWrite
<1> QED
  BY <1>1, GreetsIForward, ReadsIForward, WritesIForward, OthersIForward
     DEF Next, Step

LEMMA AlwaysIForward == Spec => []IForward
BY InitIForward, NextIForward, PTL DEF Spec

(* Every variable keeps its type: no coroutine reads more than there is or *)
(* greets beyond its greeting.                                             *)
THEOREM TypeCorrect == Spec => []TypeOK
<1>1. IForward => TypeOK
  BY DEF IForward
<1> QED
  BY <1>1, AlwaysIForward, PTL

(* Each end that stays receives one greeting, whole.                       *)
THEOREM OneGreeting == Spec => []GreetedOnce
<1>1. IForward => GreetedOnce
  BY DEF IForward
<1> QED
  BY <1>1, AlwaysIForward, PTL

(* The write handlers always find the buffer of the write that has         *)
(* completed, and free each buffer once.                                   *)
THEOREM OneBuffer == Spec => []BufferPerWrite
<1>1. IForward => BufferPerWrite
  BY DEF IForward
<1> QED
  BY <1>1, AlwaysIForward, PTL

-----------------------------------------------------------------------------
(* The two directions.                                                     *)

(* What the other end has received from e is a beginning of the stream of  *)
(* e, nothing is held between two writes, and, while the other end is      *)
(* there, what is held comes next.                                         *)
Stream(e) ==
  /\ got[Peer(e)] = Chunk(0, Len(got[Peer(e)]))
  /\ Len(got[Peer(e)]) <= readCount[e]
  /\ pc[e] \in {"greet", "read"} => left[e] = << >>
  /\ end[Peer(e)] # "gone" => got[Peer(e)] \o left[e] = Chunk(0, readCount[e])

IStream == \A e \in Ends : Stream(e)

LEMMA InitIStream == Init => IStream
<1> SUFFICES ASSUME Init, NEW e \in Ends
             PROVE  Stream(e)
  BY DEF IStream
<1>1. Chunk(0, 0) = << >>
  <2>1. Chunk(0, 0) \in Seq(Nat) /\ Len(Chunk(0, 0)) = 0
    BY ChunkFromStart
  <2> QED
    BY <2>1
<1>2. got[Peer(e)] = << >> /\ left[e] = << >> /\ readCount[e] = 0
  BY Peers DEF Init
<1> QED
  BY <1>1, <1>2 DEF Stream

(* The types of one direction.                                             *)
LEMMA StreamTypes ==
  ASSUME TypeOK, NEW e \in Ends
  PROVE  got[Peer(e)] \in Seq(Nat) /\ left[e] \in Seq(Nat) /\ readCount[e] \in Nat
BY Peers, ForwardingAssumption DEF TypeOK

(* A direction stays as it is when its coroutine does not read or write,   *)
(* though an end may go away and the coroutine may return.                 *)
LEMMA StreamFrame ==
  ASSUME TypeOK, NEW e \in Ends, Stream(e),
         UNCHANGED <<got[Peer(e)], left[e], readCount[e]>>,
         pc'[e] \in {"greet", "read"} => pc[e] \in {"greet", "read"},
         end[Peer(e)] = "gone" => end'[Peer(e)] = "gone"
  PROVE  Stream(e)'
BY DEF Stream

LEMMA ReadsStream ==
  ASSUME IForward, NEW e \in Ends, Stream(e),
         NEW n \in 1..ReadBufferLength, Reads(e, n)
  PROVE  Stream(e)'
<1> DEFINE g == got[Peer(e)]
           k == readCount[e]
<1>1. g \in Seq(Nat) /\ k \in Nat /\ n \in Nat
  BY StreamTypes DEF IForward
<1>2. /\ pc[e] = "read" /\ pc'[e] = "write"
      /\ left'[e] = Chunk(k, n) /\ readCount'[e] = k + n
      /\ UNCHANGED <<end, got>>
  BY DEF Reads, endVars, IForward, TypeOK
<1>3. Len(g) <= k + n
  BY <1>1 DEF Stream
<1>4. end[Peer(e)] # "gone" => g \o Chunk(k, n) = Chunk(0, k + n)
  <2> SUFFICES ASSUME end[Peer(e)] # "gone"
               PROVE  g \o Chunk(k, n) = Chunk(0, k + n)
    OBVIOUS
  <2>1. g \o << >> = Chunk(0, k)
    BY <1>2 DEF Stream
  <2> HIDE DEF g, k
  <2>2. g = Chunk(0, k)
    BY <1>1, <2>1
  <2> QED
    BY <1>1, <2>2, ChunkJoin
<1> QED
  BY <1>2, <1>3, <1>4 DEF Stream

LEMMA WritesStream ==
  ASSUME IForward, NEW e \in Ends, Stream(e),
         NEW n \in 1..ReadBufferLength, Writes(e, n)
  PROVE  /\ Stream(e)'
         /\ \/ UNCHANGED got[Peer(e)]
            \/ /\ n \in 1..(readCount[e] - Len(got[Peer(e)]))
               /\ got'[Peer(e)] =
                    got[Peer(e)] \o [i \in 1..n |-> Len(got[Peer(e)]) + i]
<1> DEFINE g == got[Peer(e)]
           t == left[e]
           k == readCount[e]
           a == SubSeq(t, 1, n)
           b == SubSeq(t, n + 1, Len(t))
<1>1. /\ g \in Seq(Nat) /\ t \in Seq(Nat) /\ k \in Nat
      /\ n \in 0..Len(t) /\ n \in Nat /\ n > 0
  BY StreamTypes, ForwardingAssumption DEF IForward, Writes
<1>2. /\ left'[e] = b /\ pc[e] = "write" /\ UNCHANGED <<end, readCount>>
      /\ pc'[e] \in {"greet", "read"} => n = Len(t)
  BY DEF Writes, endVars, IForward, TypeOK
<1>3. got'[Peer(e)] = IF end[Peer(e)] = "gone" THEN g ELSE g \o a
  BY Peers DEF Writes, IForward, TypeOK
<1>4. /\ a \in Seq(Nat) /\ b \in Seq(Nat) /\ Len(a) = n
      /\ Len(b) = Len(t) - n /\ (g \o a) \o b = g \o t
  BY <1>1, MovePrefix
<1>5. /\ g = Chunk(0, Len(g)) /\ Len(g) <= k
      /\ end[Peer(e)] # "gone" => g \o t = Chunk(0, k)
  BY DEF Stream
<1>6. n = Len(t) => b = << >>
  <2>1. n = Len(t) => Len(b) = 0
    BY <1>1, <1>4
  <2> HIDE DEF b
  <2> QED
    BY <1>4, <2>1
<1>7. CASE end[Peer(e)] = "gone"
  BY <1>2, <1>3, <1>5, <1>6, <1>7 DEF Stream
<1>8. CASE end[Peer(e)] # "gone"
  <2>1. (g \o a) \o b = Chunk(0, k) /\ g \o a \in Seq(Nat)
    <3> HIDE DEF g, a, b, t, k
    <3> QED
      BY <1>1, <1>4, <1>5, <1>8, Concat
  <2>2. g \o a = Chunk(0, Len(g \o a)) /\ Len(g \o a) + Len(b) = k
    <3> DEFINE h == g \o a
    <3>1. h \in Seq(Nat) /\ b \in Seq(Nat) /\ k \in Nat /\ h \o b = Chunk(0, k)
      BY <1>1, <1>4, <2>1
    <3> HIDE DEF g, b, h, k
    <3>2. h = Chunk(0, Len(h)) /\ Len(h) + Len(b) = k
      BY ONLY <3>1, ChunkSplit
    <3> QED
      BY <3>2 DEF h
  <2>3. a = Chunk(Len(g), n) /\ Len(g) + n <= k
    <3> HIDE DEF g, a, b, t, k
    <3>1. Len(g) \in Nat /\ Len(g \o a) \in Nat /\ Len(b) \in Nat
      BY <1>1, <1>4, <2>1, LenProperties
    <3>2. /\ a = Chunk(Len(g), Len(a))
          /\ Len(g) + Len(a) = Len(g \o a)
      <4> DEFINE m == Len(g \o a)
      <4>1. g \in Seq(Nat) /\ a \in Seq(Nat) /\ m \in Nat /\ g \o a = Chunk(0, m)
        BY <1>1, <1>4, <2>2, <3>1
      <4> HIDE DEF m
      <4>2. a = Chunk(Len(g), Len(a)) /\ Len(g) + Len(a) = m
        BY ONLY <4>1, ChunkSplit
      <4> QED
        BY <4>2 DEF m
    <3> QED
      BY <1>4, <2>2, <3>1, <3>2
  <2>4. Len(g) \in Nat /\ Len(g \o a) \in Nat /\ Len(b) \in Nat
    BY <1>1, <1>4, <2>1, LenProperties
  <2>5. Len(g \o a) <= k /\ n \in 1..(k - Len(g))
    <3> HIDE DEF g, a, b, t, k
    <3> QED
      BY <1>1, <2>2, <2>3, <2>4
  <2>6. Stream(e)'
    BY <1>2, <1>3, <1>6, <1>8, <2>1, <2>2, <2>5 DEF Stream
  <2> QED
    BY <1>3, <1>8, <2>3, <2>5, <2>6 DEF Chunk
<1> QED
  BY <1>7, <1>8

(* A step, for the direction of one end: the pipe is put into, delivers,   *)
(* or stays as it is.                                                      *)
PipeStep(e) ==
  \/ UNCHANGED <<sent[e], got[Peer(e)]>>
  \/ sent'[e] \in Nat /\ sent'[e] > sent[e] /\ UNCHANGED got[Peer(e)]
  \/ /\ \E n \in 1..(sent[e] - Len(got[Peer(e)])) :
           got'[Peer(e)] = got[Peer(e)] \o [i \in 1..n |-> Len(got[Peer(e)]) + i]
     /\ UNCHANGED sent[e]

LEMMA NextStream ==
  ASSUME IForward, NEW e \in Ends, Stream(e), [Next]_vars
  PROVE  Stream(e)' /\ PipeStep(e)
<1> DEFINE g == got[Peer(e)]
<1>0. /\ TypeOK /\ readCount[e] \in Nat /\ sent[e] \in Nat
      /\ readCount[e] <= sent[e] /\ Len(g) \in Nat /\ Peer(e) \in Ends
  <2>1. TypeOK /\ Peer(e) \in Ends /\ readCount[e] <= sent[e]
    BY Peers DEF IForward, ReadSent
  <2>2. g \in Seq(Nat) /\ readCount[e] \in Nat
    BY <2>1, StreamTypes
  <2>3. Len(g) \in Nat
    BY <2>2
  <2>4. sent[e] \in Nat
    BY <2>1, ForwardingAssumption DEF TypeOK
  <2> QED
    BY <2>1, <2>2, <2>3, <2>4
<1>1. ASSUME NEW f \in Ends, Sends(f)
      PROVE  Stream(e)' /\ PipeStep(e)
  <2>1. /\ UNCHANGED <<end, got, pc, readCount, left>>
        /\ sent' = [sent EXCEPT ![f] = sent[f] + 1]
    BY <1>1 DEF Sends, bufferVars
  <2>2. sent'[e] = sent[e] \/ sent'[e] = sent[e] + 1
    BY <1>0, <2>1 DEF TypeOK
  <2> QED
    BY <1>0, <2>1, <2>2, StreamFrame DEF PipeStep
<1>2. ASSUME NEW f \in Ends, Leaves(f)
      PROVE  Stream(e)' /\ PipeStep(e)
  <2>1. /\ UNCHANGED <<sent, got, pc, readCount, left>>
        /\ end[Peer(e)] = "gone" => end'[Peer(e)] = "gone"
    BY <1>0, <1>2 DEF Leaves, bufferVars, TypeOK
  <2> QED
    BY <1>0, <2>1, StreamFrame DEF PipeStep
<1>3. ASSUME NEW f \in Ends, NEW n \in 1..Greeting, Greets(f, n)
      PROVE  Stream(e)' /\ PipeStep(e)
  <2>1. /\ UNCHANGED <<end, sent, got, readCount, left>>
        /\ pc'[e] \in {"greet", "read"} => pc[e] \in {"greet", "read"}
    BY <1>0, <1>3 DEF Greets, endVars, bufferVars, TypeOK
  <2> QED
    BY <1>0, <2>1, StreamFrame DEF PipeStep
<1>4. ASSUME NEW f \in Ends, Fails(f)
      PROVE  Stream(e)' /\ PipeStep(e)
  <2>1. /\ UNCHANGED <<end, sent, got, readCount, left>>
        /\ pc'[e] \in {"greet", "read"} => pc[e] \in {"greet", "read"}
    BY <1>0, <1>4 DEF Fails, endVars, bufferVars, TypeOK
  <2> QED
    BY <1>0, <2>1, StreamFrame DEF PipeStep
<1>5. ASSUME NEW f \in Ends, NEW n \in 1..ReadBufferLength, Reads(f, n)
      PROVE  Stream(e)' /\ PipeStep(e)
  <2>1. UNCHANGED <<end, sent, got>>
    BY <1>5 DEF Reads, endVars
  <2>2. CASE f = e
    BY <1>5, <2>1, <2>2, ReadsStream DEF PipeStep
  <2>3. CASE f # e
    <3>1. UNCHANGED <<pc[e], readCount[e], left[e]>>
      BY <1>0, <1>5, <2>3 DEF Reads, TypeOK
    <3> QED
      BY <1>0, <2>1, <3>1, StreamFrame DEF PipeStep
  <2> QED
    BY <2>2, <2>3
<1>6. ASSUME NEW f \in Ends, NEW n \in 1..ReadBufferLength, Writes(f, n)
      PROVE  Stream(e)' /\ PipeStep(e)
  <2>1. UNCHANGED <<end, sent, readCount>>
    BY <1>6 DEF Writes, endVars
  <2>2. CASE f = e
    <3>1. /\ Stream(e)'
          /\ \/ UNCHANGED g
             \/ /\ n \in 1..(readCount[e] - Len(g))
                /\ got'[Peer(e)] = g \o [i \in 1..n |-> Len(g) + i]
      BY <1>6, <2>2, WritesStream
    <3>2. n \in 1..(readCount[e] - Len(g)) => n \in 1..(sent[e] - Len(g))
      BY <1>0
    <3> QED
      BY <2>1, <3>1, <3>2 DEF PipeStep
  <2>3. CASE f # e
    <3>1. Peer(f) # Peer(e)
      BY <2>3, Peers
    <3>2. UNCHANGED <<pc[e], left[e], got[Peer(e)]>>
      BY <1>0, <1>6, <2>3, <3>1 DEF Writes, TypeOK
    <3> QED
      BY <1>0, <2>1, <3>2, StreamFrame DEF PipeStep
  <2> QED
    BY <2>2, <2>3
<1>7. CASE Finished \/ UNCHANGED vars
  <2>1. UNCHANGED <<end, sent, got, pc, readCount, left>>
    BY <1>7 DEF Finished, vars, endVars, bufferVars
  <2> QED
    BY <1>0, <2>1, StreamFrame DEF PipeStep
<1> QED
  BY <1>1, <1>2, <1>3, <1>4, <1>5, <1>6, <1>7 DEF Next, Step

LEMMA AlwaysIStream == Spec => []IStream
<1>1. IForward /\ IStream /\ [Next]_vars => IStream'
  BY NextStream DEF IStream
<1> QED
  BY <1>1, InitIStream, AlwaysIForward, PTL DEF Spec

(* No byte is lost, repeated or reordered in either direction while the    *)
(* end it goes to is there.                                                *)
THEOREM Conserved == Spec => []Conservation
<1>1. IStream => Conservation
  BY DEF IStream, Stream, Conservation
<1> QED
  BY <1>1, AlwaysIStream, PTL

(* run implements the pipe from the source to the destination.             *)
LEMMA RunImplementsPipe == Spec => RunIsAPipe
<1>1. Init => FromSource!Init
  BY DEF Init, FromSource!Init, Ends
<1>2. IForward /\ IStream /\ [Next]_vars => [FromSource!Next]_(FromSource!vars)
  <2> SUFFICES ASSUME IForward, IStream, [Next]_vars
               PROVE  [FromSource!Next]_(FromSource!vars)
    OBVIOUS
  <2>1. "src" \in Ends /\ Peer("src") = "dest"
    BY DEF Ends, Peer
  <2>2. PipeStep("src")
    BY <2>1, NextStream DEF IStream
  <2> QED
    BY <2>1, <2>2 DEF PipeStep, FromSource!Next, FromSource!Put,
                      FromSource!Deliver, FromSource!vars
<1> QED
  BY <1>1, <1>2, AlwaysIForward, AlwaysIStream, PTL
     DEF Spec, RunIsAPipe, FromSource!Spec

(* run2 implements the pipe from the destination to the source.            *)
LEMMA Run2ImplementsPipe == Spec => Run2IsAPipe
<1>1. Init => FromDest!Init
  BY DEF Init, FromDest!Init, Ends
<1>2. IForward /\ IStream /\ [Next]_vars => [FromDest!Next]_(FromDest!vars)
  <2> SUFFICES ASSUME IForward, IStream, [Next]_vars
               PROVE  [FromDest!Next]_(FromDest!vars)
    OBVIOUS
  <2>1. "dest" \in Ends /\ Peer("dest") = "src"
    BY DEF Ends, Peer
  <2>2. PipeStep("dest")
    BY <2>1, NextStream DEF IStream
  <2> QED
    BY <2>1, <2>2 DEF PipeStep, FromDest!Next, FromDest!Put,
                      FromDest!Deliver, FromDest!vars
<1> QED
  BY <1>1, <1>2, AlwaysIForward, AlwaysIStream, PTL
     DEF Spec, Run2IsAPipe, FromDest!Spec

(* Neither coroutine disturbs the pipe of the other.                       *)
THEOREM ImplementsPipes == Spec => BothArePipes
BY RunImplementsPipe, Run2ImplementsPipe DEF BothArePipes

(* What an end that stays receives is whole.                               *)
THEOREM StaysIntact == Spec => []Intact
BY Conserved, OneGreeting, PTL DEF Intact

-----------------------------------------------------------------------------
(* The measure of what is left to do.                                      *)

LEMMA LeftInNat ==
  ASSUME TypeOK, NEW e \in Ends
  PROVE  EndLeft(e) \in Nat /\ CoroutineLeft(e) \in Nat
<1>1. /\ MaxBytes \in Nat /\ sent[e] \in 0..MaxBytes
      /\ readCount[e] \in 0..MaxBytes /\ greetLeft[e] \in Nat
      /\ Len(left[e]) \in Nat
  BY ForwardingAssumption DEF TypeOK
<1>2. EndLeft(e) \in Nat
  BY <1>1 DEF EndLeft
<1>3. CoroutineLeft(e) \in Nat
  BY <1>1, SMTT(20) DEF CoroutineLeft
<1> QED
  BY <1>2, <1>3

LEMMA LeftAfterInNat ==
  ASSUME TypeOK', NEW e \in Ends
  PROVE  EndLeft(e)' \in Nat /\ CoroutineLeft(e)' \in Nat
<1>1. /\ MaxBytes \in Nat /\ sent'[e] \in 0..MaxBytes
      /\ readCount'[e] \in 0..MaxBytes /\ greetLeft'[e] \in Nat
      /\ Len(left'[e]) \in Nat
  BY ForwardingAssumption DEF TypeOK
<1>2. EndLeft(e)' \in Nat
  BY <1>1 DEF EndLeft
<1>3. CoroutineLeft(e)' \in Nat
  BY <1>1, SMTT(20) DEF CoroutineLeft
<1> QED
  BY <1>2, <1>3

LEMMA LeftAtFirst == Init => StepsLeft <= 2 * Greeting + 6 * MaxBytes + 6
<1> SUFFICES ASSUME Init
             PROVE  StepsLeft <= 2 * Greeting + 6 * MaxBytes + 6
  OBVIOUS
<1>1. \A e \in Ends : EndLeft(e) = MaxBytes + 2
  BY ForwardingAssumption DEF Init, EndLeft
<1>2. \A e \in Ends : CoroutineLeft(e) = Greeting + 2 * MaxBytes + 1
  BY ForwardingAssumption DEF Init, CoroutineLeft
<1> QED
  BY <1>1, <1>2, ForwardingAssumption DEF StepsLeft, Ends

(* What a step leaves alone.                                               *)
SameEnd(e) == EndLeft(e)' = EndLeft(e)
SameCoroutine(e) == CoroutineLeft(e)' = CoroutineLeft(e)

(* An end that acts costs itself, and nothing else.                        *)
LEMMA EndLowers ==
  ASSUME TypeOK, NEW e \in Ends, Sends(e) \/ Leaves(e)
  PROVE  /\ EndLeft(e)' < EndLeft(e)
         /\ \A f \in Ends : SameCoroutine(f) /\ (f # e => SameEnd(f))
<1>1. /\ MaxBytes \in Nat /\ sent[e] \in 0..MaxBytes
      /\ end[e] \in {"open", "shut", "gone"}
  BY ForwardingAssumption DEF TypeOK
<1>2. \A f \in Ends : SameCoroutine(f)
  BY DEF Sends, Leaves, bufferVars, SameCoroutine, CoroutineLeft
<1>3. \A f \in Ends : f # e => SameEnd(f)
  BY DEF Sends, Leaves, TypeOK, SameEnd, EndLeft
<1>4. CASE Sends(e)
  <2>1. sent'[e] = sent[e] + 1 /\ sent[e] < MaxBytes /\ end' = end
    BY <1>4 DEF Sends, TypeOK
  <2>2. EndLeft(e)' < EndLeft(e)
    BY <1>1, <2>1 DEF EndLeft
  <2> QED
    BY <1>2, <1>3, <2>2
<1>5. CASE Leaves(e)
  <2>1. /\ sent' = sent /\ end[e] # "gone"
        /\ end'[e] \in {"shut", "gone"} \ {end[e]}
    BY <1>5 DEF Leaves, TypeOK
  <2>2. EndLeft(e)' < EndLeft(e)
    BY <1>1, <2>1 DEF EndLeft
  <2> QED
    BY <1>2, <1>3, <2>2
<1> QED
  BY <1>4, <1>5

(* Neither coroutine touches what the other has under way.                 *)
LEMMA OtherCoroutineAlone ==
  ASSUME TypeOK, NEW e \in Ends, NEW f \in Ends, f # e, Step(e)
  PROVE  /\ greetLeft'[f] = greetLeft[f] /\ readCount'[f] = readCount[f]
         /\ left'[f] = left[f] /\ pc'[f] = pc[f]
BY DEF Step, Greets, Reads, Writes, Fails, bufferVars, TypeOK

(* A coroutine that acts costs itself, and nothing else: a read pays for   *)
(* the writes of what it brings.                                           *)
LEMMA CoroutineLowers ==
  ASSUME TypeOK, NEW e \in Ends, Step(e)
  PROVE  /\ CoroutineLeft(e)' < CoroutineLeft(e)
         /\ \A f \in Ends : SameEnd(f) /\ (f # e => SameCoroutine(f))
<1>1. /\ MaxBytes \in Nat /\ readCount[e] \in 0..MaxBytes
      /\ greetLeft[e] \in Nat /\ Greeting \in Nat
      /\ left[e] \in Seq(Nat) /\ Len(left[e]) \in Nat
      /\ ReadBufferLength \in Nat
  BY ForwardingAssumption DEF TypeOK
<1>2. \A f \in Ends : SameEnd(f)
  BY DEF Step, Greets, Reads, Writes, Fails, endVars, SameEnd, EndLeft
<1>3. \A f \in Ends : f # e => SameCoroutine(f)
  <2> SUFFICES ASSUME NEW f \in Ends, f # e
               PROVE  SameCoroutine(f)
    OBVIOUS
  <2>1. /\ greetLeft'[f] = greetLeft[f] /\ readCount'[f] = readCount[f]
        /\ left'[f] = left[f] /\ pc'[f] = pc[f]
    BY OtherCoroutineAlone
  <2> QED
    BY <2>1 DEF SameCoroutine, CoroutineLeft
<1>4. ASSUME NEW n \in 1..Greeting, Greets(e, n)
      PROVE  CoroutineLeft(e)' < CoroutineLeft(e)
  <2>1. n \in Nat /\ n >= 1 /\ n <= greetLeft[e]
    BY <1>1, <1>4 DEF Greets
  <2>2. /\ greetLeft'[e] = greetLeft[e] - n /\ readCount' = readCount
        /\ left' = left /\ pc[e] # "done" /\ pc'[e] # "done"
    BY <1>4 DEF Greets, TypeOK, bufferVars
  <2>3. PICK k \in Nat : k = 2 * (MaxBytes - readCount[e])
    BY <1>1
  <2>4. /\ CoroutineLeft(e) = greetLeft[e] + k + Len(left[e]) + 1
        /\ CoroutineLeft(e)' = (greetLeft[e] - n) + k + Len(left[e]) + 1
    BY <2>2, <2>3 DEF CoroutineLeft
  <2>5. (greetLeft[e] - n) + k + Len(left[e]) + 1 < greetLeft[e] + k + Len(left[e]) + 1
    BY <1>1, <2>1, SMTT(20)
  <2> QED
    BY <2>4, <2>5, Zenon
<1>5. ASSUME NEW n \in 1..ReadBufferLength, Reads(e, n)
      PROVE  CoroutineLeft(e)' < CoroutineLeft(e)
  <2>1. n \in Nat /\ n >= 1 /\ Len(Chunk(readCount[e], n)) = n
    <3>1. readCount[e] \in Nat /\ n \in Nat /\ n >= 1
      BY <1>1
    <3> QED
      BY <3>1, ChunkType
  <2>2. /\ readCount'[e] = readCount[e] + n /\ greetLeft' = greetLeft
        /\ Len(left'[e]) = n /\ pc[e] # "done" /\ pc'[e] # "done"
    BY <1>5, <2>1 DEF Reads, TypeOK
  <2>3. CoroutineLeft(e)' = greetLeft[e] + 2 * (MaxBytes - (readCount[e] + n)) + n + 1
    BY <2>2 DEF CoroutineLeft
  <2>4. CoroutineLeft(e) = greetLeft[e] + 2 * (MaxBytes - readCount[e]) + Len(left[e]) + 1
    BY <2>2 DEF CoroutineLeft
  <2> QED
    BY <1>1, <2>1, <2>3, <2>4, SMTT(20)
<1>6. ASSUME NEW n \in 1..ReadBufferLength, Writes(e, n)
      PROVE  CoroutineLeft(e)' < CoroutineLeft(e)
  <2>1. n \in Nat /\ n >= 1 /\ n <= Len(left[e])
    BY <1>1, <1>6 DEF Writes
  <2>2. Len(SubSeq(left[e], n + 1, Len(left[e]))) = Len(left[e]) - n
    BY <1>1, <2>1
  <2>3. /\ readCount' = readCount /\ greetLeft' = greetLeft
        /\ Len(left'[e]) = Len(left[e]) - n
        /\ pc[e] # "done" /\ pc'[e] # "done"
    BY <1>6, <2>2 DEF Writes, TypeOK
  <2>4. PICK k \in Nat : k = greetLeft[e] + 2 * (MaxBytes - readCount[e])
    BY <1>1
  <2>5. /\ CoroutineLeft(e) = k + Len(left[e]) + 1
        /\ CoroutineLeft(e)' = k + (Len(left[e]) - n) + 1
    BY <2>3, <2>4 DEF CoroutineLeft
  <2>6. k + (Len(left[e]) - n) + 1 < k + Len(left[e]) + 1
    BY <1>1, <2>1
  <2> QED
    BY <2>5, <2>6, Zenon
<1>7. ASSUME Fails(e)
      PROVE  CoroutineLeft(e)' < CoroutineLeft(e)
  <2>1. /\ UNCHANGED <<readCount, greetLeft, left>>
        /\ pc[e] # "done" /\ pc'[e] = "done"
    BY <1>7 DEF Fails, TypeOK, bufferVars
  <2>2. PICK k \in Nat :
          k = greetLeft[e] + 2 * (MaxBytes - readCount[e]) + Len(left[e])
    BY <1>1
  <2>3. CoroutineLeft(e) = k + 1 /\ CoroutineLeft(e)' = k + 0
    BY <2>1, <2>2 DEF CoroutineLeft
  <2>4. k + 0 < k + 1
    OBVIOUS
  <2> QED
    BY <2>3, <2>4, Zenon
<1> QED
  BY <1>2, <1>3, <1>4, <1>5, <1>6, <1>7 DEF Step

(* Where a coroutine waits it waits for an end: a greeting or a buffer     *)
(* being written has bytes left, and a coroutine that has returned, both   *)
(* ends being there, had read and written everything.                      *)
Goes(e) ==
  /\ pc[e] = "greet" => greetLeft[e] > 0
  /\ pc[e] = "write" => left[e] # << >>
  /\ pc[e] = "done" /\ (\A f \in Ends : end[f] # "gone")
       => left[e] = << >> /\ end[e] = "shut" /\ readCount[e] = sent[e]

IGoes == \A e \in Ends : Goes(e)

LEMMA InitIGoes == Init => IGoes
BY ForwardingAssumption DEF Init, IGoes, Goes

(* A step of another end or coroutine leaves it as it is.                  *)
LEMMA GoesFrame ==
  ASSUME NEW e \in Ends, Goes(e),
         UNCHANGED <<pc[e], greetLeft[e], left[e], readCount[e], sent[e]>>,
         end'[e] = end[e],
         \A f \in Ends : end[f] = "gone" => end'[f] = "gone"
  PROVE  Goes(e)'
BY DEF Goes

LEMMA OwnStepGoes ==
  ASSUME TypeOK, TypeOK', NEW e \in Ends, Stream(e), Goes(e), Step(e)
  PROVE  Goes(e)'
<1>1. ASSUME NEW n \in 1..Greeting, Greets(e, n)
      PROVE  Goes(e)'
  <2>1. greetLeft[e] \in Nat /\ n \in Nat /\ n <= greetLeft[e]
    BY <1>1, ForwardingAssumption DEF TypeOK, Greets
  <2>2. /\ greetLeft'[e] = greetLeft[e] - n
        /\ pc'[e] = IF n = greetLeft[e] THEN "read" ELSE "greet"
    BY <1>1 DEF Greets, TypeOK
  <2> QED
    BY <2>1, <2>2 DEF Goes
<1>2. ASSUME NEW n \in 1..ReadBufferLength, Reads(e, n)
      PROVE  Goes(e)'
  <2>1. readCount[e] \in Nat /\ n \in Nat /\ n > 0
    BY ForwardingAssumption DEF TypeOK
  <2>2. Len(Chunk(readCount[e], n)) = n
    BY <2>1, ChunkType
  <2>3. left'[e] # << >> /\ pc'[e] = "write"
    BY <1>2, <2>1, <2>2 DEF Reads, TypeOK
  <2> QED
    BY <2>3 DEF Goes
<1>3. ASSUME NEW n \in 1..ReadBufferLength, Writes(e, n)
      PROVE  Goes(e)'
  <2>1. left[e] \in Seq(Nat) /\ n \in 1..Len(left[e]) /\ pc[e] = "write"
    BY <1>3, ForwardingAssumption DEF TypeOK, Writes
  <2>2. Len(SubSeq(left[e], n + 1, Len(left[e]))) = Len(left[e]) - n
    BY <2>1
  <2>3. /\ Len(left'[e]) = Len(left[e]) - n
        /\ pc'[e] = IF n = Len(left[e]) THEN "read" ELSE "write"
    BY <1>3, <2>1, <2>2 DEF Writes, TypeOK
  <2>4. pc'[e] = "write" => left'[e] # << >>
    BY <2>1, <2>3
  <2> QED
    BY <2>3, <2>4 DEF Goes
<1>4. CASE Fails(e)
  <2>1. /\ UNCHANGED <<end, sent, readCount, left>> /\ pc'[e] = "done"
    BY <1>4 DEF Fails, endVars, bufferVars, TypeOK
  <2>2. ASSUME \A f \in Ends : end[f] # "gone"
        PROVE  pc[e] = "read" /\ end[e] = "shut" /\ readCount[e] = sent[e]
    BY <1>4, <2>2, Peers DEF Fails
  <2>3. pc[e] = "read" => left[e] = << >>
    BY DEF Stream
  <2> QED
    BY <2>1, <2>2, <2>3 DEF Goes
<1> QED
  BY <1>1, <1>2, <1>3, <1>4 DEF Step

LEMMA NextIGoes ==
  ASSUME TypeOK, TypeOK', IStream, IGoes, [Next]_vars
  PROVE  IGoes'
<1> SUFFICES ASSUME NEW f \in Ends
             PROVE  Goes(f)'
  BY DEF IGoes
<1>1. Goes(f) /\ Stream(f)
  BY DEF IGoes, IStream
<1>2. CASE Finished \/ UNCHANGED vars
  <2>1. UNCHANGED <<end, sent, pc, greetLeft, left, readCount>>
    BY <1>2 DEF Finished, vars, endVars, bufferVars
  <2> QED
    BY <1>1, <2>1, GoesFrame
<1>3. ASSUME NEW e \in Ends, Step(e)
      PROVE  Goes(f)'
  <2>1. CASE e = f
    BY <1>1, <1>3, <2>1, OwnStepGoes
  <2>2. CASE e # f
    <3>1. UNCHANGED <<end, sent>>
      BY <1>3 DEF Step, Greets, Reads, Writes, Fails, endVars
    <3>2. /\ greetLeft'[f] = greetLeft[f] /\ readCount'[f] = readCount[f]
          /\ left'[f] = left[f] /\ pc'[f] = pc[f]
      BY <1>3, <2>2, OtherCoroutineAlone
    <3> QED
      BY <1>1, <3>1, <3>2, GoesFrame
  <2> QED
    BY <2>1, <2>2
<1>4. ASSUME NEW e \in Ends, Sends(e)
      PROVE  Goes(f)'
  <2>1. /\ UNCHANGED <<end, pc, greetLeft, left, readCount>>
        /\ end[e] = "open" /\ (f # e => sent'[f] = sent[f])
    BY <1>4 DEF Sends, bufferVars, TypeOK
  <2> QED
    BY <1>1, <2>1 DEF Goes
<1>5. ASSUME NEW e \in Ends, Leaves(e)
      PROVE  Goes(f)'
  <2>1. /\ UNCHANGED <<sent, pc, greetLeft, left, readCount>>
        /\ \A g \in Ends : end[g] \in {"shut", "gone"} => end'[g] \in {end[g], "gone"}
    BY <1>5 DEF Leaves, bufferVars, TypeOK
  <2> QED
    BY <1>1, <2>1 DEF Goes
<1> QED
  BY <1>2, <1>3, <1>4, <1>5 DEF Next

(* So what can do nothing more has delivered all.                          *)
LEMMA GoesToTheEnd ==
  ASSUME TypeOK, ReadSent, IStream, IGoes
  PROVE  NothingHeldBack
<1> SUFFICES ASSUME NEW e \in Ends, ~CanGo(e), \A f \in Ends : end[f] # "gone"
             PROVE  got[Peer(e)] = Chunk(0, sent[e])
  BY DEF NothingHeldBack
<1>1. /\ got[Peer(e)] \in Seq(Nat) /\ pc[e] \in {"greet", "read", "write", "done"}
      /\ readCount[e] \in Nat /\ sent[e] \in Nat /\ readCount[e] <= sent[e]
  BY Peers, ForwardingAssumption DEF TypeOK, ReadSent
<1>2. Stream(e) /\ Goes(e) /\ end[Peer(e)] # "gone"
  BY Peers DEF IStream, IGoes
<1>3. left[e] = << >> /\ readCount[e] = sent[e]
  BY <1>1, <1>2 DEF Stream, Goes, CanGo
<1>4. got[Peer(e)] \o << >> = Chunk(0, sent[e])
  BY <1>2, <1>3 DEF Stream
<1> QED
  BY <1>1, <1>4

(* A connection comes to rest after 2 * Greeting + 6 * MaxBytes + 6 steps  *)
(* at most, with nothing held back.                                        *)
THEOREM ComesToRest == Spec => Settles
<1>1. IForward /\ IForward' /\ [Next]_vars
        => [StepsLeft' \in Nat /\ StepsLeft' < StepsLeft]_vars
  <2> SUFFICES ASSUME TypeOK, TypeOK', Next, vars' # vars
               PROVE  StepsLeft' \in Nat /\ StepsLeft' < StepsLeft
    BY DEF IForward
  <2>1. "src" \in Ends /\ "dest" \in Ends /\ \A e \in Ends : e \in {"src", "dest"}
    BY DEF Ends
  <2>2. /\ EndLeft("src") \in Nat /\ EndLeft("dest") \in Nat
        /\ CoroutineLeft("src") \in Nat /\ CoroutineLeft("dest") \in Nat
        /\ EndLeft("src")' \in Nat /\ EndLeft("dest")' \in Nat
        /\ CoroutineLeft("src")' \in Nat /\ CoroutineLeft("dest")' \in Nat
    BY <2>1, LeftInNat, LeftAfterInNat
  <2>3. PICK e \in Ends : Sends(e) \/ Leaves(e) \/ Step(e)
    BY DEF Next, Finished
  <2>4. \/ /\ EndLeft(e)' < EndLeft(e)
           /\ \A f \in Ends : SameCoroutine(f) /\ (f # e => SameEnd(f))
        \/ /\ CoroutineLeft(e)' < CoroutineLeft(e)
           /\ \A f \in Ends : SameEnd(f) /\ (f # e => SameCoroutine(f))
    BY <2>3, EndLowers, CoroutineLowers
  <2>5. \/ /\ EndLeft("src")' < EndLeft("src") /\ SameEnd("dest")
           /\ SameCoroutine("src") /\ SameCoroutine("dest")
        \/ /\ EndLeft("dest")' < EndLeft("dest") /\ SameEnd("src")
           /\ SameCoroutine("src") /\ SameCoroutine("dest")
        \/ /\ CoroutineLeft("src")' < CoroutineLeft("src")
           /\ SameCoroutine("dest") /\ SameEnd("src") /\ SameEnd("dest")
        \/ /\ CoroutineLeft("dest")' < CoroutineLeft("dest")
           /\ SameCoroutine("src") /\ SameEnd("src") /\ SameEnd("dest")
    <3>1. CASE e = "src"
      BY <2>1, <2>4, <3>1
    <3>2. CASE e = "dest"
      BY <2>1, <2>4, <3>2
    <3> QED
      BY <2>1, <3>1, <3>2
  <2>6. \A a, b, c, d, w, x, y, z \in Nat :
          \/ w < a /\ x = b /\ y = c /\ z = d
          \/ x < b /\ w = a /\ y = c /\ z = d
          \/ y < c /\ z = d /\ w = a /\ x = b
          \/ z < d /\ y = c /\ w = a /\ x = b
          => w + x + y + z \in Nat /\ w + x + y + z < a + b + c + d
    OBVIOUS
  <2> QED
    BY ONLY <2>2, <2>5, <2>6 DEF StepsLeft, SameEnd, SameCoroutine
<1>2. Init => IGoes
  BY InitIGoes
<1>3. IForward /\ IForward' /\ IStream /\ IGoes /\ [Next]_vars => IGoes'
  BY NextIGoes DEF IForward
<1>4. IForward /\ IStream /\ IGoes => NothingHeldBack
  BY GoesToTheEnd DEF IForward
<1> QED
  BY <1>1, <1>2, <1>3, <1>4, LeftAtFirst, AlwaysIForward, AlwaysIStream, PTL
     DEF Spec, Settles
===============================================================================
