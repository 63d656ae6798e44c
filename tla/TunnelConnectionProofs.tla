----------------------- MODULE TunnelConnectionProofs -----------------------
(***************************************************************************)
(* What is proved of TunnelConnection for every buffer size, every set of  *)
(* windows and any number of bytes.  What a step does to the bytes of one  *)
(* direction is a fact about chunks (StreamLemmas); the invariants IPull   *)
(* and IPush say which chunk each variable holds.                          *)
(***************************************************************************)
EXTENDS TunnelConnection, StreamLemmas, TLAPS

-----------------------------------------------------------------------------
(* Types.                                                                  *)

(* Each coroutine holds at most one buffer, and has never read more than   *)
(* was sent: src_read_buffer and buffer are never overrun.                 *)
THEOREM TypeCorrect == Spec => []TypeOK
<1>1. Init => TypeOK
  <2> SUFFICES ASSUME Init
               PROVE  TypeOK
    OBVIOUS
  <2>1. /\ clientState \in {"open", "shut", "gone"}
        /\ push \in {"none", "read", "write", "done"}
        /\ channelState \in {"open", "eof", "closed", "failed"}
        /\ pull \in {"read", "write", "done"}
        /\ spinning \in BOOLEAN /\ cutShort \in BOOLEAN
    BY DEF Init
  <2>2. /\ clientSent \in 0..MaxBytes /\ srcRead \in 0..clientSent
        /\ remoteSent \in 0..MaxBytes /\ channelRead \in 0..remoteSent
        /\ writtenBytes \in Nat /\ starved \in Nat
    BY ConnectionAssumption DEF Init
  <2>3. /\ clientGot \in Seq(Nat) /\ remoteGot \in Seq(Nat)
        /\ commandStr \in Seq(Nat) /\ Len(commandStr) = 0
        /\ bufferStr \in Seq(Nat) /\ Len(bufferStr) = 0
    BY DEF Init
  <2> QED
    BY <2>1, <2>2, <2>3, ConnectionAssumption DEF TypeOK
<1>2. TypeOK /\ [Next]_vars => TypeOK'
  <2> SUFFICES ASSUME TypeOK, [Next]_vars
               PROVE  TypeOK'
    OBVIOUS
  <2> USE ConnectionAssumption
          DEF TypeOK, clientVars, pushVars, remoteVars, pullVars
  <2>1. CASE ClientSends
    BY <2>1 DEF ClientSends
  <2>2. CASE ClientLeaves
    BY <2>2 DEF ClientLeaves
  <2>3. CASE RemoteSends
    BY <2>3 DEF RemoteSends
  <2>4. CASE RemoteEnds
    BY <2>4 DEF RemoteEnds
  <2>5. CASE ChannelFails
    BY <2>5 DEF ChannelFails
  <2>6. CASE PushStep
    <3>1. ASSUME NEW n \in 1..ReadBufferLength, PushReads(n)
          PROVE  TypeOK'
      <4>1. Chunk(srcRead, n) \in Seq(Nat) /\ Len(Chunk(srcRead, n)) = n
        <5>1. srcRead \in Nat /\ n \in Nat
          OBVIOUS
        <5> QED
          BY <5>1, ChunkType
      <4> QED
        BY <3>1, <4>1 DEF PushReads, SendStarts
    <3>2. CASE PushStarts \/ PushReadFails
      BY <3>2 DEF PushStarts, PushReadFails
    <3>3. ASSUME NEW w \in Windows, PushWrites(w)
          PROVE  TypeOK'
      <4> DEFINE rc == Least(w, Len(commandStr))
      <4>1. rc \in 0..Len(commandStr)
        BY DEF Least
      <4>2. SubSeq(commandStr, 1, rc) \in Seq(Nat)
        BY <4>1, MovePrefix
      <4> HIDE DEF rc
      <4>3. remoteGot \o SubSeq(commandStr, 1, rc) \in Seq(Nat)
        BY <4>2, Concat
      <4>4. writtenBytes + rc \in Nat /\ starved' \in Nat
        BY <3>3, <4>1 DEF PushWrites
      <4> QED
        BY <3>3, <4>3, <4>4 DEF PushWrites, rc
    <3>4. CASE PushWriteFails
      BY <3>4 DEF PushWriteFails
    <3> QED
      BY <2>6, <3>1, <3>2, <3>3, <3>4 DEF PushStep
  <2>7. CASE PullStep
    <3>1. ASSUME NEW n \in 1..ChannelBuffer, PullReads(n)
          PROVE  TypeOK'
      <4>1. Chunk(channelRead, n) \in Seq(Nat) /\ Len(Chunk(channelRead, n)) = n
        <5>1. channelRead \in Nat /\ n \in Nat
          OBVIOUS
        <5> QED
          BY <5>1, ChunkType
      <4>2. channelRead' \in 0..remoteSent'
        BY <3>1 DEF PullReads
      <4>3. bufferStr' \in Seq(Nat) /\ Len(bufferStr') <= ChannelBuffer
        BY <3>1, <4>1 DEF PullReads
      <4> QED
        BY <3>1, <4>2, <4>3 DEF PullReads
    <3>2. CASE PullReadsNothing
      BY <3>2 DEF PullReadsNothing
    <3>3. ASSUME NEW n \in 1..ChannelBuffer, PullWrites(n)
          PROVE  TypeOK'
      <4>1. n \in 0..Len(bufferStr)
        BY <3>3 DEF PullWrites
      <4>2. /\ SubSeq(bufferStr, 1, n) \in Seq(Nat)
            /\ SubSeq(bufferStr, n + 1, Len(bufferStr)) \in Seq(Nat)
            /\ Len(SubSeq(bufferStr, n + 1, Len(bufferStr))) <= ChannelBuffer
        BY <4>1, MovePrefix
      <4>3. clientGot \o SubSeq(bufferStr, 1, n) \in Seq(Nat)
        BY <4>2, Concat
      <4>4. clientGot' \in Seq(Nat)
        BY <3>3, <4>3 DEF PullWrites
      <4> QED
        BY <3>3, <4>2, <4>4 DEF PullWrites
    <3>4. CASE PullWriteFails
      BY <3>4 DEF PullWriteFails
    <3> QED
      BY <2>7, <3>1, <3>2, <3>3, <3>4 DEF PullStep
  <2>8. CASE Finished \/ UNCHANGED vars
    BY <2>8 DEF Finished, vars
  <2> QED
    BY <2>1, <2>2, <2>3, <2>4, <2>5, <2>6, <2>7, <2>8 DEF Next
<1> QED
  BY <1>1, <1>2, PTL DEF Spec

-----------------------------------------------------------------------------
(* The direction of runPull.                                               *)

(* What the application has received is a beginning of the stream, and     *)
(* what runPull holds is what comes next of it.                            *)
IPull ==
  /\ clientGot = Chunk(0, Len(clientGot))
  /\ Len(clientGot) <= channelRead
  /\ pull = "read" => bufferStr = << >>
  /\ PullConservation

LEMMA InitIPull == Init => IPull
<1> SUFFICES ASSUME Init
             PROVE  IPull
  OBVIOUS
<1>1. Chunk(0, 0) = << >>
  <2>1. /\ Chunk(0, 0) \in Seq(Nat) /\ Len(Chunk(0, 0)) = 0
    BY ChunkFromStart
  <2> QED
    BY <2>1
<1> QED
  BY <1>1 DEF Init, IPull, PullConservation

(* A step of runPull in which it reads, writes or gives up, and a step of  *)
(* anything else.                                                          *)
LEMMA NextIPull ==
  ASSUME TypeOK, IPull, [Next]_vars
  PROVE  IPull'
<1> USE DEF TypeOK, IPull, PullConservation
<1>1. ASSUME NEW n \in 1..ChannelBuffer, PullReads(n)
      PROVE  IPull'
  <2>1. channelRead \in Nat /\ n \in Nat
    OBVIOUS
  <2>2. CASE clientState # "gone"
    <3>1. clientGot \o << >> = Chunk(0, channelRead)
      BY <1>1, <2>2 DEF PullReads
    <3>2. clientGot = Chunk(0, channelRead)
      BY <3>1
    <3>3. clientGot \o Chunk(channelRead, n) = Chunk(0, channelRead + n)
      BY <2>1, <3>2, ChunkJoin
    <3> QED
      BY <1>1, <2>1, <3>3 DEF PullReads, clientVars
  <2>3. CASE clientState = "gone"
    BY <1>1, <2>1, <2>3 DEF PullReads, clientVars
  <2> QED
    BY <2>2, <2>3
<1>2. ASSUME NEW n \in 1..ChannelBuffer, PullWrites(n)
      PROVE  IPull'
  <2> DEFINE a == SubSeq(bufferStr, 1, n)
             b == SubSeq(bufferStr, n + 1, Len(bufferStr))
  <2>1. n \in 0..Len(bufferStr)
    BY <1>2 DEF PullWrites
  <2>2. /\ a \in Seq(Nat) /\ b \in Seq(Nat)
        /\ Len(a) = n /\ Len(b) = Len(bufferStr) - n
        /\ (clientGot \o a) \o b = clientGot \o bufferStr
    BY <2>1, MovePrefix, ZenonT(20)
  <2> HIDE DEF a, b
  <2>3. bufferStr' = b
    BY <1>2 DEF PullWrites, b
  <2>4. pull' = "read" => b = << >>
    <3>1. pull' = "read" => Len(b) = 0
      BY <1>2, <2>1, <2>2 DEF PullWrites
    <3> QED
      BY <3>1, <2>2
  <2>5. CASE clientState # "gone"
    <3> DEFINE got == clientGot \o a
    <3>1. clientGot' = got /\ channelRead' = channelRead
      BY <1>2, <2>5 DEF PullWrites, a
    <3>2. got \o b = Chunk(0, channelRead)
      BY <1>2, <2>2, <2>5 DEF PullWrites
    <3>3. got \in Seq(Nat) /\ channelRead \in Nat
      BY <2>2, Concat
    <3> HIDE DEF got
    <3>4. /\ got = Chunk(0, Len(got))
          /\ Len(got) + Len(b) = channelRead
      <4>1. /\ got \in Seq(Nat) /\ b \in Seq(Nat) /\ channelRead \in Nat
            /\ got \o b = Chunk(0, channelRead)
        BY <2>2, <3>2, <3>3
      <4> QED
        BY ONLY <4>1, ChunkSplit
    <3>5. Len(got) <= channelRead
      BY <2>2, <3>3, <3>4
    <3> QED
      BY <2>3, <2>4, <3>1, <3>2, <3>4, <3>5
  <2>6. CASE clientState = "gone"
    BY <1>2, <2>3, <2>4, <2>6 DEF PullWrites
  <2> QED
    BY <2>5, <2>6
<1>3. CASE PullWriteFails
  BY <1>3 DEF PullWriteFails, clientVars
<1>4. CASE \/ ClientSends \/ ClientLeaves \/ RemoteSends \/ RemoteEnds
           \/ ChannelFails \/ PushStep \/ PullReadsNothing \/ Finished
           \/ UNCHANGED vars
  <2>1. /\ UNCHANGED <<clientGot, channelRead, bufferStr, pull>>
        /\ clientState = "gone" => clientState' = "gone"
    BY <1>4 DEF ClientSends, ClientLeaves, RemoteSends, RemoteEnds,
                ChannelFails, PushStep, PushStarts, PushReads, SendStarts, PushReadFails,
                PushWrites,
                PushWriteFails, PullReadsNothing, Finished, vars, clientVars,
                pushVars, remoteVars, pullVars
  <2> QED
    BY <2>1
<1> QED
  BY <1>1, <1>2, <1>3, <1>4 DEF Next, PullStep

(* runPull neither loses, repeats nor reorders a byte.                     *)
THEOREM PullConserved == Spec => []PullConservation
<1>1. TypeOK /\ IPull /\ [Next]_vars => IPull'
  BY NextIPull
<1>2. IPull => PullConservation
  BY DEF IPull
<1> QED
  BY <1>1, <1>2, InitIPull, TypeCorrect, PTL DEF Spec

(* A step of the connection is, for the direction of runPull, a step of    *)
(* the pipe or none.                                                       *)
LEMMA PullStepIsAPipeStep ==
  ASSUME TypeOK, IPull, [Next]_vars
  PROVE  [Pull!Next]_(Pull!vars)
<1> USE DEF TypeOK, IPull, PullConservation, Pull!vars
<1>1. CASE RemoteSends
  BY <1>1 DEF RemoteSends, clientVars, Pull!Next, Pull!Put
<1>2. ASSUME NEW n \in 1..ChannelBuffer, PullWrites(n)
      PROVE  [Pull!Next]_(Pull!vars)
  <2> DEFINE a == SubSeq(bufferStr, 1, n)
             b == SubSeq(bufferStr, n + 1, Len(bufferStr))
  <2>1. n \in 0..Len(bufferStr) /\ remoteSent' = remoteSent
    BY <1>2 DEF PullWrites, remoteVars
  <2>2. /\ a \in Seq(Nat) /\ b \in Seq(Nat) /\ Len(a) = n
        /\ Len(b) = Len(bufferStr) - n
        /\ (clientGot \o a) \o b = clientGot \o bufferStr
    BY <2>1, MovePrefix, ZenonT(20)
  <2>3. clientState = "gone" => clientGot' = clientGot
    BY <1>2 DEF PullWrites
  <2>4. clientState # "gone" => clientGot' = clientGot \o a
    BY <1>2 DEF PullWrites
  <2>5. CASE clientState = "gone"
    BY <2>1, <2>3, <2>5
  <2>6. CASE clientState # "gone"
    <3> HIDE DEF a, b
    <3>1. /\ clientGot \in Seq(Nat) /\ bufferStr \in Seq(Nat)
          /\ channelRead \in Nat /\ channelRead <= remoteSent
          /\ clientGot \o bufferStr = Chunk(0, channelRead)
      <4>1. /\ clientGot \in Seq(Nat) /\ bufferStr \in Seq(Nat)
            /\ channelRead \in Nat /\ channelRead <= remoteSent
        OBVIOUS
      <4>2. clientState # "gone" => clientGot \o bufferStr = Chunk(0, channelRead)
        BY <1>2 DEF PullWrites
      <4> QED
        BY <2>6, <4>1, <4>2
    <3>2. /\ bufferStr = Chunk(Len(clientGot), Len(bufferStr))
          /\ Len(clientGot) + Len(bufferStr) = channelRead
      BY ONLY <3>1, ChunkSplit
    <3>3. a = [i \in 1..n |-> Len(clientGot) + i]
      <4>1. /\ a \in Seq(Nat) /\ Len(a) = n /\ Len(clientGot) \in Nat /\ n \in Nat
        BY <2>1, <2>2
      <4>2. /\ Chunk(Len(clientGot), n) \in Seq(Nat)
            /\ Len(Chunk(Len(clientGot), n)) = n
            /\ \A i \in 1..n : Chunk(Len(clientGot), n)[i] = Len(clientGot) + i
        BY ONLY <4>1, ChunkType
      <4>3. \A i \in 1..n : a[i] = Len(clientGot) + i
        <5>1. \A i \in 1..n : a[i] = bufferStr[i]
          BY <2>1, MovePrefix DEF a
        <5>2. \A i \in 1..Len(bufferStr) : bufferStr[i] = Len(clientGot) + i
          BY <3>1, <3>2 DEF Chunk
        <5> QED
          BY <2>1, <5>1, <5>2
      <4>4. a = Chunk(Len(clientGot), n)
        <5>1. /\ a \in Seq(Nat) /\ Chunk(Len(clientGot), n) \in Seq(Nat)
              /\ Len(a) = Len(Chunk(Len(clientGot), n))
              /\ \A i \in 1..Len(a) : a[i] = Chunk(Len(clientGot), n)[i]
          BY <4>1, <4>2, <4>3
        <5> QED
          BY ONLY <5>1, SameSeq
      <4> QED
        BY <4>4 DEF Chunk
    <3>4. n \in 1..(remoteSent - Len(clientGot))
      BY <2>1, <3>1, <3>2
    <3>5. Pull!Deliver
      BY <2>1, <2>4, <2>6, <3>3, <3>4 DEF Pull!Deliver
    <3> QED
      BY <3>5 DEF Pull!Next
  <2> QED
    BY <2>5, <2>6
<1>3. CASE \/ ClientSends \/ ClientLeaves \/ RemoteEnds \/ ChannelFails
           \/ PushStep \/ PullReadsNothing \/ PullWriteFails \/ Finished
           \/ UNCHANGED vars \/ \E n \in 1..ChannelBuffer : PullReads(n)
  <2>1. UNCHANGED <<remoteSent, clientGot>>
    BY <1>3 DEF ClientSends, ClientLeaves, RemoteEnds, ChannelFails, PushStep,
                PushStarts, PushReads, PushReadFails, PushWrites, PushWriteFails,
                PullReads, PullReadsNothing, PullWriteFails, Finished, vars,
                clientVars, pushVars, remoteVars, pullVars
  <2> QED
    BY <2>1
<1> QED
  BY <1>1, <1>2, <1>3 DEF Next, PullStep

(* runPull and read implement the pipe.                                    *)
THEOREM PullImplementsPipe == Spec => PullIsAPipe
<1>1. Init => Pull!Init
  BY DEF Init, Pull!Init
<1>2. TypeOK /\ IPull /\ [Next]_vars => [Pull!Next]_(Pull!vars)
  BY PullStepIsAPipeStep
<1>3. TypeOK /\ IPull /\ [Next]_vars => IPull'
  BY NextIPull
<1> QED
  BY <1>1, <1>2, <1>3, InitIPull, TypeCorrect, PTL
     DEF Spec, PullIsAPipe, Pull!Spec

-----------------------------------------------------------------------------
(* The direction of runPush.                                               *)

(* The loop of writeCommandChannel goes on only while it has written less  *)
(* than the command.                                                       *)
IResend ==
  /\ push = "write" => writtenBytes < Len(commandStr) /\ Len(commandStr) <= srcRead
  /\ BoundedLoss
  /\ IF push = "write"
     THEN Len(remoteGot) <= 2 * (srcRead - Len(commandStr)) + writtenBytes
     ELSE (srcRead = 0 /\ Len(remoteGot) = 0) \/ Len(remoteGot) < 2 * srcRead

(* A write that finds no room makes the allowance larger by one buffer.    *)
LEMMA OneMoreBuffer ==
  \A n, k \in Nat : n * (k + 1) = n * k + n /\ n * k \in Nat
OBVIOUS

LEMMA InitIResend == Init => IResend
BY ConnectionAssumption, OneMoreBuffer DEF Init, IResend, BoundedLoss, Unwritten

(* Every step keeps it: a turn of the loop that takes nothing, or the last *)
(* of the command, ends the send.                                          *)
LEMMA NextIResend ==
  ASSUME TypeOK, IResend, [Next]_vars
  PROVE  IResend'
<1> DEFINE room == ReadBufferLength * starved
<1>1. /\ Len(remoteGot) \in Nat /\ Len(commandStr) \in Nat /\ srcRead \in Nat
      /\ writtenBytes \in Nat /\ room \in Nat /\ ReadBufferLength \in Nat
      /\ Len(commandStr) <= ReadBufferLength
  BY OneMoreBuffer, ConnectionAssumption DEF TypeOK
<1>2. ASSUME NEW n \in 1..ReadBufferLength, PushReads(n)
      PROVE  IResend'
  <2>1. Len(Chunk(srcRead, n)) = n /\ n \in Nat /\ n > 0
    BY <1>1, ChunkType
  <2>2. /\ push = "read" /\ push' = "write" /\ srcRead' = srcRead + n
        /\ Len(commandStr') = n /\ writtenBytes' = 0
        /\ UNCHANGED <<remoteGot, starved, channelState>>
    BY <1>2, <2>1 DEF PushReads, SendStarts, remoteVars
  <2>3. Writable' <=> Writable
    BY <2>2 DEF Writable
  <2>4. room' = room
    BY <2>2
  <2> HIDE DEF room
  <2>5. BoundedLoss'
    BY <1>1, <2>1, <2>2, <2>3, <2>4 DEF IResend, BoundedLoss, Unwritten, room
  <2> QED
    BY <1>1, <2>1, <2>2, <2>5 DEF IResend
<1>3. ASSUME NEW w \in Windows, PushWrites(w)
      PROVE  IResend'
  <2> DEFINE rc == Least(w, Len(commandStr))
             a == SubSeq(commandStr, 1, rc)
  <2>1. rc \in 0..Len(commandStr)
    BY ConnectionAssumption DEF Least, TypeOK
  <2>2. a \in Seq(Nat) /\ Len(a) = rc
    BY <2>1, MovePrefix DEF TypeOK
  <2>3. Len(remoteGot \o a) = Len(remoteGot) + rc
    BY <2>2 DEF TypeOK
  <2>4. /\ push = "write" /\ Writable
        /\ Len(remoteGot') = Len(remoteGot) + rc
        /\ writtenBytes' = writtenBytes + rc /\ commandStr' = commandStr
        /\ srcRead' = srcRead
        /\ starved' = IF rc = 0 THEN starved + 1 ELSE starved
        /\ push' = IF rc > 0 /\ writtenBytes' < Len(commandStr)
                   THEN "write" ELSE "read"
    BY <1>3, <2>3 DEF PushWrites
  <2>5. room' = IF rc = 0 THEN room + ReadBufferLength ELSE room
    BY <2>4, OneMoreBuffer, ConnectionAssumption DEF TypeOK
  <2>6. /\ writtenBytes < Len(commandStr) /\ Len(commandStr) <= srcRead
        /\ srcRead <= Len(remoteGot) + (Len(commandStr) - writtenBytes) + room
        /\ Len(remoteGot) <= 2 * (srcRead - Len(commandStr)) + writtenBytes
    BY <2>4 DEF IResend, BoundedLoss, Unwritten
  <2> HIDE DEF rc, a, room
  <2>7. Unwritten' = IF push' = "write"
                     THEN Len(commandStr) - (writtenBytes + rc) ELSE 0
    BY <2>4 DEF Unwritten
  <2>8. srcRead' <= Len(remoteGot') + Unwritten' + room'
    <3>1. CASE rc = 0
      BY <1>1, <2>4, <2>5, <2>6, <2>7, <3>1
    <3>2. CASE rc > 0
      <4>1. srcRead' = srcRead /\ Len(remoteGot') = Len(remoteGot) + rc /\ room' = room
        BY <2>4, <2>5, <3>2
      <4>2. Unwritten' >= Len(commandStr) - (writtenBytes + rc)
        BY <1>1, <2>1, <2>4, <2>7, <3>2
      <4>3. Unwritten' \in Int /\ rc \in Int
        BY <1>1, <2>1, <2>7
      <4>4. srcRead <= Len(remoteGot) + (Len(commandStr) - writtenBytes) + room
        BY <2>6
      <4>5. srcRead <= (Len(remoteGot) + rc) + Unwritten' + room
        BY ONLY <1>1, <4>2, <4>3, <4>4
      <4> QED
        BY ONLY <4>1, <4>5
    <3> QED
      BY <2>1, <3>1, <3>2
  <2>9. BoundedLoss'
    BY <2>8 DEF BoundedLoss, room
  <2>10. IF push' = "write"
         THEN Len(remoteGot') <= 2 * (srcRead' - Len(commandStr')) + writtenBytes'
         ELSE Len(remoteGot') < 2 * srcRead'
    BY <1>1, <2>1, <2>4, <2>6
  <2> QED
    BY <1>1, <2>1, <2>4, <2>6, <2>9, <2>10 DEF IResend
<1>4. CASE PushStarts \/ PushReadFails \/ PushWriteFails
  <2>1. /\ push' # "write"
        /\ UNCHANGED <<srcRead, remoteGot, starved, channelState>>
        /\ push = "write" => ~Writable
    BY <1>4 DEF PushStarts, PushReadFails, PushWriteFails, remoteVars
  <2>2. BoundedLoss'
    BY <1>1, <2>1 DEF IResend, BoundedLoss, Unwritten, Writable
  <2> HIDE DEF room
  <2> QED
    BY <1>1, <2>1, <2>2 DEF IResend
<1>5. CASE \/ ClientSends \/ ClientLeaves \/ RemoteSends \/ RemoteEnds
           \/ ChannelFails \/ PullStep \/ Finished \/ UNCHANGED vars
  <2>1. /\ UNCHANGED <<push, commandStr, writtenBytes, srcRead, remoteGot, starved>>
        /\ Writable' => Writable
    BY <1>5 DEF ClientSends, ClientLeaves, RemoteSends, RemoteEnds,
                ChannelFails, PullStep, PullReads, PullReadsNothing,
                PullWrites, PullWriteFails, Finished, vars, pushVars,
                remoteVars, Writable
  <2> QED
    BY <2>1 DEF IResend, BoundedLoss, Unwritten
<1> QED
  BY <1>2, <1>3, <1>4, <1>5 DEF Next, PushStep

(* Whatever room the writes find, they lose and repeat no more bytes than  *)
(* this.                                                                   *)
THEOREM ShortWritesCost == Spec => []ShortWritesBounded
<1>1. Init => IResend
  BY InitIResend
<1>2. TypeOK /\ IResend /\ [Next]_vars => IResend'
  BY NextIResend
<1>3. TypeOK /\ IResend => ShortWritesBounded
  <2> SUFFICES ASSUME TypeOK, IResend, srcRead > 0
               PROVE  Len(remoteGot) < 2 * srcRead
    BY DEF IResend, ShortWritesBounded, BoundedRepeat
  <2>1. /\ srcRead \in Nat /\ writtenBytes \in Nat
        /\ Len(remoteGot) \in Nat /\ Len(commandStr) \in Nat
    BY ConnectionAssumption DEF TypeOK
  <2> QED
    BY <2>1 DEF IResend
<1> QED
  BY <1>1, <1>2, <1>3, TypeCorrect, PTL DEF Spec

(* What the remote end has received is a beginning of the stream; while a  *)
(* send is under way nothing of it has been written, as every write so far *)
(* took the whole command.                                                 *)
IPush ==
  ~cutShort =>
    /\ remoteGot = Chunk(0, Len(remoteGot))
    /\ Len(remoteGot) <= srcRead
    /\ push = "write" => writtenBytes = 0 /\ commandStr # << >>
    /\ PushConservation

LEMMA InitIPush == Init => IPush
<1> SUFFICES ASSUME Init
             PROVE  IPush
  OBVIOUS
<1>1. Chunk(0, 0) = << >>
  <2>1. Chunk(0, 0) \in Seq(Nat) /\ Len(Chunk(0, 0)) = 0
    BY ChunkFromStart
  <2> QED
    BY <2>1
<1> QED
  BY <1>1 DEF Init, IPush, PushConservation, Sending, Writable

(* A write that is not cut short writes the whole command and ends the     *)
(* send.                                                                   *)
LEMMA WholeWrite ==
  ASSUME TypeOK, IPush, NEW w \in Windows, PushWrites(w), ~cutShort'
  PROVE  /\ ~cutShort
         /\ remoteGot' = remoteGot \o commandStr
         /\ push' = "read"
         /\ writtenBytes' = Len(commandStr)
<1>1. commandStr \in Seq(Nat) /\ Len(commandStr) \in Nat /\ w \in Nat
  BY ConnectionAssumption DEF TypeOK
<1>2. ~cutShort /\ ~(Least(w, Len(commandStr)) < Len(commandStr))
  BY DEF PushWrites
<1>3. Least(w, Len(commandStr)) = Len(commandStr)
  BY <1>1, <1>2 DEF Least
<1>4. writtenBytes = 0 /\ push = "write"
  BY <1>2 DEF PushWrites, IPush
<1>5. SubSeq(commandStr, 1, Len(commandStr)) = commandStr
  BY <1>1
<1> QED
  BY <1>1, <1>2, <1>3, <1>4, <1>5, SMTT(20) DEF PushWrites

(* Every step keeps the invariant.                                         *)
LEMMA NextIPush ==
  ASSUME TypeOK, IPush, [Next]_vars
  PROVE  IPush'
<1> USE DEF TypeOK, IPush, PushConservation, Sending
<1>1. ASSUME NEW n \in 1..ReadBufferLength, PushReads(n)
      PROVE  IPush'
  <2>1. srcRead \in Nat /\ n \in Nat
    OBVIOUS
  <2>2. /\ Chunk(srcRead, n) \in Seq(Nat) /\ Len(Chunk(srcRead, n)) = n
    BY <2>1, ChunkType
  <2>3. /\ UNCHANGED <<remoteGot, channelState, cutShort>>
        /\ Writable' <=> Writable
    BY <1>1 DEF PushReads, SendStarts, remoteVars, Writable
  <2> SUFFICES ASSUME ~cutShort
               PROVE  IPush'
    BY <2>3
  <2>4. CASE Writable
    <3>1. remoteGot \o << >> = Chunk(0, srcRead)
      BY <1>1, <2>4 DEF PushReads, SendStarts
    <3>2. remoteGot = Chunk(0, srcRead)
      BY <3>1
    <3>3. remoteGot \o Chunk(srcRead, n) = Chunk(0, srcRead + n)
      BY <2>1, <3>2, ChunkJoin
    <3> QED
      BY <1>1, <2>1, <2>2, <2>3, <3>3 DEF PushReads, SendStarts
  <2>5. CASE ~Writable
    BY <1>1, <2>1, <2>2, <2>3, <2>5 DEF PushReads, SendStarts
  <2> QED
    BY <2>4, <2>5
<1>2. ASSUME NEW w \in Windows, PushWrites(w)
      PROVE  IPush'
  <2> SUFFICES ASSUME ~cutShort'
               PROVE  IPush'
    OBVIOUS
  <2>1. /\ ~cutShort
        /\ remoteGot' = remoteGot \o commandStr
        /\ push' = "read"
    BY <1>2, WholeWrite
  <2>2. /\ srcRead' = srcRead /\ srcRead \in Nat
        /\ remoteGot \o commandStr = Chunk(0, srcRead)
    BY <1>2, <2>1 DEF PushWrites
  <2>3. /\ Chunk(0, srcRead) \in Seq(Nat) /\ Len(Chunk(0, srcRead)) = srcRead
    BY <2>2, ChunkFromStart
  <2>4. remoteGot' = Chunk(0, srcRead') /\ Len(remoteGot') = srcRead'
    BY <2>1, <2>2, <2>3
  <2>5. remoteGot' \o << >> = remoteGot'
    BY <2>2, <2>3, <2>4
  <2> QED
    BY <2>1, <2>2, <2>4, <2>5
<1>3. CASE PushStarts \/ PushReadFails \/ PushWriteFails
  BY <1>3 DEF PushStarts, PushReadFails, PushWriteFails, remoteVars, Writable
<1>4. CASE \/ ClientSends \/ ClientLeaves \/ RemoteSends \/ RemoteEnds
           \/ ChannelFails \/ PullStep \/ Finished \/ UNCHANGED vars
  <2>1. /\ UNCHANGED <<push, srcRead, commandStr, writtenBytes, cutShort,
                        remoteGot>>
        /\ Writable' => Writable
    BY <1>4 DEF ClientSends, ClientLeaves, RemoteSends, RemoteEnds,
                ChannelFails, PullStep, PullReads, PullReadsNothing,
                PullWrites, PullWriteFails, Finished, vars, pushVars,
                remoteVars, Writable
  <2> QED
    BY <2>1
<1> QED
  BY <1>1, <1>2, <1>3, <1>4 DEF Next, PushStep

(* Until a write is cut short, runPush and send neither lose, repeat nor   *)
(* reorder a byte.                                                         *)
THEOREM PushConserved == Spec => []PushConservation
<1>1. TypeOK /\ IPush /\ [Next]_vars => IPush'
  BY NextIPush
<1>2. IPush => PushConservation
  BY DEF IPush, PushConservation
<1> QED
  BY <1>1, <1>2, InitIPush, TypeCorrect, PTL DEF Spec

(* A step of the connection is, for the direction of runPush, a step of    *)
(* the pipe or none, or cuts a write short.                                *)
LEMMA PushStepIsAPipeStep ==
  ASSUME TypeOK, IPush, [Next]_vars
  PROVE  [Push!Next \/ cutShort']_(Push!vars)
<1> USE DEF TypeOK, IPush, PushConservation, Sending, Push!vars
<1>1. CASE ClientSends
  BY <1>1 DEF ClientSends, remoteVars, Push!Next, Push!Put
<1>2. ASSUME NEW w \in Windows, PushWrites(w)
      PROVE  [Push!Next \/ cutShort']_(Push!vars)
  <2> SUFFICES ASSUME ~cutShort'
               PROVE  [Push!Next \/ cutShort']_(Push!vars)
    OBVIOUS
  <2> DEFINE n == Len(commandStr)
  <2>1. /\ ~cutShort
        /\ remoteGot' = remoteGot \o commandStr /\ clientSent' = clientSent
    BY <1>2, WholeWrite DEF PushWrites, clientVars
  <2>2. /\ remoteGot \in Seq(Nat) /\ commandStr \in Seq(Nat)
        /\ srcRead \in Nat /\ srcRead <= clientSent /\ commandStr # << >>
        /\ remoteGot \o commandStr = Chunk(0, srcRead)
    BY <1>2, <2>1 DEF PushWrites
  <2>3. /\ commandStr = Chunk(Len(remoteGot), n)
        /\ Len(remoteGot) + n = srcRead
    BY ONLY <2>2, ChunkSplit
  <2>4. n \in 1..(clientSent - Len(remoteGot))
    BY <2>2, <2>3
  <2>5. commandStr = [i \in 1..n |-> Len(remoteGot) + i]
    BY <2>3 DEF Chunk
  <2>6. Push!Deliver
    BY <2>1, <2>4, <2>5 DEF Push!Deliver
  <2> QED
    BY <2>6 DEF Push!Next
<1>3. CASE \/ ClientLeaves \/ RemoteSends \/ RemoteEnds \/ ChannelFails
           \/ PushStarts \/ PushReadFails \/ PushWriteFails \/ PullStep
           \/ Finished \/ UNCHANGED vars \/ \E n \in 1..ReadBufferLength : PushReads(n)
  <2>1. UNCHANGED <<clientSent, remoteGot>>
    BY <1>3 DEF ClientLeaves, RemoteSends, RemoteEnds, ChannelFails,
                PushStarts, PushReads, PushReadFails, PushWriteFails, PullStep,
                PullReads, PullReadsNothing, PullWrites, PullWriteFails, Finished, vars,
                clientVars, remoteVars
  <2> QED
    BY <2>1
<1> QED
  BY <1>1, <1>2, <1>3 DEF Next, PushStep

(* Until a write is cut short, runPush and send implement the pipe.        *)
THEOREM PushImplementsPipe == Spec => PushIsAPipe
<1>1. Init => Push!Init
  BY DEF Init, Push!Init
<1>2. TypeOK /\ IPush /\ [Next]_vars => [Push!Next \/ cutShort']_(Push!vars)
  BY PushStepIsAPipeStep
<1>3. TypeOK /\ IPush /\ [Next]_vars => IPush'
  BY NextIPush
<1> QED
  BY <1>1, <1>2, <1>3, InitIPush, TypeCorrect, PTL DEF Spec, PushIsAPipe

(* Neither direction loses, repeats or reorders a byte.                    *)
THEOREM Conserved == Spec => []Conservation
BY PullConserved, PushConserved, PTL DEF Conservation

(* The two coroutines share a socket and a channel, and still implement a  *)
(* pipe each.                                                              *)
THEOREM ImplementsPipes == Spec => BothArePipes
BY PullImplementsPipe, PushImplementsPipe DEF BothArePipes

-----------------------------------------------------------------------------
(* The measure of what is left to do.                                      *)

LEMMA TimesInNat ==
  \A i \in Nat : \A j \in 0..i : 2 * (i - j) \in Nat /\ 3 * (i - j) \in Nat
OBVIOUS

LEMMA OneLess ==
  /\ \A i \in Nat : i < i + 1
  /\ \A i, j \in Nat : j > 0 => i + 1 < i + j + 1
  /\ \A i, j \in Nat : i < i + j + 1
OBVIOUS

(* It is a number, before and after a step.                                *)
LEMMA LeftInNat ==
  ASSUME TypeOK, IResend
  PROVE  EndsLeft \in Nat /\ PushLeft \in Nat /\ PullLeft \in Nat
<1>1. /\ MaxBytes \in Nat /\ clientSent \in 0..MaxBytes
      /\ remoteSent \in 0..MaxBytes
  BY ConnectionAssumption DEF TypeOK
<1>2. srcRead \in 0..MaxBytes /\ channelRead \in 0..MaxBytes
  BY <1>1 DEF TypeOK
<1>3. Len(bufferStr) \in Nat /\ Len(commandStr) \in Nat /\ writtenBytes \in Nat
  BY DEF TypeOK
<1>4. EndsLeft \in Nat
  BY <1>1 DEF EndsLeft
<1>5. PushLeft \in Nat
  <2>1. push = "write" => Len(commandStr) - writtenBytes \in Nat
    BY <1>3 DEF IResend
  <2>2. 2 * (MaxBytes - srcRead) \in Nat
    BY <1>1, <1>2, TimesInNat
  <2> QED
    BY <2>1, <2>2 DEF PushLeft
<1>6. PullLeft \in Nat
  BY <1>1, <1>2, <1>3 DEF PullLeft
<1> QED
  BY <1>4, <1>5, <1>6

LEMMA LeftAfterInNat ==
  ASSUME TypeOK', IResend'
  PROVE  EndsLeft' \in Nat /\ PushLeft' \in Nat /\ PullLeft' \in Nat
<1>1. /\ MaxBytes \in Nat /\ clientSent' \in 0..MaxBytes
      /\ remoteSent' \in 0..MaxBytes
  BY ConnectionAssumption DEF TypeOK
<1>2. srcRead' \in 0..MaxBytes /\ channelRead' \in 0..MaxBytes
  BY <1>1 DEF TypeOK
<1>3. Len(bufferStr') \in Nat /\ Len(commandStr') \in Nat /\ writtenBytes' \in Nat
  BY DEF TypeOK
<1>4. EndsLeft' \in Nat
  BY <1>1 DEF EndsLeft
<1>5. PushLeft' \in Nat
  <2>1. push' = "write" => Len(commandStr') - writtenBytes' \in Nat
    BY <1>3 DEF IResend
  <2>2. 2 * (MaxBytes - srcRead') \in Nat
    BY <1>1, <1>2, TimesInNat
  <2> QED
    BY <2>1, <2>2 DEF PushLeft
<1>6. PullLeft' \in Nat
  BY <1>1, <1>2, <1>3, SMTT(20) DEF PullLeft
<1> QED
  BY <1>4, <1>5, <1>6

LEMMA LeftAtFirst == Init => StepsLeft <= 7 * MaxBytes + 9
<1> SUFFICES ASSUME Init
             PROVE  StepsLeft <= 7 * MaxBytes + 9
  OBVIOUS
<1>1. EndsLeft = 2 * MaxBytes + 5
  BY ConnectionAssumption DEF Init, EndsLeft
<1>2. PushLeft = 2 * MaxBytes + 2
  BY ConnectionAssumption DEF Init, PushLeft
<1>3. PullLeft = 3 * MaxBytes + 2
  BY ConnectionAssumption DEF Init, PullLeft
<1> QED
  BY <1>1, <1>2, <1>3, ConnectionAssumption DEF StepsLeft

(* A step of an end or of the channel costs that end, and nothing else.    *)
LEMMA EndsStepLowers ==
  ASSUME TypeOK,
         ClientSends \/ ClientLeaves \/ RemoteSends \/ RemoteEnds \/ ChannelFails
  PROVE  EndsLeft' < EndsLeft /\ PushLeft' = PushLeft /\ PullLeft' = PullLeft
<1>1. /\ MaxBytes \in Nat /\ clientSent \in 0..MaxBytes
      /\ remoteSent \in 0..MaxBytes
      /\ channelState \in {"open", "eof", "closed", "failed"}
      /\ clientState \in {"open", "shut", "gone"}
  BY ConnectionAssumption DEF TypeOK
<1>2. PushLeft' = PushLeft /\ PullLeft' = PullLeft
  BY DEF ClientSends, ClientLeaves, RemoteSends, RemoteEnds, ChannelFails,
         PushLeft, PullLeft, pushVars, pullVars
<1>3. EndsLeft' < EndsLeft
  BY <1>1 DEF ClientSends, ClientLeaves, RemoteSends, RemoteEnds, ChannelFails,
              EndsLeft, clientVars, remoteVars
<1> QED
  BY <1>2, <1>3

(* A read pays for the writes of the bytes it brings; each turn of the     *)
(* loop of writeCommandChannel is a byte nearer to its end, or ends it.    *)
LEMMA PushStepLowers ==
  ASSUME TypeOK, IResend, PushStep
  PROVE  EndsLeft' = EndsLeft /\ PushLeft' < PushLeft /\ PullLeft' = PullLeft
<1>1. EndsLeft' = EndsLeft /\ PullLeft' = PullLeft
  BY DEF PushStep, PushStarts, PushReads, PushReadFails, PushWrites, PushWriteFails,
         EndsLeft, PullLeft, clientVars, remoteVars, pullVars
<1>2. /\ MaxBytes \in Nat /\ srcRead \in Nat /\ srcRead <= MaxBytes
      /\ Len(commandStr) \in Nat /\ writtenBytes \in Nat
      /\ push = "write" => writtenBytes < Len(commandStr)
  BY ConnectionAssumption DEF TypeOK, IResend
<1>3. ASSUME NEW n \in 1..ReadBufferLength, PushReads(n)
      PROVE  PushLeft' < PushLeft
  <2>1. n \in Nat /\ n >= 1 /\ Len(Chunk(srcRead, n)) = n
    BY <1>2, ChunkType, ConnectionAssumption
  <2>2. /\ push = "read" /\ push' = "write" /\ srcRead' = srcRead + n
        /\ writtenBytes' = 0 /\ Len(commandStr') = n
    BY <1>3, <2>1 DEF PushReads, SendStarts
  <2>3. PushLeft = 2 * (MaxBytes - srcRead) + 1
    BY <1>2, <2>2 DEF PushLeft
  <2>4. PushLeft' = 2 * (MaxBytes - (srcRead + n)) + n + 1
    BY <1>2, <2>1, <2>2 DEF PushLeft
  <2> QED
    BY <1>2, <2>1, <2>3, <2>4
<1>4. ASSUME NEW w \in Windows, PushWrites(w)
      PROVE  PushLeft' < PushLeft
  <2> DEFINE rc == Least(w, Len(commandStr))
  <2>1. rc \in 0..Len(commandStr)
    BY <1>2, ConnectionAssumption DEF Least
  <2>2. /\ push = "write" /\ UNCHANGED <<srcRead, commandStr>>
        /\ writtenBytes' = writtenBytes + rc
        /\ push' = IF rc > 0 /\ writtenBytes' < Len(commandStr)
                   THEN "write" ELSE "read"
    BY <1>4 DEF PushWrites
  <2> HIDE DEF rc
  <2>3. PushLeft = 2 * (MaxBytes - srcRead) + (Len(commandStr) - writtenBytes) + 1
    BY <1>2, <2>2 DEF PushLeft
  <2>4. CASE push' = "write"
    <3>1. PushLeft' = 2 * (MaxBytes - srcRead)
                        + (Len(commandStr) - (writtenBytes + rc)) + 1
      BY <1>2, <2>1, <2>2, <2>4 DEF PushLeft
    <3> QED
      BY <1>2, <2>1, <2>2, <2>3, <2>4, <3>1
  <2>5. CASE push' = "read"
    <3>1. PushLeft' = 2 * (MaxBytes - srcRead) + 1
      BY <1>2, <2>2, <2>5 DEF PushLeft
    <3> QED
      BY <1>2, <2>2, <2>3, <3>1
  <2> QED
    BY <2>2, <2>4, <2>5
<1>5. ASSUME PushReadFails
      PROVE  PushLeft' < PushLeft
  <2>1. PICK k \in Nat : k = 2 * (MaxBytes - srcRead)
    BY <1>2
  <2>2. PushLeft = k + 1 /\ PushLeft' = k
    BY <1>2, <1>5, <2>1 DEF PushReadFails, PushLeft
  <2> QED
    BY <2>2, OneLess, Zenon
<1>6. ASSUME PushWriteFails
      PROVE  PushLeft' < PushLeft
  <2>1. PICK k \in Nat : k = 2 * (MaxBytes - srcRead)
    BY <1>2
  <2>2. push = "write"
    BY <1>6 DEF PushWriteFails
  <2>3. PICK j \in Nat : j = Len(commandStr) - writtenBytes /\ j > 0
    BY <1>2, <2>2
  <2>4. PushLeft = k + j + 1 /\ PushLeft' = k + 1
    BY <1>2, <1>6, <2>1, <2>2, <2>3 DEF PushWriteFails, PushLeft
  <2> QED
    BY <2>3, <2>4, OneLess, Zenon
<1>7. ASSUME PushStarts
      PROVE  PushLeft' < PushLeft
  <2>1. PICK k \in Nat : k = 2 * (MaxBytes - srcRead)
    BY <1>2
  <2>2. PushLeft = k + 1 + 1 /\ PushLeft' = k + 1
    BY <1>2, <1>7, <2>1 DEF PushStarts, PushLeft
  <2> QED
    BY <2>2
<1> QED
  BY <1>1, <1>3, <1>4, <1>5, <1>6, <1>7 DEF PushStep

(* A read of nothing that changes anything is the first since the last     *)
(* read of bytes.                                                          *)
LEMMA PullStepLowers ==
  ASSUME TypeOK, PullStep, vars' # vars
  PROVE  EndsLeft' = EndsLeft /\ PushLeft' = PushLeft /\ PullLeft' < PullLeft
<1>1. EndsLeft' = EndsLeft /\ PushLeft' = PushLeft
  BY DEF PullStep, PullReads, PullReadsNothing, PullWrites, PullWriteFails,
         EndsLeft, PushLeft, clientVars, remoteVars, pushVars
<1>2. /\ MaxBytes \in Nat /\ channelRead \in Nat /\ channelRead <= MaxBytes
      /\ bufferStr \in Seq(Nat) /\ Len(bufferStr) \in Nat /\ spinning \in BOOLEAN
  BY ConnectionAssumption DEF TypeOK
<1>3. ASSUME NEW n \in 1..ChannelBuffer, PullReads(n)
      PROVE  PullLeft' < PullLeft
  <2>1. n \in Nat /\ n >= 1 /\ Len(Chunk(channelRead, n)) = n
    BY <1>2, ChunkType, ConnectionAssumption
  <2>2. /\ pull = "read" /\ pull' = "write" /\ channelRead' = channelRead + n
        /\ spinning' = FALSE /\ Len(bufferStr') = n
    BY <1>3, <2>1 DEF PullReads
  <2> QED
    BY <1>2, <2>1, <2>2 DEF PullLeft
<1>4. ASSUME PullReadsNothing
      PROVE  PullLeft' < PullLeft
  <2>1. ~spinning
    BY <1>2, <1>4 DEF PullReadsNothing, vars, pullVars, clientVars, pushVars,
                      remoteVars
  <2> QED
    <3>1. PICK k \in Nat : k = 3 * (MaxBytes - channelRead) + Len(bufferStr) + 1
      BY <1>2
    <3>2. PullLeft = k + 1 /\ PullLeft' = k + 0
      BY <1>2, <1>4, <2>1, <3>1 DEF PullReadsNothing, PullLeft
    <3>3. k + 0 < k + 1
      OBVIOUS
    <3> QED
      BY <3>2, <3>3, Zenon
<1>5. ASSUME NEW n \in 1..ChannelBuffer, PullWrites(n)
      PROVE  PullLeft' < PullLeft
  <2>1. n \in Nat /\ n >= 1 /\ n <= Len(bufferStr)
    BY <1>5, ConnectionAssumption DEF PullWrites
  <2>2. Len(SubSeq(bufferStr, n + 1, Len(bufferStr))) = Len(bufferStr) - n
    BY <1>2, <2>1
  <2>3. /\ pull = "write" /\ pull' \in {"read", "write"}
        /\ UNCHANGED <<channelRead, spinning>>
        /\ Len(bufferStr') = Len(bufferStr) - n
    BY <1>5, <2>2 DEF PullWrites
  <2> QED
    BY <1>2, <2>1, <2>3 DEF PullLeft
<1>6. ASSUME PullWriteFails
      PROVE  PullLeft' < PullLeft
  <2>1. PICK k \in Nat : k = IF spinning THEN 0 ELSE 1
    OBVIOUS
  <2>2. PICK i \in Nat : i = 3 * (MaxBytes - channelRead)
    BY <1>2
  <2>3. PICK j \in Nat : j = Len(bufferStr)
    BY <1>2
  <2>4. PullLeft = i + j + 1 + k /\ PullLeft' = i + 0 + 0 + k
    BY <1>6, <2>1, <2>2, <2>3 DEF PullWriteFails, PullLeft
  <2>5. i + 0 + 0 + k < i + j + 1 + k
    OBVIOUS
  <2> QED
    BY <2>4, <2>5, Zenon
<1> QED
  BY <1>1, <1>3, <1>4, <1>5, <1>6 DEF PullStep

(* What a coroutine waits for, or how it came to return.                   *)
IWaits ==
  /\ push = "done" => clientState = "gone" \/ (clientState = "shut" /\ srcRead = clientSent)
  /\ pull = "write" => bufferStr # << >>
  /\ pull = "done" => clientState = "gone"

LEMMA NextIWaits ==
  ASSUME TypeOK, TypeOK', IWaits, [Next]_vars
  PROVE  IWaits'
<1> USE DEF IWaits
<1>1. CASE PushStep
  <2>1. UNCHANGED <<clientState, clientSent, pull, bufferStr>>
    BY <1>1 DEF PushStep, PushStarts, PushReads, PushReadFails, PushWrites,
                PushWriteFails, clientVars, pullVars
  <2>2. push' = "done" => /\ srcRead' = srcRead
                          /\ \/ clientState = "shut" /\ srcRead = clientSent
                             \/ clientState = "gone"
    BY <1>1 DEF PushStep, PushStarts, PushReads, PushReadFails, PushWrites,
                PushWriteFails
  <2> QED
    BY <2>1, <2>2
<1>2. ASSUME NEW n \in 1..ChannelBuffer, PullReads(n)
      PROVE  IWaits'
  <2>1. channelRead \in Nat /\ n \in Nat /\ n > 0
    BY ConnectionAssumption DEF TypeOK
  <2>2. Len(Chunk(channelRead, n)) = n
    BY <2>1, ChunkType
  <2>3. bufferStr' # << >> /\ pull' = "write"
    BY <1>2, <2>1, <2>2 DEF PullReads
  <2>4. UNCHANGED <<clientState, clientSent, push, srcRead>>
    BY <1>2 DEF PullReads, clientVars, pushVars
  <2> QED
    BY <2>3, <2>4
<1>3. ASSUME NEW n \in 1..ChannelBuffer, PullWrites(n)
      PROVE  IWaits'
  <2>1. bufferStr \in Seq(Nat) /\ n \in 1..Len(bufferStr)
    BY <1>3, ConnectionAssumption DEF TypeOK, PullWrites
  <2>2. Len(SubSeq(bufferStr, n + 1, Len(bufferStr))) = Len(bufferStr) - n
    BY <2>1
  <2>3. /\ Len(bufferStr') = Len(bufferStr) - n /\ bufferStr' \in Seq(Nat)
        /\ pull' = IF n < Len(bufferStr) THEN "write" ELSE "read"
    BY <1>3, <2>2 DEF PullWrites, TypeOK
  <2>4. /\ pull' = "write" => bufferStr' # << >>
        /\ pull' # "done"
    BY <2>1, <2>3
  <2>5. UNCHANGED <<clientState, clientSent, push, srcRead>>
    BY <1>3 DEF PullWrites, pushVars
  <2> QED
    BY <2>4, <2>5
<1>4. CASE PullReadsNothing \/ PullWriteFails
  BY <1>4 DEF PullReadsNothing, PullWriteFails, clientVars, pushVars
<1>5. CASE ClientLeaves
  BY <1>5 DEF ClientLeaves, TypeOK, pushVars, pullVars
<1>6. CASE ClientSends
  BY <1>6 DEF ClientSends, pushVars, pullVars
<1>7. CASE \/ RemoteSends \/ RemoteEnds \/ ChannelFails \/ Finished
           \/ UNCHANGED vars
  BY <1>7 DEF RemoteSends, RemoteEnds, ChannelFails, Finished, vars,
              clientVars, pushVars, pullVars
<1> QED
  BY <1>1, <1>2, <1>3, <1>4, <1>5, <1>6, <1>7 DEF Next, PullStep

(* So a coroutine that can do nothing more has brought all there was.      *)
LEMMA WaitsForTheEnds ==
  ASSUME TypeOK, IPull, IPush, IWaits
  PROVE  NothingHeldBack
<1> SUFFICES ASSUME clientState # "gone"
             PROVE  /\ ~PushCanGo /\ channelRead > 0 => srcRead = clientSent
                    /\ ~PushCanGo /\ channelRead > 0 /\ Writable /\ ~cutShort
                         => remoteGot = Chunk(0, clientSent)
                    /\ ~PullCanGo /\ channelState # "failed"
                         => clientGot = Chunk(0, remoteSent)
  BY DEF NothingHeldBack
<1>1. /\ remoteGot \in Seq(Nat) /\ clientGot \in Seq(Nat)
      /\ srcRead \in 0..clientSent /\ channelRead \in 0..remoteSent
      /\ clientSent \in Nat /\ remoteSent \in Nat
      /\ push \in {"none", "read", "write", "done"} /\ pull \in {"read", "write", "done"}
  BY ConnectionAssumption DEF TypeOK
<1>2. ASSUME ~PushCanGo, channelRead > 0
      PROVE  srcRead = clientSent /\ push # "write"
  BY <1>1, <1>2, ConnectionAssumption DEF PushCanGo, IWaits
<1>3. ASSUME ~PushCanGo, channelRead > 0, Writable, ~cutShort
      PROVE  remoteGot = Chunk(0, clientSent)
  <2>1. remoteGot \o << >> = Chunk(0, clientSent)
    BY <1>2, <1>3 DEF IPush, PushConservation, Sending
  <2> QED
    BY <1>1, <2>1
<1>4. ASSUME ~PullCanGo, channelState # "failed"
      PROVE  clientGot = Chunk(0, remoteSent)
  <2>1. pull = "read" /\ bufferStr = << >>
    BY <1>1, <1>4 DEF PullCanGo, IWaits, IPull
  <2>2. channelRead = remoteSent
    BY <1>1, <1>4, <2>1 DEF PullCanGo
  <2>3. clientGot \o << >> = Chunk(0, remoteSent)
    BY <2>1, <2>2 DEF IPull, PullConservation
  <2> QED
    BY <1>1, <2>3
<1> QED
  BY <1>2, <1>3, <1>4

(* A connection comes to rest: after 7 * MaxBytes + 9 steps at most, only  *)
(* runPull may go on, reading nothing, and nothing is held back.           *)
THEOREM ComesToRest == Spec => Settles
<1>1. TypeOK /\ IResend /\ TypeOK' /\ IResend' /\ [Next]_vars
        => [StepsLeft' \in Nat /\ StepsLeft' < StepsLeft]_vars
  <2> SUFFICES ASSUME TypeOK, IResend, TypeOK', IResend', Next, vars' # vars
               PROVE  StepsLeft' \in Nat /\ StepsLeft' < StepsLeft
    OBVIOUS
  <2>1. /\ EndsLeft \in Nat /\ PushLeft \in Nat /\ PullLeft \in Nat
        /\ EndsLeft' \in Nat /\ PushLeft' \in Nat /\ PullLeft' \in Nat
    BY LeftInNat, LeftAfterInNat
  <2>2. ~Finished
    BY DEF Finished
  <2>3. \/ EndsLeft' < EndsLeft /\ PushLeft' = PushLeft /\ PullLeft' = PullLeft
        \/ EndsLeft' = EndsLeft /\ PushLeft' < PushLeft /\ PullLeft' = PullLeft
        \/ EndsLeft' = EndsLeft /\ PushLeft' = PushLeft /\ PullLeft' < PullLeft
    BY <2>2, EndsStepLowers, PushStepLowers, PullStepLowers DEF Next
  <2>4. \A a, b, c, x, y, z \in Nat :
          \/ x < a /\ y = b /\ z = c
          \/ x = a /\ y < b /\ z = c
          \/ x = a /\ y = b /\ z < c
          => x + y + z \in Nat /\ x + y + z < a + b + c
    OBVIOUS
  <2> QED
    BY ONLY <2>1, <2>3, <2>4, ZenonT(20) DEF StepsLeft
<1>2. Init => IResend
  BY InitIResend
<1>3. TypeOK /\ IResend /\ [Next]_vars => IResend'
  BY NextIResend
<1>4. Init => IWaits
  BY DEF Init, IWaits
<1>5. TypeOK /\ TypeOK' /\ IWaits /\ [Next]_vars => IWaits'
  BY NextIWaits
<1>6. TypeOK /\ IPull /\ [Next]_vars => IPull'
  BY NextIPull
<1>7. TypeOK /\ IPush /\ [Next]_vars => IPush'
  BY NextIPush
<1>8. TypeOK /\ IPull /\ IPush /\ IWaits => NothingHeldBack
  BY WaitsForTheEnds
<1> QED
  BY <1>1, <1>2, <1>3, <1>4, <1>5, <1>6, <1>7, <1>8, LeftAtFirst, InitIPull,
     InitIPush, TypeCorrect, PTL DEF Spec, Settles
=============================================================================
