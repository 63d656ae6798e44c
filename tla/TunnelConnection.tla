-------------------------- MODULE TunnelConnection --------------------------
(***************************************************************************)
(* One connection of the SSH tunnel (src/core/TunnelServerConnection.cpp)  *)
(* with the ClientImpl calls it makes (send, read, writeCommandChannel and *)
(* readCommandChannel of src/core/Client.cpp).                             *)
(*                                                                         *)
(*   local application <-- srcSocket --> runPush, runPull <-- channel -->  *)
(*   remote service                                                        *)
(*                                                                         *)
(* runPush carries bytes from srcSocket to the SSH channel, runPull from   *)
(* the channel to srcSocket.  Each is a coroutine on a strand of its own,  *)
(* so they interleave at every socket operation and at every libssh2 call. *)
(* The session is in blocking mode (CreateSSHSession), so a libssh2 call   *)
(* returns only with a result: LIBSSH2_ERROR_EAGAIN is never seen here.    *)
(* A libssh2 call is one atomic step on the session.                       *)
(*                                                                         *)
(* The listener (src/core/TunnelServerListener.cpp) spawns runPull, which  *)
(* runs inside spawn until it suspends, in its first async_write, and only *)
(* then runPush: until the remote end has said something there is none.    *)
(*                                                                         *)
(* A byte is a number: the i-th byte an end sends is i.                    *)
(***************************************************************************)
EXTENDS Streams

CONSTANTS
  ReadBufferLength,  \* read_buffer_length: the most one async_read_some returns
  ChannelBuffer,     \* sizeof(buffer): the most one libssh2_channel_read returns
  Windows,           \* the room a libssh2_channel_write may find in the channel
  MaxBytes           \* bound: how many bytes each end sends

ASSUME ConnectionAssumption ==
  /\ ReadBufferLength \in Nat \ {0}
  /\ ChannelBuffer \in Nat \ {0}
  /\ Windows \subseteq Nat /\ Windows # {}
  /\ MaxBytes \in Nat

VARIABLES
  clientState,    \* the application's end: "open", "shut" (sends no more), "gone"
  clientSent,     \* how many bytes the application has sent
  clientGot,      \* the bytes the application has received
  push,           \* where runPush is: "none", "read", "write", "done"
  srcRead,        \* how many bytes runPush has read from srcSocket
  commandStr,     \* ClientImpl::commandStr: the bytes of the current send
  writtenBytes,   \* ClientImpl::writtenBytes
  cutShort,       \* history: a write took less than it was offered
  starved,        \* history: how many writes found no room at all
  channelState,   \* "open", "eof" (the remote end sends no more), "closed"
                  \* (it does not receive either), "failed" (no SSH any more)
  remoteSent,     \* how many bytes the remote end has sent
  remoteGot,      \* the bytes the remote end has received
  pull,           \* where runPull is: "read", "write", "done"
  channelRead,    \* how many bytes runPull has read from the channel
  bufferStr,      \* what is left of runPull's bufferStr to write
  spinning        \* the last read of runPull returned nothing

clientVars == <<clientState, clientSent, clientGot>>
pushVars == <<push, srcRead, commandStr, writtenBytes, cutShort, starved>>
remoteVars == <<channelState, remoteSent, remoteGot>>
pullVars == <<pull, channelRead, bufferStr, spinning>>
vars == <<clientVars, pushVars, remoteVars, pullVars>>

Init ==
  /\ clientState = "open" /\ clientSent = 0 /\ clientGot = << >>
  /\ push = "none" /\ srcRead = 0 /\ commandStr = << >> /\ writtenBytes = 0
  /\ cutShort = FALSE /\ starved = 0
  /\ channelState = "open" /\ remoteSent = 0 /\ remoteGot = << >>
  /\ pull = "read" /\ channelRead = 0 /\ bufferStr = << >> /\ spinning = FALSE

-----------------------------------------------------------------------------
(* The two ends and the channel, which the code does not control.          *)

ClientSends ==
  /\ clientState = "open" /\ clientSent < MaxBytes
  /\ clientSent' = clientSent + 1
  /\ UNCHANGED <<clientState, clientGot, pushVars, remoteVars, pullVars>>

(* The application shuts down its sending side, or goes away altogether.   *)
ClientLeaves ==
  /\ clientState' \in CASE clientState = "open" -> {"shut", "gone"}
                        [] clientState = "shut" -> {"gone"}
                        [] OTHER                -> {}
  /\ UNCHANGED <<clientSent, clientGot, pushVars, remoteVars, pullVars>>

RemoteSends ==
  /\ channelState = "open" /\ remoteSent < MaxBytes
  /\ remoteSent' = remoteSent + 1
  /\ UNCHANGED <<channelState, remoteGot, clientVars, pushVars, pullVars>>

RemoteEnds ==
  /\ channelState' \in CASE channelState = "open" -> {"eof", "closed"}
                         [] channelState = "eof"  -> {"closed"}
                         [] OTHER                 -> {}
  /\ UNCHANGED <<remoteSent, remoteGot, clientVars, pushVars, pullVars>>

(* The SSH connection breaks: every later call on the channel fails.       *)
ChannelFails ==
  /\ channelState # "failed"
  /\ channelState' = "failed"
  /\ UNCHANGED <<remoteSent, remoteGot, clientVars, pushVars, pullVars>>

Writable == channelState \in {"open", "eof"}

(* Nothing is left to read, or nothing can be read.                        *)
Exhausted ==
  \/ channelState = "failed"
  \/ channelState \in {"eof", "closed"} /\ channelRead = remoteSent

-----------------------------------------------------------------------------
(* runPush and the send it calls.                                          *)

(* spawn of runPull has returned, for its first async_write has begun, and *)
(* the listener spawns runPush.                                            *)
PushStarts ==
  /\ push = "none" /\ channelRead > 0
  /\ push' = "read"
  /\ UNCHANGED <<srcRead, commandStr, writtenBytes, cutShort, starved,
                 clientVars, remoteVars, pullVars>>

(* Mutant: send appends to commandStr.                                     *)
SendAppends(bytes) ==
  /\ commandStr' = commandStr \o bytes
  /\ writtenBytes' = 0

(* send takes the command over and starts writing it from the beginning.   *)
SendStarts(bytes) ==
  /\ commandStr' = bytes
  /\ writtenBytes' = 0

(* Mutant: the send is given the whole buffer, not bytesTransferred bytes. *)
PushReadsWholeBuffer(n) ==
  /\ push = "read"
  /\ n = ReadBufferLength
  /\ clientSent > srcRead
  /\ srcRead' = srcRead + n
  /\ SendStarts(Chunk(srcRead, n))
  /\ push' = "write"
  /\ UNCHANGED <<cutShort, starved, clientVars, remoteVars, pullVars>>

(* async_read_some completes with n bytes, and runPush calls send.         *)
PushReads(n) ==
  /\ push = "read"
  /\ n <= clientSent - srcRead
  /\ srcRead' = srcRead + n
  /\ SendStarts(Chunk(srcRead, n))
  /\ push' = "write"
  /\ UNCHANGED <<cutShort, starved, clientVars, remoteVars, pullVars>>

(* Mutant: runPush leaves as soon as the application has shut down, bytes  *)
(* still unread.                                                           *)
PushReadFailsEarly ==
  /\ push = "read"
  /\ clientState # "open"
  /\ push' = "done"
  /\ UNCHANGED <<srcRead, commandStr, writtenBytes, cutShort, starved,
                 clientVars, remoteVars, pullVars>>

(* async_read_some completes with an error: end of file once everything is *)
(* read, or a reset of an application that is gone.  runPush returns -1.   *)
PushReadFails ==
  /\ push = "read"
  /\ \/ clientState = "shut" /\ srcRead = clientSent
     \/ clientState = "gone"
  /\ push' = "done"
  /\ UNCHANGED <<srcRead, commandStr, writtenBytes, cutShort, starved,
                 clientVars, remoteVars, pullVars>>

(* Mutant: the loop tests writtenBytes <= commandStrLen.                   *)
PushWritesOnceMore(w) ==
  LET rc == Least(w, Len(commandStr)) IN
  /\ push = "write"
  /\ Writable
  /\ remoteGot' = remoteGot \o SubSeq(commandStr, 1, rc)
  /\ writtenBytes' = writtenBytes + rc
  /\ cutShort' = (cutShort \/ rc < Len(commandStr))
  /\ starved' = IF rc = 0 THEN starved + 1 ELSE starved
  /\ push' = IF rc > 0 /\ writtenBytes' <= Len(commandStr)
             THEN "write" ELSE "read"
  /\ UNCHANGED <<srcRead, commandStr, channelState, remoteSent, clientVars,
                 pullVars>>

(* Mutant: the loop ends with the first write that takes anything.         *)
PushWritesOnce(w) ==
  LET rc == Least(w, Len(commandStr)) IN
  /\ push = "write"
  /\ Writable
  /\ remoteGot' = remoteGot \o SubSeq(commandStr, 1, rc)
  /\ writtenBytes' = writtenBytes + rc
  /\ cutShort' = (cutShort \/ rc < Len(commandStr))
  /\ starved' = IF rc = 0 THEN starved + 1 ELSE starved
  /\ push' = "read"
  /\ UNCHANGED <<srcRead, commandStr, channelState, remoteSent, clientVars,
                 pullVars>>

(* One turn of the loop of writeCommandChannel.  Every turn offers the     *)
(* channel commandStr from its first byte; the channel takes what the      *)
(* window w has room for.                                                  *)
PushWrites(w) ==
  LET rc == Least(w, Len(commandStr)) IN
  /\ push = "write"
  /\ Writable
  /\ remoteGot' = remoteGot \o SubSeq(commandStr, 1, rc)
  /\ writtenBytes' = writtenBytes + rc
  /\ cutShort' = (cutShort \/ rc < Len(commandStr))
  /\ starved' = IF rc = 0 THEN starved + 1 ELSE starved
  /\ push' = IF rc > 0 /\ writtenBytes' < Len(commandStr)
             THEN "write" ELSE "read"
  /\ UNCHANGED <<srcRead, commandStr, channelState, remoteSent, clientVars,
                 pullVars>>

(* Mutant: writeCommandChannel tries a failed write again.                 *)
PushWriteFailsRetrying ==
  /\ push = "write"
  /\ ~Writable
  /\ UNCHANGED vars

(* libssh2_channel_write fails: writeCommandChannel gives up the send, and *)
(* send returns 0 all the same, so runPush goes back to reading.           *)
PushWriteFails ==
  /\ push = "write"
  /\ ~Writable
  /\ push' = "read"
  /\ UNCHANGED <<srcRead, commandStr, writtenBytes, cutShort, starved,
                 clientVars, remoteVars, pullVars>>

-----------------------------------------------------------------------------
(* runPull and the read it calls.                                          *)

(* Mutant: the whole buffer is appended, not the rc bytes read.            *)
PullReadsWholeBuffer(n) ==
  /\ pull = "read"
  /\ channelState # "failed"
  /\ n <= remoteSent - channelRead
  /\ channelRead' = channelRead + n
  /\ bufferStr' = Chunk(channelRead, ChannelBuffer)
  /\ spinning' = FALSE
  /\ pull' = "write"
  /\ UNCHANGED <<clientVars, pushVars, remoteVars>>

(* libssh2_channel_read returns n bytes.  The loop of readCommandChannel   *)
(* tests a variable its body shadows, so it turns once.                    *)
PullReads(n) ==
  /\ pull = "read"
  /\ channelState # "failed"
  /\ n <= remoteSent - channelRead
  /\ channelRead' = channelRead + n
  /\ bufferStr' = Chunk(channelRead, n)
  /\ spinning' = FALSE
  /\ pull' = "write"
  /\ UNCHANGED <<clientVars, pushVars, remoteVars>>

(* Mutant: runPull returns when a read has nothing.                        *)
PullReadsNothingAndEnds ==
  /\ pull = "read"
  /\ Exhausted
  /\ pull' = "done"
  /\ UNCHANGED <<channelRead, bufferStr, spinning, clientVars, pushVars,
                 remoteVars>>

(* The read ends at end of file or with an error: either way read leaves   *)
(* len = 0 and runPull reads again at once.                                *)
PullReadsNothing ==
  /\ pull = "read"
  /\ Exhausted
  /\ spinning' = TRUE
  /\ UNCHANGED <<pull, channelRead, bufferStr, clientVars, pushVars,
                 remoteVars>>

(* Mutant: async_write_some in place of async_write, the rest forgotten.   *)
PullWritesSome(n) ==
  /\ pull = "write"
  /\ n <= Len(bufferStr)
  /\ clientGot' = IF clientState = "gone" THEN clientGot
                  ELSE clientGot \o SubSeq(bufferStr, 1, n)
  /\ bufferStr' = << >>
  /\ pull' = "read"
  /\ UNCHANGED <<clientState, clientSent, channelRead, spinning, pushVars,
                 remoteVars>>

(* async_write hands srcSocket the next n bytes of bufferStr; it completes *)
(* with the last one.  An application that is gone receives nothing.       *)
PullWrites(n) ==
  /\ pull = "write"
  /\ n <= Len(bufferStr)
  /\ clientGot' = IF clientState = "gone" THEN clientGot
                  ELSE clientGot \o SubSeq(bufferStr, 1, n)
  /\ bufferStr' = SubSeq(bufferStr, n + 1, Len(bufferStr))
  /\ pull' = IF n < Len(bufferStr) THEN "write" ELSE "read"
  /\ UNCHANGED <<clientState, clientSent, channelRead, spinning, pushVars,
                 remoteVars>>

(* Mutant: runPull takes an application that only stopped sending for one  *)
(* that is gone.                                                           *)
PullWriteFailsWhenShut ==
  /\ pull = "write"
  /\ clientState # "open"
  /\ pull' = "done"
  /\ bufferStr' = << >>
  /\ UNCHANGED <<channelRead, spinning, clientVars, pushVars, remoteVars>>

(* async_write completes with an error: runPull returns -1.                *)
PullWriteFails ==
  /\ pull = "write"
  /\ clientState = "gone"
  /\ pull' = "done"
  /\ bufferStr' = << >>
  /\ UNCHANGED <<channelRead, spinning, clientVars, pushVars, remoteVars>>

-----------------------------------------------------------------------------
PushStep ==
  \/ PushStarts
  \/ \E n \in 1..ReadBufferLength : PushReads(n)
  \/ PushReadFails
  \/ \E w \in Windows : PushWrites(w)
  \/ PushWriteFails

PullStep ==
  \/ \E n \in 1..ChannelBuffer : PullReads(n)
  \/ PullReadsNothing
  \/ \E n \in 1..ChannelBuffer : PullWrites(n)
  \/ PullWriteFails

(* Both coroutines have returned. *)
Finished == push = "done" /\ pull = "done" /\ UNCHANGED vars

Next ==
  \/ Finished
  \/ ClientSends
  \/ ClientLeaves
  \/ RemoteSends
  \/ RemoteEnds
  \/ ChannelFails
  \/ PushStep
  \/ PullStep

Spec == Init /\ [][Next]_vars

(* Each coroutine that can take a step takes one: a thread of the pool is  *)
(* free for it (TunnelServer models the pool), and the listener, once      *)
(* spawn has returned, goes on to spawn runPush.  That spawn returns is not*)
(* assumed: it takes a byte of the remote end.  The ends owe nothing.      *)
FairSpec == Spec /\ WF_vars(PushStep) /\ WF_vars(PullStep)

-----------------------------------------------------------------------------
(* The state of a connection: no coroutine has read more than was sent,    *)
(* and each holds at most one buffer.                                      *)
TypeOK ==
  /\ clientState \in {"open", "shut", "gone"}
  /\ clientSent \in 0..MaxBytes
  /\ clientGot \in Seq(Nat)
  /\ push \in {"none", "read", "write", "done"}
  /\ srcRead \in 0..clientSent
  /\ commandStr \in Seq(Nat) /\ Len(commandStr) <= ReadBufferLength
  /\ writtenBytes \in Nat
  /\ cutShort \in BOOLEAN /\ starved \in Nat
  /\ channelState \in {"open", "eof", "closed", "failed"}
  /\ remoteSent \in 0..MaxBytes
  /\ remoteGot \in Seq(Nat)
  /\ pull \in {"read", "write", "done"}
  /\ channelRead \in 0..remoteSent
  /\ bufferStr \in Seq(Nat) /\ Len(bufferStr) <= ChannelBuffer
  /\ spinning \in BOOLEAN

(* runPull neither loses, repeats nor reorders a byte: until the           *)
(* application goes, what it has received and what runPull still holds of  *)
(* bufferStr are exactly the bytes read from the channel.                  *)
PullConservation ==
  clientState # "gone" /\ pull # "done"
    => clientGot \o bufferStr = Chunk(0, channelRead)

(* The bytes of the send under way.                                        *)
Sending == IF push = "write" THEN commandStr ELSE << >>

(* The same of runPush and send, as long as every write takes the whole    *)
(* command and the channel can be written: what the remote end has         *)
(* received, and the command still being sent, are exactly the bytes read  *)
(* from srcSocket.                                                         *)
PushConservation ==
  Writable /\ ~cutShort => remoteGot \o Sending = Chunk(0, srcRead)

(* Neither direction loses, repeats or reorders a byte.                    *)
Conservation == PullConservation /\ PushConservation

(* The remote end receives the bytes of the application in order, each     *)
(* once, with at most the end of the stream missing.                       *)
PushInOrder == remoteGot = Chunk(0, Len(remoteGot))

(* What the send under way has not written yet.                            *)
Unwritten == IF push = "write" THEN Len(commandStr) - writtenBytes ELSE 0

(* Only a write that finds no room drops bytes, and at most one buffer of  *)
(* them: while the channel can be written, the remote end has been sent    *)
(* at least as many bytes as were read, but for these.                     *)
BoundedLoss ==
  Writable =>
    srcRead <= Len(remoteGot) + Unwritten + ReadBufferLength * starved

(* A write that takes only a part makes writeCommandChannel repeat bytes,  *)
(* but less than once each: it does not go on for ever.                    *)
BoundedRepeat == srcRead > 0 => Len(remoteGot) < 2 * srcRead

(* What writes that are cut short may cost, after which Conservation says  *)
(* nothing any more.                                                       *)
ShortWritesBounded == BoundedLoss /\ BoundedRepeat

(* Each direction of the connection implements the pipe it should be.      *)
Pull == INSTANCE BytePipe WITH sent <- remoteSent, got <- clientGot
Push == INSTANCE BytePipe WITH sent <- clientSent, got <- remoteGot

(* runPull and read implement the pipe from the remote end to the          *)
(* application.                                                            *)
PullIsAPipe == Pull!Spec

(* runPush and send implement the pipe from the application to the remote  *)
(* end up to the first write that is cut short.                            *)
PushIsAPipe == Push!Init /\ [][Push!Next \/ cutShort']_(Push!vars)

(* The two coroutines share a socket and a channel, and still implement a  *)
(* pipe each.                                                              *)
BothArePipes == PullIsAPipe /\ PushIsAPipe

(* How many steps the connection can still take at most: those of the two  *)
(* ends and the channel, of runPush (its start; a read of n bytes, with    *)
(* its send, takes no more than 2 n) and of runPull (a read of n bytes, the*)
(* writing of them, and the read of nothing that may follow).              *)
EndsLeft ==
  (MaxBytes - clientSent) + (MaxBytes - remoteSent)
    + (CASE clientState = "open" -> 2 [] clientState = "shut" -> 1 [] OTHER -> 0)
    + (CASE channelState = "open" -> 3 [] channelState = "eof" -> 2
         [] channelState = "closed" -> 1 [] OTHER -> 0)
PushLeft ==
  2 * (MaxBytes - srcRead)
    + (IF push = "write" THEN Len(commandStr) - writtenBytes ELSE 0)
    + (CASE push = "none" -> 2 [] push = "done" -> 0 [] OTHER -> 1)
PullLeft ==
  3 * (MaxBytes - channelRead) + Len(bufferStr)
    + (IF pull = "done" THEN 0 ELSE 1) + (IF spinning THEN 0 ELSE 1)
StepsLeft == EndsLeft + PushLeft + PullLeft

(* runPush, and runPull, can do something, other than read nothing.        *)
PushCanGo ==
  \/ push = "none" /\ channelRead > 0
  \/ push = "read" /\ (srcRead < clientSent \/ clientState # "open")
  \/ push = "write" /\ (Windows # {} \/ ~Writable)
PullCanGo ==
  \/ pull = "read" /\ channelState # "failed" /\ channelRead < remoteSent
  \/ pull = "write" /\ (bufferStr # << >> \/ clientState = "gone")

(* A coroutine that can do nothing more holds nothing back: once there has *)
(* been a word of the remote end, runPush has read all there is and the    *)
(* remote end has it, if every write was whole and the channel open; the   *)
(* application has all that runPull was to bring.                          *)
NothingHeldBack ==
  clientState # "gone" =>
    /\ ~PushCanGo /\ channelRead > 0 => srcRead = clientSent
    /\ ~PushCanGo /\ channelRead > 0 /\ Writable /\ ~cutShort
         => remoteGot = Chunk(0, clientSent)
    /\ ~PullCanGo /\ channelState # "failed" => clientGot = Chunk(0, remoteSent)

(* However short the writes are, and whatever fails, the connection comes  *)
(* to rest after at most 7 * MaxBytes + 9 steps, with nothing held back:   *)
(* no loop of the code turns for ever, but runPull reading nothing, which  *)
(* changes nothing.                                                        *)
Settles ==
  /\ StepsLeft <= 7 * MaxBytes + 9
  /\ [][StepsLeft' \in Nat /\ StepsLeft' < StepsLeft]_vars
  /\ []NothingHeldBack

(* Once the remote end has said something, every byte the application has  *)
(* sent or sends reaches it, unless a write is cut short, the channel      *)
(* closes or the application goes away: shutting down its sending side     *)
(* loses nothing.  A service that waits to be asked waits for ever.        *)
PushDelivers ==
  \A i \in 1..MaxBytes :
    clientSent >= i /\ remoteSent > 0 ~> \/ Len(remoteGot) >= i
                                         \/ cutShort
                                         \/ ~Writable
                                         \/ clientState = "gone"

(* Every byte the remote end sends reaches the application, also after the *)
(* remote end has ended and the application has stopped sending.           *)
PullDelivers ==
  \A i \in 1..MaxBytes :
    remoteSent >= i ~> \/ Len(clientGot) >= i
                       \/ channelState = "failed"
                       \/ clientState = "gone"

(* Both directions deliver.                                                *)
Delivers == PushDelivers /\ PullDelivers

(* The application is not stopped by a channel that is closed or failed:   *)
(* if runPull ever read a byte, runPush goes on reading what the           *)
(* application sends, and drops it.                                        *)
PushDrains ==
  \A i \in 1..MaxBytes :
    clientSent >= i /\ channelRead > 0 ~> srcRead >= i \/ clientState = "gone"

(* Once the remote end is done, runPull ends up reading nothing for ever:  *)
(* it never returns and never leaves its thread.                           *)
EndMeansSpinning ==
  channelState \in {"eof", "closed"} ~> \/ clientState = "gone"
                          \/ [](pull = "read" /\ spinning)
=============================================================================
