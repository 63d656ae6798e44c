---------------------------- MODULE TunnelServer ----------------------------
(***************************************************************************)
(* The SSH tunnel server: TunnelServerImpl::run, its io_context and pool   *)
(* of threads, ListenerImpl::run and the coroutines runPull and runPush of *)
(* each connection (src/core/TunnelServer.cpp, TunnelServerListener.cpp,   *)
(* TunnelServerConnection.cpp), with ClientImpl::connect and tunnel        *)
(* (src/core/Client.cpp) as the listener calls them.                       *)
(*                                                                         *)
(* A coroutine is suspended in an asynchronous operation of Boost.Asio,    *)
(* waits in the run queue of the io_context, or runs.  What runs holds a   *)
(* thread of the pool, and the calls of libssh2 and ConnectSocket block    *)
(* it: connect and tunnel in the listener, libssh2_channel_read in         *)
(* runPull, libssh2_channel_write in runPush.  Everything else a coroutine *)
(* does between two suspensions is part of the step that ends it.          *)
(*                                                                         *)
(* boost::asio::spawn, called in a thread of the pool, runs the new        *)
(* coroutine at once, until it suspends (Boost 1.72, which the headers of  *)
(* the code name).                                                         *)
(*                                                                         *)
(* TunnelConnection has the bytes of a connection; here a connection       *)
(* carries the messages of one exchange: a greeting of the remote service  *)
(* if it speaks first (as MySQL does), a request, a reply.                 *)
(***************************************************************************)
EXTENDS Naturals, Sequences, FiniteSets, SequencesExt

CONSTANTS
  Conns,          \* the applications that connect, once each
  Threads,        \* hardware_concurrency(): the threads of the pool
  GreetsFirst,    \* the connections on which the remote service speaks first
  Faults          \* what may go wrong, a subset of AllFaults

AllFaults == {"setup", "resolve", "handshake", "auth", "tunnel",
              "leave", "end", "mute"}

ASSUME ServerAssumption ==
  /\ IsFiniteSet(Conns)
  /\ Threads \in Nat
  /\ GreetsFirst \subseteq Conns
  /\ Faults \subseteq AllFaults

VARIABLES
  alive,           \* the process has not terminated
  runQueue,        \* the coroutines that are ready to run
  listener,        \* where ListenerImpl::run is
  opening,         \* the connections whose socket the listener holds
  threadIo,        \* the sshClient of the listener has a joinable threadIo
  backlog,         \* connections the kernel holds for the acceptor
  connectionList,  \* ServerState::connectionList
  pull,            \* where each runPull is
  push,            \* where each runPush is
  holding,         \* messages in the hands of each runPull
  client,          \* each application: "idle", "open", "gone"
  written,         \* messages written to each application
  request,         \* how far each request is
  remote,          \* the remote end of each channel
  unread           \* messages of the remote service not read yet

poolVars == <<alive, runQueue>>
listenVars == <<listener, opening, threadIo, connectionList>>
pullVars == <<pull, holding>>
endVars == <<client, written, request>>
remoteVars == <<remote, unread>>
vars == <<poolVars, listenVars, backlog, pullVars, push, endVars, remoteVars>>

Listener == <<"listener">>
Pull(c) == <<"pull", c>>
Push(c) == <<"push", c>>

(* The listener is inside a blocking call: a step of connect or tunnel, or *)
(* spawn while it runs runPull inline.                                     *)
Blocked == {"resolve", "handshake", "auth", "tunnel", "spawn"}

(* What holds a thread.  A runPull the listener runs inline is on the      *)
(* thread of the listener.                                                 *)
Inline(c) == listener = "spawn" /\ opening = <<c>>
Running ==
  (IF listener \in Blocked THEN {Listener} ELSE {})
    \union {Pull(c) : c \in {d \in Conns : pull[d] = "read" /\ ~Inline(d)}}
    \union {Push(c) : c \in {d \in Conns : push[d] = "send"}}

(* Mutant: the pool takes one coroutine too many.                          *)
OneMoreThread == Cardinality(Running) <= Threads

FreeThread == Cardinality(Running) < Threads

(* The first coroutine of the run queue gets a free thread.                *)
Starts(coroutine) ==
  /\ runQueue # << >> /\ Head(runQueue) = coroutine
  /\ FreeThread
  /\ runQueue' = Tail(runQueue)
  /\ UNCHANGED alive

(* The asynchronous operation of a coroutine completes.                    *)
Ready(coroutine) ==
  /\ runQueue' = Append(runQueue, coroutine)
  /\ UNCHANGED alive

(* run() spawns the listener from a thread outside the pool.               *)
Init ==
  /\ alive = TRUE
  /\ runQueue = <<Listener>>
  /\ listener = "spawned"
  /\ opening = << >> /\ threadIo = FALSE
  /\ backlog = << >> /\ connectionList = << >>
  /\ pull = [c \in Conns |-> "none"] /\ holding = [c \in Conns |-> 0]
  /\ push = [c \in Conns |-> "none"]
  /\ client = [c \in Conns |-> "idle"] /\ written = [c \in Conns |-> 0]
  /\ request = [c \in Conns |-> "none"]
  /\ remote = [c \in Conns |-> "none"] /\ unread = [c \in Conns |-> 0]

-----------------------------------------------------------------------------
(* The listener.                                                           *)

(* open, set_option, bind and listen, then async_accept; an error of one   *)
(* of the four ends ListenerImpl::run.                                     *)
ListenerStarts ==
  /\ listener = "spawned"
  /\ Starts(Listener)
  /\ \/ listener' = "accept"
     \/ "setup" \in Faults /\ listener' = "ended"
  /\ UNCHANGED <<opening, threadIo, connectionList, backlog, pullVars, push,
                 endVars, remoteVars>>

(* async_accept completes with the oldest connection of the backlog.  When *)
(* it fails instead the loop calls it again: a step that changes nothing.  *)
Accepts ==
  /\ listener = "accept" /\ backlog # << >>
  /\ Ready(Listener)
  /\ listener' = "ready"
  /\ opening' = <<Head(backlog)>>
  /\ backlog' = Tail(backlog)
  /\ UNCHANGED <<threadIo, connectionList, pullVars, push, endVars,
                 remoteVars>>

(* Mutant: a connection joins connectionList only if it is the first.      *)
ListedFirst == IF connectionList = << >> THEN opening ELSE connectionList

Listed == connectionList \o opening

(* The connection joins connectionList, and connect is called.             *)
ListenerOpens ==
  /\ listener = "ready"
  /\ Starts(Listener)
  /\ listener' = "resolve"
  /\ connectionList' = Listed
  /\ UNCHANGED <<opening, threadIo, backlog, pullVars, push, endVars,
                 remoteVars>>

(* ConnectSocket returns; an exception it throws leaves the thread of the  *)
(* pool and terminates the process.                                        *)
SocketConnects ==
  /\ listener = "resolve"
  /\ \/ listener' = "handshake" /\ UNCHANGED alive
     \/ "resolve" \in Faults /\ alive' = FALSE /\ UNCHANGED listener
  /\ UNCHANGED <<runQueue, opening, threadIo, connectionList, backlog,
                 pullVars, push, endVars, remoteVars>>

(* Mutant: threadIo is started before the handshake.                       *)
AbandonedBefore == threadIo \/ listener = "handshake"

(* sshClient has a joinable threadIo.                                      *)
Abandoned == threadIo

(* connect or tunnel returns -1: the listener goes on to the next          *)
(* async_accept, and drops sshClient.  The connection stays in             *)
(* connectionList, its socket open.  If threadIo has been started, nobody  *)
(* joined it, and destroying it terminates the process.                    *)
Skips ==
  /\ IF Abandoned
     THEN alive' = FALSE /\ UNCHANGED <<listener, opening, remote>>
     ELSE /\ listener' = "accept"
          /\ remote' = [remote EXCEPT ![opening[1]] = "refused"]
          /\ opening' = << >>
          /\ UNCHANGED alive
  /\ UNCHANGED <<runQueue, threadIo, connectionList, backlog, pullVars, push,
                 endVars, unread>>

(* libssh2_session_handshake; after it, threadIo starts.                   *)
ShakesHands ==
  /\ listener = "handshake"
  /\ listener' = "auth"
  /\ threadIo' = TRUE
  /\ UNCHANGED <<poolVars, opening, connectionList, backlog, pullVars, push,
                 endVars, remoteVars>>

Authenticates ==
  /\ listener = "auth"
  /\ listener' = "tunnel"
  /\ UNCHANGED <<poolVars, opening, threadIo, connectionList, backlog,
                 pullVars, push, endVars, remoteVars>>

(* Mutant: the result of connect is not tested.                            *)
OpenFailsUnnoticed ==
  /\ listener \in {"handshake", "auth", "tunnel"} \intersect Faults
  /\ pull' = [pull EXCEPT ![opening[1]] = "read"]
  /\ listener' = "spawn"
  /\ UNCHANGED <<poolVars, opening, threadIo, connectionList, backlog, holding,
                 push, endVars, remoteVars>>

OpenFails ==
  /\ listener \in {"handshake", "auth", "tunnel"} \intersect Faults
  /\ Skips

(* libssh2_channel_direct_tcpip_ex: the remote service has the connection. *)
ChannelOpens(c) ==
  remote' = [remote EXCEPT ![c] = IF c \in GreetsFirst THEN "open" ELSE "ready"]

(* Mutant: runPush is spawned before runPull.                              *)
PushSpawned(c) == [push EXCEPT ![c] = "read"]

(* runPush is spawned when the spawn of runPull has returned.              *)
PushToSpawn(c) == push

(* tunnel() returns 0 and the listener spawns runPull, which runs into its *)
(* first libssh2_channel_read before spawn returns.                        *)
OpensTunnel ==
  LET c == opening[1] IN
  /\ listener = "tunnel"
  /\ ChannelOpens(c)
  /\ threadIo' = FALSE
  /\ listener' = "spawn"
  /\ pull' = [pull EXCEPT ![c] = "read"]
  /\ push' = PushToSpawn(c)
  /\ UNCHANGED <<poolVars, opening, connectionList, backlog, holding, endVars,
                 unread>>

ListenerStep ==
  \/ ListenerStarts \/ Accepts \/ ListenerOpens
  \/ SocketConnects \/ ShakesHands \/ Authenticates \/ OpensTunnel

-----------------------------------------------------------------------------
(* runPull.                                                                *)

(* Mutant: runPull returns at the end of the channel.                      *)
PullReadsAndEnds(c) ==
  /\ pull[c] = "read"
  /\ unread[c] > 0 \/ remote[c] = "ended"
  /\ holding' = [holding EXCEPT ![c] = unread[c]]
  /\ unread' = [unread EXCEPT ![c] = 0]
  /\ pull' = [pull EXCEPT ![c] = IF unread[c] > 0 THEN "write" ELSE "done"]
  /\ IF Inline(c)
     THEN /\ push' = [push EXCEPT ![c] = "read"]
          /\ listener' = "accept" /\ opening' = << >>
     ELSE UNCHANGED <<push, listener, opening>>
  /\ UNCHANGED <<poolVars, threadIo, connectionList, backlog, endVars, remote>>

(* libssh2_channel_read returns what there is, and async_write begins.  If *)
(* the listener runs this runPull inline, spawn now returns to it: it      *)
(* spawns runPush, which begins its first async_read_some, and accepts     *)
(* again.  With nothing to read runPull stays where it is, blocked in the  *)
(* call or, at the end of the channel, turning its loop.                   *)
PullReads(c) ==
  /\ pull[c] = "read" /\ unread[c] > 0
  /\ holding' = [holding EXCEPT ![c] = unread[c]]
  /\ unread' = [unread EXCEPT ![c] = 0]
  /\ pull' = [pull EXCEPT ![c] = "write"]
  /\ IF Inline(c)
     THEN /\ push' = [push EXCEPT ![c] = "read"]
          /\ listener' = "accept" /\ opening' = << >>
     ELSE UNCHANGED <<push, listener, opening>>
  /\ UNCHANGED <<poolVars, threadIo, connectionList, backlog, endVars, remote>>

(* async_write completes: the application has it all, or is gone.          *)
PullWritten(c) ==
  /\ pull[c] = "write"
  /\ Ready(Pull(c))
  /\ holding' = [holding EXCEPT ![c] = 0]
  /\ \/ /\ written' = [written EXCEPT ![c] = @ + holding[c]]
        /\ pull' = [pull EXCEPT ![c] = "ready"]
     \/ /\ client[c] = "gone"
        /\ pull' = [pull EXCEPT ![c] = "failed"]
        /\ UNCHANGED written
  /\ UNCHANGED <<listenVars, backlog, push, client, request, remoteVars>>

(* runPull gets a thread: it reads on, or returns after a failed write.    *)
PullRuns(c) ==
  /\ pull[c] \in {"ready", "failed"}
  /\ Starts(Pull(c))
  /\ pull' = [pull EXCEPT ![c] = IF @ = "failed" THEN "done" ELSE "read"]
  /\ UNCHANGED <<listenVars, backlog, holding, push, endVars, remoteVars>>

-----------------------------------------------------------------------------
(* runPush.                                                                *)

(* Mutant: runPush returns after the first error-free read.                *)
PushReadsAndReturns(c) ==
  /\ push[c] = "read"
  /\ Ready(Push(c))
  /\ request[c] = "asked" \/ client[c] = "gone"
  /\ push' = [push EXCEPT ![c] = "failed"]
  /\ UNCHANGED <<listenVars, backlog, pullVars, request, client, written,
                 remoteVars>>

(* async_read_some completes, with the request or with an error.  The      *)
(* request is then in src_read_buffer and has not gone to the channel yet. *)
PushReads(c) ==
  /\ push[c] = "read"
  /\ Ready(Push(c))
  /\ \/ /\ request[c] = "asked"
        /\ push' = [push EXCEPT ![c] = "ready"]
        /\ request' = [request EXCEPT ![c] = "carried"]
     \/ /\ client[c] = "gone"
        /\ push' = [push EXCEPT ![c] = "failed"]
        /\ UNCHANGED request
  /\ UNCHANGED <<listenVars, backlog, pullVars, client, written, remoteVars>>

(* runPush gets a thread: it calls send, or returns after a failed read.   *)
PushRuns(c) ==
  /\ push[c] \in {"ready", "failed"}
  /\ Starts(Push(c))
  /\ push' = [push EXCEPT ![c] = IF @ = "ready" THEN "send" ELSE "done"]
  /\ UNCHANGED <<listenVars, backlog, pullVars, endVars, remoteVars>>

(* Mutant: send may be called again with the same buffer.                  *)
PushSendsTwice(c) ==
  /\ push[c] = "send"
  /\ push' \in {push, [push EXCEPT ![c] = "read"]}
  /\ request' = [request EXCEPT ![c] = "received"]
  /\ UNCHANGED <<poolVars, listenVars, backlog, pullVars, client, written,
                 remoteVars>>

(* send returns, whether or not the remote end still takes the request.    *)
PushSends(c) ==
  /\ push[c] = "send"
  /\ push' = [push EXCEPT ![c] = "read"]
  /\ request' = [request EXCEPT ![c] =
                   IF remote[c] = "ended" THEN "lost" ELSE "received"]
  /\ UNCHANGED <<poolVars, listenVars, backlog, pullVars, client, written,
                 remoteVars>>

ConnectionStep ==
  \E c \in Conns :
    \/ PullReads(c) \/ PullWritten(c) \/ PullRuns(c)
    \/ PushReads(c) \/ PushRuns(c) \/ PushSends(c)

-----------------------------------------------------------------------------
(* The applications and the remote services.                               *)

Connects(c) ==
  /\ listener \notin {"spawned", "ended"}
  /\ client[c] = "idle"
  /\ client' = [client EXCEPT ![c] = "open"]
  /\ backlog' = Append(backlog, c)
  /\ UNCHANGED <<poolVars, listenVars, pullVars, push, written, request,
                 remoteVars>>

Asks(c) ==
  /\ client[c] = "open" /\ request[c] = "none"
  /\ c \in GreetsFirst => written[c] > 0
  /\ request' = [request EXCEPT ![c] = "asked"]
  /\ UNCHANGED <<poolVars, listenVars, backlog, pullVars, push, client,
                 written, remoteVars>>

Leaves(c) ==
  /\ "leave" \in Faults
  /\ client[c] = "open"
  /\ client' = [client EXCEPT ![c] = "gone"]
  /\ UNCHANGED <<poolVars, listenVars, backlog, pullVars, push, written,
                 request, remoteVars>>

Greets(c) ==
  /\ remote[c] = "open"
  /\ remote' = [remote EXCEPT ![c] = "ready"]
  /\ unread' = [unread EXCEPT ![c] = @ + 1]
  /\ UNCHANGED <<poolVars, listenVars, backlog, pullVars, push, endVars>>

Answers(c) ==
  /\ remote[c] = "ready" /\ request[c] = "received"
  /\ request' = [request EXCEPT ![c] = "answered"]
  /\ unread' = [unread EXCEPT ![c] = @ + 1]
  /\ UNCHANGED <<poolVars, listenVars, backlog, pullVars, push, client,
                 written, remote>>

(* The remote service ends the channel: in its time, or before a word.     *)
Ends(c) ==
  /\ \/ "end" \in Faults /\ remote[c] = "ready"
     \/ "mute" \in Faults /\ remote[c] = "open"
  /\ remote' = [remote EXCEPT ![c] = "ended"]
  /\ UNCHANGED <<poolVars, listenVars, backlog, pullVars, push, endVars,
                 unread>>

-----------------------------------------------------------------------------
(* What must happen, and what may.                                         *)
Step ==
  /\ alive
  /\ \/ ListenerStep \/ ConnectionStep
     \/ \E c \in Conns : Asks(c) \/ Greets(c) \/ Answers(c)

Chance ==
  /\ alive
  /\ OpenFails \/ \E c \in Conns : Connects(c) \/ Leaves(c) \/ Ends(c)

Next == Step \/ Chance

Spec == Init /\ [][Next]_vars

(* The io_context runs what is ready as soon as a thread is free; SSH      *)
(* servers and remote services answer; an application that may ask, asks.  *)
(* No behaviour has infinitely many steps, so this is fair to each.        *)
FairSpec == Spec /\ WF_vars(Step)

-----------------------------------------------------------------------------
TypeOK ==
  /\ alive \in BOOLEAN
  /\ runQueue \in Seq({Listener} \union {Pull(c) : c \in Conns}
                                 \union {Push(c) : c \in Conns})
  /\ listener \in Blocked \union {"spawned", "accept", "ready", "ended"}
  /\ opening \in Seq(Conns) /\ Len(opening) <= 1
  /\ threadIo \in BOOLEAN
  /\ backlog \in Seq(Conns) /\ connectionList \in Seq(Conns)
  /\ pull \in [Conns -> {"none", "read", "write", "ready", "failed", "done"}]
  /\ push \in [Conns -> {"none", "read", "send", "ready", "failed", "done"}]
  /\ holding \in [Conns -> 0..2] /\ unread \in [Conns -> 0..2]
  /\ written \in [Conns -> 0..2]
  /\ client \in [Conns -> {"idle", "open", "gone"}]
  /\ request \in [Conns -> {"none", "asked", "carried", "received", "answered",
                            "lost"}]
  /\ remote \in [Conns -> {"none", "refused", "open", "ready", "ended"}]

(* The pool is used soundly: a coroutine is in the run queue exactly when  *)
(* it is ready, once, so that no coroutine runs on two threads; and no     *)
(* more run than there are threads.                                        *)
PoolSound ==
  /\ IsInjective(runQueue)
  /\ ToSet(runQueue) =
       {Listener : x \in {listener} \intersect {"spawned", "ready"}}
       \union {Pull(c) : c \in {d \in Conns : pull[d] \in {"ready", "failed"}}}
       \union {Push(c) : c \in {d \in Conns : push[d] \in {"ready", "failed"}}}
  /\ Cardinality(Running) <= Threads

(* No connection is lost or taken twice between the kernel, the listener   *)
(* and connectionList, and they stay in the order they came in.            *)
ConnectionsKept ==
  LET all == connectionList
               \o (IF listener = "ready" THEN opening ELSE << >>) \o backlog
  IN IsInjective(all) /\ ToSet(all) = {c \in Conns : client[c] # "idle"}

(* What the listener has taken from the kernel.                            *)
Taken == connectionList \o (IF listener = "ready" THEN opening ELSE << >>)

Queue == INSTANCE AcceptQueue
           WITH Callers <- Conns, waiting <- backlog, taken <- Taken,
                came <- {c \in Conns : client[c] # "idle"}

(* However the openings end, no application is lost or overtaken: the      *)
(* listener takes them as an AcceptQueue does, each that has come once, the*)
(* oldest first, and never gives one back.                                 *)
TakenInTurn == Queue!Spec

(* runPull and runPush never run without an sshClient whose tunnel is      *)
(* open: setSshClient comes before the first of them starts, also when the *)
(* opening of another connection failed.                                   *)
OpenWhenUsed ==
  \A c \in Conns :
    pull[c] # "none" \/ push[c] # "none" => remote[c] \notin {"none", "refused"}

(* A connection whose opening failed is neither served nor told: it stays  *)
(* in connectionList, nothing runs for it, no byte is read from its        *)
(* application or written to it, and its socket is not closed.             *)
LeftAlone ==
  \A c \in Conns : remote[c] = "refused" =>
    /\ c \in ToSet(connectionList)
    /\ pull[c] = "none" /\ push[c] = "none"
    /\ request[c] \in {"none", "asked"} /\ written[c] = 0

TunnelBeforeUse == OpenWhenUsed /\ LeftAlone

(* What becomes of the process when an opening fails: it ends only inside  *)
(* one that fails in ConnectSocket, which throws, or after threadIo has    *)
(* started, which nobody joins; and the one failure it survives is that of *)
(* the handshake, between the two.                                         *)
SurvivesHandshake ==
  /\ ~alive => listener \in {"resolve", "auth", "tunnel"} \intersect Faults
  /\ (\E c \in Conns : remote[c] = "refused") => "handshake" \in Faults

(* runPush does not start before the remote service has said something:    *)
(* until then spawn has not returned to the listener.                      *)
PushAfterFirstWord ==
  \A c \in Conns : push[c] # "none" =>
    holding[c] + written[c] > 0 \/ pull[c] \in {"failed", "done"}

(* So a remote service that waits to be asked is never asked: what the     *)
(* application sends stays in srcSocket, and the listener never gets past  *)
(* that connection.                                                        *)
ClientFirstStarves ==
  \A c \in Conns \ GreetsFirst :
    /\ request[c] \in {"none", "asked"} /\ written[c] = 0
    /\ pull[c] # "none" => Inline(c)

(* Both come of spawn running runPull inside the listener.                 *)
WaitsForFirstWord == PushAfterFirstWord /\ ClientFirstStarves

(* Every thread of the pool is in a runPull whose channel has ended.       *)
Exhausted ==
  /\ Cardinality(Running) = Threads
  /\ Running \subseteq {Listener} \union {Pull(c) : c \in Conns}
  /\ \A c \in Conns : pull[c] = "read" => remote[c] = "ended" /\ unread[c] = 0
  /\ listener \in Blocked => listener = "spawn"

(* A pool used up by connections that have ended never recovers: runPull   *)
(* does not leave its thread at the end of the channel, so each connection *)
(* that was ever opened may cost the server one thread for good.           *)
ExhaustedForGood == [][Exhausted => Exhausted']_vars

(* What a connection has left to do, as a number: its way to connectionList*)
(* and through the opening, its two ends, its request, the messages under  *)
(* way, and its two coroutines.  A message costs runPull three steps.      *)
OpeningLeft(c) ==
  IF opening = <<c>>
  THEN CASE listener = "ready" -> 5 [] listener = "resolve" -> 4
         [] listener = "handshake" -> 3 [] listener = "auth" -> 2
         [] listener = "tunnel" -> 1 [] OTHER -> 0
  ELSE IF c \in ToSet(connectionList) THEN 0 ELSE 6

ClientLeft(s) == CASE s = "idle" -> 2 [] s = "open" -> 1 [] OTHER -> 0
RemoteLeft(s) ==
  CASE s \in {"none", "refused"} -> 6 [] s = "open" -> 5 [] s = "ready" -> 1
    [] OTHER -> 0
RequestLeft(s) ==
  CASE s = "none" -> 9 [] s = "asked" -> 8 [] s = "carried" -> 5
    [] s = "received" -> 4 [] OTHER -> 0
PullLeft(s) ==
  CASE s = "none" -> 4 [] s = "write" -> 3 [] s = "ready" -> 2
    [] s \in {"read", "failed"} -> 1 [] OTHER -> 0
PushLeft(s) ==
  CASE s = "ready" -> 4 [] s \in {"none", "send"} -> 3 [] s = "read" -> 2
    [] s = "failed" -> 1 [] OTHER -> 0

LeftOf(c) ==
  OpeningLeft(c) + ClientLeft(client[c]) + RemoteLeft(remote[c])
    + RequestLeft(request[c]) + 3 * unread[c]
    + PullLeft(pull[c]) + PushLeft(push[c])
LeftOfServer ==
  (IF alive THEN 1 ELSE 0) + (IF listener = "spawned" THEN 1 ELSE 0)

(* Every step brings the server or one connection nearer to its end, and   *)
(* takes none away from it: nothing is done over again, and the listener   *)
(* never comes back to a connection.  So n connections are at rest after   *)
(* at most 30 n + 2 steps (an empty read of runPull, which changes         *)
(* nothing, is not one of them).                                           *)
Progress ==
  [][/\ LeftOfServer' <= LeftOfServer
     /\ \A c \in Conns : LeftOf(c)' <= LeftOf(c)
     /\ \/ LeftOfServer' < LeftOfServer
        \/ \E c \in Conns : LeftOf(c)' < LeftOf(c)]_vars

(* An application that connects has its exchange with the remote service,  *)
(* if it stays, its tunnel is opened and lasts, and no opening ends the    *)
(* process.                                                                *)
Answered ==
  \A c \in Conns :
    client[c] = "open" ~>
      \/ written[c] = IF c \in GreetsFirst THEN 2 ELSE 1
      \/ client[c] = "gone" \/ remote[c] \in {"refused", "ended"}
      \/ ~alive

(* Nothing can be done: no coroutine that is ready gets a thread, none is  *)
(* called back, and the ends have nothing to say.                          *)
QuietConnection(c) ==
  /\ pull[c] # "write" /\ (pull[c] = "read" => unread[c] = 0)
  /\ push[c] # "send"
  /\ push[c] = "read" => request[c] # "asked" /\ client[c] # "gone"
  /\ client[c] = "open" /\ request[c] = "none"
       => c \in GreetsFirst /\ written[c] = 0
  /\ remote[c] = "ready" => request[c] # "received"
  /\ remote[c] # "open"
Quiet ==
  /\ runQueue = << >> \/ ~FreeThread
  /\ listener \notin Blocked \ {"spawn"}
  /\ listener = "accept" => backlog = << >>
  /\ \A c \in Conns : QuietConnection(c)

(* No thread is lost for want of another, nor of a first word.             *)
PoolSuffices ==
  Cardinality(Conns) < Threads /\ GreetsFirst = Conns /\ "mute" \notin Faults

(* With a thread more than there are connections the pool never locks up,  *)
(* whatever becomes of connections that have been greeted: when nothing    *)
(* can be done, every application that is still there has its exchange, or *)
(* its tunnel was refused or has ended.                                    *)
NoLockup ==
  PoolSuffices /\ alive /\ Quiet =>
    \A c \in Conns :
      client[c] = "open" => written[c] = 2 \/ remote[c] \in {"refused", "ended"}

(* What goes wrong with one connection stays with it, unless its opening   *)
(* ends the process in one of the ways SurvivesHandshake names.            *)
OthersUnharmed == SurvivesHandshake /\ NoLockup
=============================================================================
