------------------------- MODULE PortForwardingServer -------------------------
(***************************************************************************)
(* The port forwarding server: ForwardingServerImpl::run and               *)
(* ListenerImpl::run (src/core/PortForwardingServer.cpp,                   *)
(* PortForwardingServerListener.cpp).                                      *)
(*                                                                         *)
(* The listener connects to the destination first and then accepts a       *)
(* source for it, so that it usually holds a connection to the destination *)
(* that nobody uses yet; meanwhile the destination may close it.  Nothing  *)
(* the listener does blocks its thread.                                    *)
(***************************************************************************)
EXTENDS Naturals, FiniteSets, SequencesExt

CONSTANTS
  Sources,          \* the applications that connect, once each
  HardwareThreads,  \* what hardware_concurrency() may return
  MaxDeaths         \* bound: how many connections the destination closes

ASSUME ForwardingServerAssumption ==
  /\ IsFiniteSet(Sources)
  /\ HardwareThreads \subseteq Nat
  /\ MaxDeaths \in Nat

VARIABLES
  threads,         \* how many threads run the io_context
  listener,        \* where ListenerImpl::run is
  listening,       \* the acceptor listens
  service,         \* the destination accepts connections
  fresh,           \* the destination has not closed destSocket
  backlog,         \* connections the kernel holds for the acceptor
  connectionList,  \* ServerState::connectionList
  arrived,         \* history: the sources that connected, in order
  deaths           \* history: how many times a held destSocket was closed

sourceVars == <<backlog, connectionList, arrived>>
vars == <<threads, listener, listening, service, fresh, sourceVars, deaths>>

(* Mutant: the loop that starts the threads does so once too often.        *)
OneMoreThread == {n + 1 : n \in HardwareThreads}

ThreadsNum == HardwareThreads

(* run, which is called once, has spawned the listener and started as many *)
(* threads as the hardware has.                                            *)
Init ==
  /\ threads \in ThreadsNum
  /\ listener = "spawned" /\ listening = FALSE
  /\ service = TRUE /\ fresh = FALSE
  /\ backlog = << >> /\ connectionList = << >> /\ arrived = << >>
  /\ deaths = 0

-----------------------------------------------------------------------------
(* The sources and the destination, which the code does not control.       *)

(* A source needs the acceptor to listen, not the listener to accept.      *)
SourceConnects(s) ==
  /\ listening /\ s \notin ToSet(arrived)
  /\ backlog' = Append(backlog, s)
  /\ arrived' = Append(arrived, s)
  /\ UNCHANGED <<threads, listener, listening, service, fresh, connectionList,
                 deaths>>

(* The destination closes a connection that has been idle for too long, or *)
(* that a restart has broken.                                              *)
DestinationCloses ==
  /\ listener = "accept" /\ fresh /\ deaths < MaxDeaths
  /\ fresh' = FALSE
  /\ deaths' = deaths + 1
  /\ UNCHANGED <<threads, listener, listening, service, sourceVars>>

(* The destination goes away, or comes back.                               *)
DestinationChanges ==
  /\ service' = ~service
  /\ UNCHANGED <<threads, listener, listening, fresh, sourceVars, deaths>>

-----------------------------------------------------------------------------
(* open, set_option, bind and listen; an error of one ends the listener.   *)
Listens ==
  /\ threads > 0 /\ listener = "spawned"
  /\ \/ listener' = "connect" /\ listening' = TRUE
     \/ listener' = "done" /\ UNCHANGED listening
  /\ UNCHANGED <<threads, service, fresh, sourceVars, deaths>>

(* async_connect succeeds; when it fails, the loop begins again.           *)
Connects ==
  /\ listener = "connect" /\ service
  /\ fresh' = TRUE
  /\ listener' = "accept"
  /\ UNCHANGED <<threads, listening, service, sourceVars, deaths>>

(* Mutant: the last source of the backlog is accepted.                     *)
Youngest == Last(backlog)

(* What async_accept takes from the backlog.                               *)
Oldest == Head(backlog)

(* Mutant: the listener accepts another source for the same destination.   *)
AcceptsAgain == "accept"

(* Mutant: an accept that fails ends the listener.                         *)
GivesUp == "done"

(* Where the loop goes on after a source is accepted, and when async_accept*)
(* fails: with a new destination.                                          *)
AfterAccept == "connect"
AfterFailure == "connect"

(* async_accept gives the first source of the backlog, which gets the      *)
(* destination that is there; run and run2 are spawned for them.           *)
Accepts ==
  /\ listener = "accept" /\ backlog # << >>
  /\ connectionList' = Append(connectionList,
                              [source |-> Oldest, fresh |-> fresh])
  /\ backlog' = Tail(backlog)
  /\ fresh' = FALSE
  /\ listener' = AfterAccept
  /\ UNCHANGED <<threads, listening, service, arrived, deaths>>

(* async_accept fails, and the destination is given up with it.            *)
AcceptFails ==
  /\ listener = "accept"
  /\ fresh' = FALSE
  /\ listener' = AfterFailure
  /\ UNCHANGED <<threads, listening, service, sourceVars, deaths>>

Next ==
  \/ Listens \/ Connects \/ Accepts \/ AcceptFails
  \/ DestinationCloses \/ DestinationChanges
  \/ \E s \in Sources : SourceConnects(s)

Spec == Init /\ [][Next]_vars

(* The io_context runs what is ready; an operation tried again and again   *)
(* succeeds at last, while the other end lets it.                          *)
FairSpec == Spec /\ WF_vars(Listens) /\ SF_vars(Connects) /\ SF_vars(Accepts)

-----------------------------------------------------------------------------
TypeOK ==
  /\ threads \in HardwareThreads
  /\ listener \in {"spawned", "connect", "accept", "done"}
  /\ listening \in BOOLEAN /\ service \in BOOLEAN /\ fresh \in BOOLEAN
  /\ backlog \in Seq(Sources) /\ arrived \in Seq(Sources)
  /\ connectionList \in Seq([source : Sources, fresh : BOOLEAN])
  /\ deaths \in 0..MaxDeaths

(* The sources of connectionList.                                          *)
Taken == [i \in DOMAIN connectionList |-> connectionList[i].source]

(* No source is lost, taken twice or overtaken, however often the          *)
(* destination or the accept fails.                                        *)
EachInTurn ==
  Taken \o backlog = arrived

Queue == INSTANCE AcceptQueue
           WITH Callers <- Sources, waiting <- backlog, taken <- Taken,
                came <- ToSet(arrived)

(* The listener takes the sources as an AcceptQueue does: each that has    *)
(* come once, the oldest first, and it never gives one back.               *)
TakenInTurn == Queue!Spec

(* The sources that get a destination which has closed their connection    *)
(* before they came, the one that would now included.                      *)
Stale == {i \in DOMAIN connectionList : ~connectionList[i].fresh}
NextIsStale == listener = "accept" /\ ~fresh

(* A connection the destination closes while the listener waits costs one  *)
(* source, never more: the next one gets a new connection.                 *)
OneSourcePerDeath ==
  Cardinality(Stale) + (IF NextIsStale THEN 1 ELSE 0) <= deaths

(* Every source that connects is accepted, as long as the destination      *)
(* keeps coming back.                                                      *)
AcceptsAll ==
  []<>service =>
    \A s \in Sources :
      s \in ToSet(arrived) ~>
        \E i \in DOMAIN connectionList : connectionList[i].source = s
===============================================================================
