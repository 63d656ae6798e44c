------------------------- MODULE TunnelServerProgress -------------------------
(***************************************************************************)
(* Why TunnelServer comes to rest, and where.  Every step brings it nearer *)
(* to its end: the measure LeftOf of each connection, with LeftOfServer,   *)
(* falls and never rises.  And a server that is at rest, with threads      *)
(* enough, has finished every exchange that could be finished.             *)
(***************************************************************************)
EXTENDS TunnelServerProofs

(* What the tables of the measure say, so that they need not be expanded.  *)
LEMMA Tables ==
  /\ ClientLeft("idle") = 2 /\ ClientLeft("open") = 1 /\ ClientLeft("gone") = 0
  /\ RemoteLeft("none") = 6 /\ RemoteLeft("open") = 5 /\ RemoteLeft("ready") = 1
  /\ RemoteLeft("ended") = 0 /\ RemoteLeft("refused") = 6
  /\ RequestLeft("none") = 9 /\ RequestLeft("asked") = 8
  /\ RequestLeft("carried") = 5 /\ RequestLeft("received") = 4
  /\ RequestLeft("answered") = 0 /\ RequestLeft("lost") = 0
  /\ PullLeft("none") = 4 /\ PullLeft("write") = 3 /\ PullLeft("ready") = 2
  /\ PullLeft("read") = 1 /\ PullLeft("failed") = 1 /\ PullLeft("done") = 0
  /\ PushLeft("ready") = 4 /\ PushLeft("none") = 3 /\ PushLeft("send") = 3
  /\ PushLeft("read") = 2 /\ PushLeft("failed") = 1 /\ PushLeft("done") = 0
BY DEF ClientLeft, RemoteLeft, RequestLeft, PullLeft, PushLeft

LEMMA LeftTypes ==
  /\ \A c : OpeningLeft(c) \in Nat /\ OpeningLeft(c)' \in Nat
  /\ \A s : /\ ClientLeft(s) \in Nat /\ RemoteLeft(s) \in Nat
            /\ RequestLeft(s) \in Nat /\ PullLeft(s) \in Nat
            /\ PushLeft(s) \in Nat
BY DEF OpeningLeft, ClientLeft, RemoteLeft, RequestLeft, PullLeft, PushLeft

(* What a connection has left besides the opening.                         *)
OwnLeft(c) ==
  ClientLeft(client[c]) + RemoteLeft(remote[c]) + RequestLeft(request[c])
    + 3 * unread[c] + PullLeft(pull[c]) + PushLeft(push[c])

LEMMA LeftSplit ==
  ASSUME Types, Types', NEW c \in Conns
  PROVE  /\ OwnLeft(c) \in Nat /\ OwnLeft(c)' \in Nat
         /\ LeftOf(c) = OpeningLeft(c) + OwnLeft(c) /\ LeftOf(c) \in Nat
         /\ LeftOf(c)' = OpeningLeft(c)' + OwnLeft(c)' /\ LeftOf(c)' \in Nat
<1>1. unread[c] \in Nat /\ unread'[c] \in Nat
  BY DEF Types
<1>2. 3 * unread[c] \in Nat /\ 3 * unread'[c] \in Nat
  BY <1>1
<1> QED
  BY <1>2, LeftTypes DEF LeftOf, OwnLeft

(* A step that leaves the connection alone, or its place in the opening.   *)
Alike(c) ==
  /\ client'[c] = client[c] /\ remote'[c] = remote[c]
  /\ request'[c] = request[c] /\ unread'[c] = unread[c]
  /\ pull'[c] = pull[c] /\ push'[c] = push[c]

LEMMA AlikeLeft == \A c \in Conns : Alike(c) => OwnLeft(c)' = OwnLeft(c)
BY DEF Alike, OwnLeft

LEMMA PlaceKept ==
  UNCHANGED <<listener, opening, connectionList>>
    => \A c \in Conns : OpeningLeft(c)' = OpeningLeft(c)
BY DEF OpeningLeft

(* The step of Progress.                                                   *)
Advances ==
  /\ LeftOfServer' <= LeftOfServer
  /\ \A c \in Conns : LeftOf(c)' <= LeftOf(c)
  /\ \/ LeftOfServer' < LeftOfServer
     \/ \E c \in Conns : LeftOf(c)' < LeftOf(c)

(* A step of connection c alone, in its place.                             *)
LEMMA OneMoves ==
  ASSUME Types, Types', NEW c \in Conns, UNCHANGED <<alive, listenVars>>,
         \A d \in Conns : d # c => Alike(d), OwnLeft(c)' < OwnLeft(c)
  PROVE  Advances
<1>1. LeftOfServer' = LeftOfServer /\ LeftOfServer \in Nat
  BY DEF LeftOfServer, listenVars
<1>2. \A d \in Conns : OpeningLeft(d)' = OpeningLeft(d)
  BY PlaceKept DEF listenVars
<1>3. ASSUME NEW d \in Conns, d # c
      PROVE  LeftOf(d)' = LeftOf(d) /\ LeftOf(d) \in Nat
  BY <1>2, <1>3, AlikeLeft, LeftSplit
<1>4. LeftOf(c)' < LeftOf(c) /\ LeftOf(c)' <= LeftOf(c)
  <2>1. /\ OwnLeft(c) \in Nat /\ OwnLeft(c)' \in Nat
        /\ LeftOf(c) = OpeningLeft(c) + OwnLeft(c)
        /\ LeftOf(c)' = OpeningLeft(c) + OwnLeft(c)'
        /\ OpeningLeft(c) \in Nat
    BY <1>2, LeftSplit, LeftTypes
  <2> QED
    BY <2>1
<1>5. ASSUME NEW d \in Conns
      PROVE  LeftOf(d)' <= LeftOf(d)
  BY <1>3, <1>4
<1> QED
  BY <1>1, <1>4, <1>5 DEF Advances

(* A step of the listener with the connection in its hands.                *)
LEMMA OneOpens ==
  ASSUME Types, Types', NEW c \in Conns, LeftOfServer' <= LeftOfServer,
         \A d \in Conns : d # c => Alike(d) /\ OpeningLeft(d)' <= OpeningLeft(d),
         OpeningLeft(c)' + OwnLeft(c)' < OpeningLeft(c) + OwnLeft(c)
  PROVE  Advances
<1>1. ASSUME NEW d \in Conns, d # c
      PROVE  LeftOf(d)' <= LeftOf(d)
  <2>1. /\ LeftOf(d) = OpeningLeft(d) + OwnLeft(d)
        /\ LeftOf(d)' = OpeningLeft(d)' + OwnLeft(d)
        /\ OpeningLeft(d)' <= OpeningLeft(d)
        /\ OwnLeft(d) \in Nat /\ OpeningLeft(d) \in Nat /\ OpeningLeft(d)' \in Nat
    BY <1>1, AlikeLeft, LeftSplit, LeftTypes
  <2> QED
    BY <2>1
<1>2. /\ LeftOf(c)' < LeftOf(c)
      /\ LeftOf(c) \in Nat /\ LeftOf(c)' \in Nat
  BY LeftSplit
<1>3. LeftOf(c)' <= LeftOf(c)
  BY <1>2
<1> QED
  BY <1>1, <1>2, <1>3 DEF Advances

(* What the listener's step does to the places of the opening.             *)
LEMMA Places ==
  ASSUME Types, Types', NEW c \in Conns, opening = <<c>>,
         connectionList' = connectionList,
         opening' = opening \/ opening' = << >>,
         c \in ToSet(connectionList)
  PROVE  /\ \A d \in Conns : d # c => OpeningLeft(d)' <= OpeningLeft(d)
         /\ opening' = << >> => OpeningLeft(c)' = 0
<1>1. ASSUME NEW d \in Conns, d # c
      PROVE  OpeningLeft(d)' = OpeningLeft(d)
  <2>1. opening # <<d>> /\ opening' # <<d>>
    BY <1>1
  <2> QED
    BY <2>1 DEF OpeningLeft
<1>2. opening' = << >> => opening' # <<c>>
  OBVIOUS
<1> QED
  BY <1>1, <1>2, LeftTypes DEF OpeningLeft

LEMMA ServerKept ==
  ASSUME Types, Types', alive' => alive,
         listener' = "spawned" => listener = "spawned"
  PROVE  /\ LeftOfServer' <= LeftOfServer
         /\ (alive /\ ~alive') \/ (listener = "spawned" /\ listener' # "spawned")
              => LeftOfServer' < LeftOfServer
BY DEF LeftOfServer, Types

(* The oldest connection of the backlog is not in connectionList.          *)
LEMMA HeadIsNew ==
  ASSUME Types, ConnectionsKept, opening = << >>, backlog # << >>
  PROVE  Head(backlog) \notin ToSet(connectionList)
<1> DEFINE cl == connectionList
           n == Len(cl)
<1>1. /\ cl \in Seq(Conns) /\ backlog \in Seq(Conns) /\ n \in Nat
      /\ Len(backlog) \in Nat \ {0} /\ DOMAIN cl = 1..n
  BY LenProperties, EmptySeq DEF Types
<1>2. Kept = cl \o backlog
  <2>1. Kept = cl \o << >> \o backlog
    BY DEF Kept
  <2>2. cl \o << >> = cl
    BY <1>1, ConcatEmptySeq
  <2> QED
    BY <2>1, <2>2
<1> HIDE DEF cl, n
<1>3. /\ Kept \in Seq(Conns) /\ Len(Kept) = Len(cl) + Len(backlog)
      /\ \A i \in 1..Len(cl) + Len(backlog) :
           Kept[i] = IF i <= Len(cl) THEN cl[i] ELSE backlog[i - Len(cl)]
  BY <1>1, <1>2, ConcatProperties
<1>4. DOMAIN Kept = 1..n + Len(backlog)
  BY <1>3, LenProperties DEF n
<1>5. n + 1 \in DOMAIN Kept /\ Kept[n + 1] = Head(backlog)
  <2>1. n + 1 \in 1..n + Len(backlog) /\ ~(n + 1 <= n) /\ n + 1 - n = 1
    BY <1>1
  <2>2. Kept[n + 1] = backlog[1] /\ Head(backlog) = backlog[1]
    BY <1>1, <1>3, <2>1, HeadTailProperties DEF n
  <2> QED
    BY <1>4, <2>1, <2>2
<1>6. ASSUME NEW i \in 1..n
      PROVE  cl[i] # Head(backlog)
  <2>1. i \in 1..n + Len(backlog) /\ i <= n /\ i # n + 1
    BY <1>1
  <2>2. Kept[i] = cl[i]
    BY <1>3, <2>1 DEF n
  <2>3. IsInjective(Kept)
    BY KeptDef
  <2> QED
    BY <1>4, <1>5, <2>1, <2>2, <2>3 DEF IsInjective
<1> QED
  BY <1>1, <1>6 DEF ToSet, cl

-----------------------------------------------------------------------------
(* The steps of the listener.                                              *)
LEMMA ListenerAdvances ==
  ASSUME Types, Types', HoldsSocket, ConnectionsKept, Openings, alive,
         \/ ListenerStarts \/ Accepts \/ ListenerOpens \/ SocketConnects
         \/ ShakesHands \/ Authenticates \/ OpensTunnel \/ OpenFails
  PROVE  Advances
<1> USE DEF pullVars, endVars, remoteVars, listenVars, poolVars
<1>1. CASE ListenerStarts
  <2>1. /\ alive' = alive /\ listener = "spawned" /\ listener' # "spawned"
        /\ UNCHANGED <<opening, connectionList>>
        /\ \A c \in Conns : Alike(c)
    BY <1>1 DEF ListenerStarts, Starts, Alike
  <2>2. \A c \in Conns : opening # <<c>> /\ opening' # <<c>>
    BY <2>1 DEF HoldsSocket, Blocked
  <2>3. \A c \in Conns : OpeningLeft(c)' = OpeningLeft(c)
    BY <2>1, <2>2 DEF OpeningLeft
  <2>4. \A c \in Conns : LeftOf(c)' = LeftOf(c) /\ LeftOf(c) \in Nat
    BY <2>1, <2>3, AlikeLeft, LeftSplit
  <2>5. \A c \in Conns : LeftOf(c)' <= LeftOf(c)
    BY <2>4
  <2> QED
    BY <2>1, <2>5, ServerKept DEF Advances
<1>2. CASE Accepts
  <2> PICK c \in Conns : c = Head(backlog) /\ backlog # << >>
    BY <1>2, HeadTailProperties DEF Accepts, Types
  <2>1. /\ listener = "accept" /\ listener' = "ready"
        /\ opening' = <<c>> /\ connectionList' = connectionList
        /\ alive' = alive /\ \A d \in Conns : Alike(d)
    BY <1>2 DEF Accepts, Ready, Alike
  <2>2. opening = << >>
    BY <2>1 DEF HoldsSocket, Blocked
  <2>3. c \notin ToSet(connectionList)
    BY <2>2, HeadIsNew
  <2>4. OpeningLeft(c) = 6 /\ OpeningLeft(c)' = 5
    BY <2>1, <2>2, <2>3 DEF OpeningLeft
  <2>5. ASSUME NEW d \in Conns, d # c
        PROVE  OpeningLeft(d)' = OpeningLeft(d)
    BY <2>1, <2>2, <2>5 DEF OpeningLeft
  <2>6. OpeningLeft(c)' + OwnLeft(c)' < OpeningLeft(c) + OwnLeft(c)
    <3>1. OwnLeft(c)' = OwnLeft(c) /\ OwnLeft(c) \in Nat
      BY <2>1, AlikeLeft, LeftSplit
    <3> QED
      BY <2>4, <3>1
  <2>7. LeftOfServer' <= LeftOfServer
    BY <2>1, ServerKept
  <2>8. \A d \in Conns : d # c => Alike(d) /\ OpeningLeft(d)' <= OpeningLeft(d)
    BY <2>1, <2>5, LeftTypes
  <2> QED
    BY <2>1, <2>6, <2>7, <2>8, OneOpens
<1>3. CASE ListenerOpens
  <2>1. PICK c \in Conns : opening = <<c>>
    BY <1>3 DEF HoldsSocket, ListenerOpens
  <2>2. /\ listener = "ready" /\ listener' = "resolve" /\ opening' = opening
        /\ connectionList' = connectionList \o <<c>>
        /\ alive' = alive /\ \A d \in Conns : Alike(d)
    BY <1>3, <2>1 DEF ListenerOpens, Starts, Listed, Alike
  <2>3. OpeningLeft(c) = 5 /\ OpeningLeft(c)' = 4
    BY <2>1, <2>2 DEF OpeningLeft
  <2>4. ToSet(connectionList) \subseteq ToSet(connectionList')
    <3>1. <<c>> \in Seq(Conns) /\ connectionList \in Seq(Conns)
      BY DEF Types
    <3>2. ToSet(connectionList \o <<c>>) = ToSet(connectionList) \union ToSet(<<c>>)
      BY ONLY <3>1, ToSetConcat
    <3> QED
      BY <2>2, <3>2
  <2>5. ASSUME NEW d \in Conns, d # c
        PROVE  OpeningLeft(d)' <= OpeningLeft(d)
    <3>1. opening # <<d>> /\ opening' # <<d>>
      BY <2>1, <2>2, <2>5
    <3> QED
      BY <2>4, <3>1 DEF OpeningLeft
  <2>6. OpeningLeft(c)' + OwnLeft(c)' < OpeningLeft(c) + OwnLeft(c)
    <3>1. OwnLeft(c)' = OwnLeft(c) /\ OwnLeft(c) \in Nat
      BY <2>2, AlikeLeft, LeftSplit
    <3> QED
      BY <2>3, <3>1
  <2>7. LeftOfServer' <= LeftOfServer
    BY <2>2, ServerKept
  <2> QED
    BY <2>2, <2>5, <2>6, <2>7, OneOpens
<1>4. CASE SocketConnects \/ ShakesHands \/ Authenticates
  <2>1. PICK c \in Conns : opening = <<c>>
    BY <1>4 DEF HoldsSocket, SocketConnects, ShakesHands, Authenticates, Blocked
  <2>2. /\ UNCHANGED <<opening, connectionList>> /\ alive' \in BOOLEAN
        /\ \A d \in Conns : Alike(d)
        /\ listener' # "spawned" /\ c \in ToSet(connectionList)
    BY <1>4, <2>1 DEF SocketConnects, ShakesHands, Authenticates, Alike, Openings,
         OpeningOf, Blocked, Types
  <2>3. CASE alive' = FALSE
    <3>1. listener' = listener
      BY <1>4, <2>3 DEF SocketConnects, ShakesHands, Authenticates
    <3>2. \A d \in Conns : OpeningLeft(d)' = OpeningLeft(d)
      BY <2>2, <3>1, PlaceKept
    <3>3. \A d \in Conns : LeftOf(d)' = LeftOf(d) /\ LeftOf(d) \in Nat
      BY <2>2, <3>2, AlikeLeft, LeftSplit
    <3>4. \A d \in Conns : LeftOf(d)' <= LeftOf(d)
      BY <3>3
    <3> QED
      BY <2>2, <2>3, <3>4, ServerKept DEF Advances
  <2>4. CASE alive'
    <3>1. OpeningLeft(c)' < OpeningLeft(c)
      BY <1>4, <2>1, <2>2, <2>4 DEF SocketConnects, ShakesHands, Authenticates,
           OpeningLeft
    <3>2. OpeningLeft(c)' + OwnLeft(c)' < OpeningLeft(c) + OwnLeft(c)
      <4>1. OwnLeft(c)' = OwnLeft(c) /\ OwnLeft(c) \in Nat
        BY <2>2, AlikeLeft, LeftSplit
      <4> QED
        BY <3>1, <4>1, LeftTypes
    <3>3. \A d \in Conns : d # c => OpeningLeft(d)' <= OpeningLeft(d)
      BY <2>1, <2>2, Places
    <3>4. LeftOfServer' <= LeftOfServer
      BY <2>2, <2>4, ServerKept
    <3> QED
      BY <2>2, <3>2, <3>3, <3>4, OneOpens
  <2> QED
    BY <2>2, <2>3, <2>4
<1>5. CASE OpensTunnel
  <2>1. PICK c \in Conns : opening = <<c>> /\ opening[1] = c
    BY <1>5 DEF HoldsSocket, OpensTunnel, Blocked
  <2>2. /\ listener = "tunnel" /\ listener' = "spawn" /\ alive' = alive
        /\ UNCHANGED <<opening, connectionList, client, request, unread, push>>
        /\ pull[c] = "none" /\ pull'[c] = "read"
        /\ remote[c] \in {"none", "refused"} /\ remote'[c] \in {"open", "ready"}
        /\ \A d \in Conns : d # c => pull'[d] = pull[d] /\ remote'[d] = remote[d]
        /\ c \in ToSet(connectionList)
    BY <1>5, <2>1 DEF OpensTunnel, ChannelOpens, PushToSpawn, Openings, OpeningOf,
         ChannelOf, Blocked, Types
  <2>4. OwnLeft(c)' < OwnLeft(c)
    <3>1. /\ OwnLeft(c) \in Nat /\ OwnLeft(c)' \in Nat
          /\ ClientLeft(client[c]) \in Nat /\ RequestLeft(request[c]) \in Nat
          /\ PushLeft(push[c]) \in Nat /\ unread[c] \in Nat
      BY LeftSplit, LeftTypes DEF Types
    <3>2. /\ PullLeft(pull'[c]) = 1 /\ PullLeft(pull[c]) = 4
          /\ RemoteLeft(remote[c]) = 6 /\ RemoteLeft(remote'[c]) \in {5, 1}
      BY <2>2, Tables
    <3> QED
      BY <2>2, <3>1, <3>2 DEF OwnLeft
  <2>5. OpeningLeft(c) = 1 /\ OpeningLeft(c)' = 0
    BY <2>1, <2>2 DEF OpeningLeft
  <2>6. OpeningLeft(c)' + OwnLeft(c)' < OpeningLeft(c) + OwnLeft(c)
    BY <2>4, <2>5, LeftSplit
  <2>7. \A d \in Conns : d # c => OpeningLeft(d)' <= OpeningLeft(d) /\ Alike(d)
    BY <2>1, <2>2, Places DEF Alike
  <2>8. LeftOfServer' <= LeftOfServer
    BY <2>2, ServerKept
  <2> QED
    BY <2>6, <2>7, <2>8, OneOpens
<1>6. CASE OpenFails
  <2>1. PICK c \in Conns : opening = <<c>> /\ opening[1] = c
    BY <1>6 DEF HoldsSocket, OpenFails, Blocked
  <2>2. /\ listener \in {"handshake", "auth", "tunnel"}
        /\ UNCHANGED <<connectionList, client, request, unread, push, pull>>
        /\ c \in ToSet(connectionList) /\ remote[c] \in {"none", "refused"}
    BY <1>6, <2>1 DEF OpenFails, Skips, Openings, OpeningOf, ChannelOf, Blocked
  <2>3. CASE threadIo
    <3>1. /\ ~alive' /\ UNCHANGED <<listener, opening, remote>>
      BY <1>6, <2>3 DEF OpenFails, Skips, Abandoned
    <3>2. \A d \in Conns : OpeningLeft(d)' = OpeningLeft(d) /\ Alike(d)
      BY <2>2, <3>1, PlaceKept DEF Alike
    <3>3. \A d \in Conns : LeftOf(d)' = LeftOf(d) /\ LeftOf(d) \in Nat
      BY <3>2, AlikeLeft, LeftSplit
    <3>4. \A d \in Conns : LeftOf(d)' <= LeftOf(d)
      BY <3>3
    <3> QED
      BY <2>2, <3>1, <3>4, ServerKept DEF Advances
  <2>4. CASE ~threadIo
    <3>1. /\ listener' = "accept" /\ opening' = << >> /\ alive' = alive
          /\ remote' = [remote EXCEPT ![c] = "refused"]
      BY <1>6, <2>1, <2>4 DEF OpenFails, Skips, Abandoned
    <3>2. OwnLeft(c)' <= OwnLeft(c)
      <4>1. /\ OwnLeft(c) \in Nat /\ OwnLeft(c)' \in Nat
            /\ ClientLeft(client[c]) \in Nat /\ RequestLeft(request[c]) \in Nat
            /\ PushLeft(push[c]) \in Nat /\ PullLeft(pull[c]) \in Nat
            /\ unread[c] \in Nat /\ RemoteLeft(remote[c]) \in Nat
        BY LeftSplit, LeftTypes DEF Types
      <4>2. RemoteLeft(remote'[c]) = RemoteLeft(remote[c])
        <5>1. remote'[c] = "refused"
          BY <3>1 DEF Types
        <5> QED
          BY <2>2, <5>1, Tables
      <4> QED
        BY <2>2, <4>1, <4>2 DEF OwnLeft
    <3>3. OpeningLeft(c) \in {1, 2, 3} /\ OpeningLeft(c)' = 0
      BY <2>1, <2>2, <3>1, Places DEF OpeningLeft
    <3>4. OpeningLeft(c)' + OwnLeft(c)' < OpeningLeft(c) + OwnLeft(c)
      BY <3>2, <3>3, LeftSplit
    <3>5. ASSUME NEW d \in Conns, d # c
          PROVE  OpeningLeft(d)' <= OpeningLeft(d) /\ Alike(d)
      <4>1. remote'[d] = remote[d]
        BY <3>1, <3>5 DEF Types
      <4>2. Alike(d)
        BY <2>2, <4>1 DEF Alike
      <4> QED
        BY <2>1, <2>2, <3>1, <3>5, <4>2, Places
    <3>6. LeftOfServer' <= LeftOfServer
      BY <3>1, ServerKept
    <3> QED
      BY <3>4, <3>5, <3>6, OneOpens
  <2> QED
    BY <2>3, <2>4
<1> QED
  BY <1>1, <1>2, <1>3, <1>4, <1>5, <1>6

-----------------------------------------------------------------------------
(* The steps of a connection: the listener stays where it is, but for the  *)
(* first read of runPull, which it waits for.                              *)
LEMMA PullReadsAdvances ==
  ASSUME Types, Types', Openings, NEW c \in Conns, PullReads(c)
  PROVE  Advances
<1>1. /\ pull[c] = "read" /\ pull'[c] = "write" /\ alive' = alive
      /\ unread[c] \in Nat \ {0} /\ unread'[c] = 0
      /\ UNCHANGED <<connectionList, client, request, remote>>
      /\ \A d \in Conns : d # c => pull'[d] = pull[d] /\ unread'[d] = unread[d]
  BY DEF PullReads, Types, poolVars, endVars
<1>2. /\ OwnLeft(c) \in Nat /\ OwnLeft(c)' \in Nat
      /\ ClientLeft(client[c]) \in Nat /\ RequestLeft(request[c]) \in Nat
      /\ RemoteLeft(remote[c]) \in Nat /\ PushLeft(push[c]) \in Nat
      /\ PushLeft(push'[c]) \in Nat
      /\ PullLeft(pull[c]) = 1 /\ PullLeft(pull'[c]) = 3
  BY <1>1, LeftSplit, LeftTypes, Tables
<1>3. 3 * unread[c] >= 3 /\ 3 * unread'[c] = 0 /\ 3 * unread[c] \in Nat
  BY <1>1
<1>4. ASSUME PushLeft(push'[c]) <= PushLeft(push[c])
      PROVE  OwnLeft(c)' < OwnLeft(c)
  BY <1>1, <1>2, <1>3, <1>4 DEF OwnLeft
<1>5. CASE Inline(c)
  <2>1. /\ opening = <<c>> /\ listener = "spawn"
        /\ listener' = "accept" /\ opening' = << >>
        /\ push' = [push EXCEPT ![c] = "read"]
    BY <1>5 DEF PullReads, Inline
  <2>2. push[c] = "none" /\ c \in ToSet(connectionList)
    BY <1>5, <2>1 DEF Openings, OpeningOf, ChannelOf, Blocked
  <2>3. PushLeft(push'[c]) <= PushLeft(push[c])
    <3>1. push'[c] = "read"
      BY <2>1 DEF Types
    <3> QED
      BY <2>2, <3>1, Tables
  <2>4. ASSUME NEW d \in Conns, d # c
        PROVE  OpeningLeft(d)' <= OpeningLeft(d) /\ Alike(d)
    <3>1. push'[d] = push[d]
      BY <2>1, <2>4 DEF Types
    <3>2. Alike(d)
      BY <1>1, <2>4, <3>1 DEF Alike
    <3> QED
      BY <1>1, <2>1, <2>2, <2>4, <3>2, Places
  <2>5. OpeningLeft(c)' = 0
    BY <1>1, <2>1, <2>2, Places
  <2>6. OpeningLeft(c)' + OwnLeft(c)' < OpeningLeft(c) + OwnLeft(c)
    BY <1>2, <1>4, <2>3, <2>5, LeftTypes
  <2>7. LeftOfServer' <= LeftOfServer
    BY <1>1, <2>1, ServerKept
  <2> QED
    BY <2>4, <2>6, <2>7, OneOpens
<1>6. CASE ~Inline(c)
  <2>1. UNCHANGED <<push, listener, opening, threadIo>>
    BY <1>6 DEF PullReads
  <2>2. OwnLeft(c)' < OwnLeft(c)
    BY <1>2, <1>4, <2>1
  <2>3. \A d \in Conns : d # c => Alike(d)
    BY <1>1, <2>1 DEF Alike
  <2> QED
    BY <1>1, <2>1, <2>2, <2>3, OneMoves DEF listenVars
<1> QED
  BY <1>5, <1>6

LEMMA ConnectionAdvances ==
  ASSUME Types, Types', Messages, NEW c \in Conns,
         \/ PullWritten(c) \/ PullRuns(c)
         \/ PushReads(c) \/ PushRuns(c) \/ PushSends(c)
         \/ Asks(c) \/ Greets(c) \/ Answers(c)
         \/ Connects(c) \/ Leaves(c) \/ Ends(c)
  PROVE  Advances
<1>1. UNCHANGED <<alive, listenVars>>
  BY DEF PullWritten, PullRuns, PushReads, PushRuns, PushSends, Asks, Greets,
         Answers, Connects, Leaves, Ends, Ready, Starts, poolVars
<1>2. ASSUME NEW d \in Conns, d # c
      PROVE  Alike(d)
  <2> USE <1>2 DEF Types, Alike, pullVars, endVars, remoteVars
  <2>1. CASE PullWritten(c) \/ PullRuns(c)
    <3>1. UNCHANGED <<client, remote, request, unread, push>>
      BY <2>1 DEF PullWritten, PullRuns
    <3>2. \E x : pull' = [pull EXCEPT ![c] = x]
      BY <2>1 DEF PullWritten, PullRuns
    <3> QED
      BY <3>1, <3>2
  <2>2. CASE PushReads(c) \/ PushRuns(c) \/ PushSends(c)
    <3>1. UNCHANGED <<client, remote, unread, pull>>
      BY <2>2 DEF PushReads, PushRuns, PushSends
    <3>2. \E x : push' = [push EXCEPT ![c] = x]
      BY <2>2 DEF PushReads, PushRuns, PushSends
    <3>3. push'[d] = push[d]
      BY <3>2
    <3>4. request'[d] = request[d]
      <4>1. CASE PushReads(c)
        BY <4>1 DEF PushReads
      <4>2. CASE PushRuns(c) \/ PushSends(c)
        BY <4>2 DEF PushRuns, PushSends
      <4> QED
        BY <2>2, <4>1, <4>2
    <3> QED
      BY <3>1, <3>3, <3>4
  <2>3. CASE Asks(c) \/ Greets(c)
    BY <2>3 DEF Asks, Greets
  <2>4. CASE Answers(c)
    BY <2>4 DEF Answers
  <2>5. CASE Connects(c) \/ Leaves(c)
    <3>1. UNCHANGED <<remote, request, unread, pull, push>>
      BY <2>5 DEF Connects, Leaves
    <3>2. \E x : client' = [client EXCEPT ![c] = x]
      BY <2>5 DEF Connects, Leaves
    <3> QED
      BY <3>1, <3>2
  <2>6. CASE Ends(c)
    <3>1. UNCHANGED <<client, request, unread, pull, push>>
      BY <2>6 DEF Ends
    <3>2. remote' = [remote EXCEPT ![c] = "ended"]
      BY <2>6 DEF Ends
    <3> QED
      BY <3>1, <3>2
  <2> QED
    BY <2>1, <2>2, <2>3, <2>4, <2>5, <2>6
<1>3. SUFFICES OwnLeft(c)' < OwnLeft(c)
  BY <1>1, <1>2, OneMoves
<1>4. /\ OwnLeft(c) \in Nat /\ OwnLeft(c)' \in Nat /\ unread[c] \in Nat
      /\ ClientLeft(client[c]) \in Nat /\ RequestLeft(request[c]) \in Nat
      /\ RemoteLeft(remote[c]) \in Nat /\ PushLeft(push[c]) \in Nat
      /\ PullLeft(pull[c]) \in Nat
  BY LeftSplit, LeftTypes DEF Types
<1>5. CASE PullWritten(c) \/ PullRuns(c)
  <2>1. UNCHANGED <<client, remote, request, unread, push>>
    BY <1>5 DEF PullWritten, PullRuns, remoteVars, endVars
  <2>2. \/ pull[c] = "write" /\ pull'[c] \in {"ready", "failed"}
        \/ pull[c] = "failed" /\ pull'[c] = "done"
        \/ pull[c] = "ready" /\ pull'[c] = "read"
    BY <1>5, SMTT(20) DEF PullWritten, PullRuns, Types
  <2>3. PullLeft(pull'[c]) < PullLeft(pull[c]) /\ PullLeft(pull'[c]) \in Nat
    BY <2>2, Tables, LeftTypes
  <2> QED
    BY <1>4, <2>1, <2>3 DEF OwnLeft
<1>6. CASE PushReads(c) \/ PushRuns(c) \/ PushSends(c)
  <2>1. UNCHANGED <<client, remote, unread, pull>>
    BY <1>6 DEF PushReads, PushRuns, PushSends, remoteVars, endVars, pullVars
  <2>2. \/ /\ push[c] = "read" /\ push'[c] = "ready"
           /\ request[c] = "asked" /\ request'[c] = "carried"
        \/ push[c] = "read" /\ push'[c] = "failed" /\ request' = request
        \/ push[c] = "ready" /\ push'[c] = "send" /\ request' = request
        \/ push[c] = "failed" /\ push'[c] = "done" /\ request' = request
        \/ /\ push[c] = "send" /\ push'[c] = "read"
           /\ request[c] = "carried" /\ request'[c] \in {"lost", "received"}
    <3>1. push[c] = "send" => request[c] = "carried"
      BY DEF Messages, MessagesOf
    <3> QED
      BY <1>6, <3>1 DEF PushReads, PushRuns, PushSends, Types, endVars
  <2>3. /\ PushLeft(push'[c]) + RequestLeft(request'[c])
              < PushLeft(push[c]) + RequestLeft(request[c])
        /\ PushLeft(push'[c]) \in Nat /\ RequestLeft(request'[c]) \in Nat
    BY <1>4, <2>2, Tables, LeftTypes
  <2> QED
    BY <1>4, <2>1, <2>3 DEF OwnLeft
<1>7. CASE Asks(c)
  <2>1. /\ UNCHANGED <<client, remote, unread, pull, push>>
        /\ request[c] = "none" /\ request'[c] = "asked"
    BY <1>7 DEF Asks, Types, remoteVars, pullVars
  <2> QED
    BY <1>4, <2>1, Tables DEF OwnLeft
<1>8. CASE Greets(c)
  <2>1. /\ UNCHANGED <<client, request, pull, push>>
        /\ remote[c] = "open" /\ remote'[c] = "ready"
        /\ unread'[c] = unread[c] + 1
    BY <1>8 DEF Greets, Types, endVars, pullVars
  <2> QED
    BY <1>4, <2>1, Tables DEF OwnLeft
<1>9. CASE Answers(c)
  <2>1. /\ UNCHANGED <<client, remote, pull, push>>
        /\ request[c] = "received" /\ request'[c] = "answered"
        /\ unread'[c] = unread[c] + 1
    BY <1>9 DEF Answers, Types, pullVars
  <2> QED
    BY <1>4, <2>1, Tables DEF OwnLeft
<1>10. CASE Connects(c) \/ Leaves(c)
  <2>1. /\ UNCHANGED <<request, remote, unread, pull, push>>
        /\ \/ client[c] = "idle" /\ client'[c] = "open"
           \/ client[c] = "open" /\ client'[c] = "gone"
    BY <1>10 DEF Connects, Leaves, Types, pullVars, remoteVars
  <2> QED
    BY <1>4, <2>1, Tables DEF OwnLeft
<1>11. CASE Ends(c)
  <2>1. /\ UNCHANGED <<client, request, unread, pull, push>>
        /\ remote[c] \in {"open", "ready"} /\ remote'[c] = "ended"
    BY <1>11 DEF Ends, Types, pullVars, endVars
  <2> QED
    BY <1>4, <2>1, Tables DEF OwnLeft
<1> QED
  BY <1>5, <1>6, <1>7, <1>8, <1>9, <1>10, <1>11

-----------------------------------------------------------------------------
(* Nothing is done over again: every step of the server, of an application *)
(* or of a remote service uses up some of what is left, of which there is  *)
(* a bounded amount from the start.                                        *)
THEOREM NothingTwice == Spec => Progress
<1> DEFINE Inv == Types /\ HoldsSocket /\ ConnectionsKept /\ Openings /\ Messages
<1>1. Inv /\ Types' /\ [Next]_vars => [Advances]_vars
  BY Steps, ListenerAdvances, PullReadsAdvances, ConnectionAdvances
<1>2. Spec => []Inv
  BY OpeningsAlways, MessagesAlways, PTL
<1>3. Progress <=> [][Advances]_vars
  BY DEF Progress, Advances
<1> QED
  BY <1>1, <1>2, <1>3, PTL DEF Spec

(* What there is at the start, for each connection: so that n connections  *)
(* are at rest after at most 30 n + 2 steps.                               *)
LEMMA LeftAtFirst ==
  Init => LeftOfServer = 2 /\ \A c \in Conns : LeftOf(c) = 30
<1> SUFFICES ASSUME Init
             PROVE  LeftOfServer = 2 /\ \A c \in Conns : LeftOf(c) = 30
  OBVIOUS
<1>1. LeftOfServer = 2
  BY DEF Init, LeftOfServer
<1>2. ASSUME NEW c \in Conns
      PROVE  LeftOf(c) = 30
  <2>1. opening # <<c>> /\ c \notin ToSet(connectionList)
    BY DEF Init, ToSet
  <2>2. OpeningLeft(c) = 6
    BY <2>1 DEF OpeningLeft
  <2>3. /\ client[c] = "idle" /\ remote[c] = "none" /\ request[c] = "none"
        /\ unread[c] = 0 /\ pull[c] = "none" /\ push[c] = "none"
    BY DEF Init
  <2> QED
    BY <2>2, <2>3, Tables DEF LeftOf
<1> QED
  BY <1>1, <1>2

-----------------------------------------------------------------------------
(* Where a connection can be left.                                         *)

(* A coroutine ends only when the application is gone, a request that      *)
(* runPush has read is still in its hands, and only what runPull writes is *)
(* held.                                                                   *)
HaltsOf(c) ==
  /\ pull[c] \in {"failed", "done"} => client[c] = "gone"
  /\ push[c] \in {"failed", "done"} => client[c] = "gone"
  /\ request[c] = "carried" => push[c] \in {"ready", "send"}
  /\ request[c] = "lost" => remote[c] = "ended"
  /\ pull[c] # "write" => holding[c] = 0

Halts == \A c \in Conns : HaltsOf(c)

LEMMA InitHalts == Init => Halts
BY DEF Init, Halts, HaltsOf

LEMMA NextHalts ==
  Types /\ HoldsSocket /\ Openings /\ Messages /\ Halts /\ [Next]_vars => Halts'
<1> SUFFICES ASSUME Types, HoldsSocket, Openings, Messages, Halts, [Next]_vars,
                    NEW c \in Conns
             PROVE  HaltsOf(c)'
  BY DEF Halts
<1> USE DEF HaltsOf, Types, pullVars, endVars, remoteVars
<1>1. HaltsOf(c)
  BY DEF Halts
<1>2. CASE /\ pull'[c] = pull[c] /\ holding'[c] = holding[c]
           /\ push'[c] = push[c] /\ client'[c] = client[c]
           /\ request'[c] = request[c] /\ remote'[c] = remote[c]
  BY <1>1, <1>2
<1>3. CASE \/ ListenerStarts \/ Accepts \/ ListenerOpens \/ SocketConnects
           \/ ShakesHands \/ Authenticates
  BY <1>2, <1>3 DEF ListenerStarts, Accepts, ListenerOpens, SocketConnects,
       ShakesHands, Authenticates
<1>4. CASE OpensTunnel \/ OpenFails
  <2>1. PICK o \in Conns : opening = <<o>> /\ opening[1] = o
    BY <1>4 DEF HoldsSocket, OpensTunnel, OpenFails, Blocked
  <2>2. pull[o] = "none" /\ remote[o] \in {"none", "refused"}
    BY <1>4, <2>1 DEF Openings, OpeningOf, ChannelOf, OpensTunnel, OpenFails, Blocked
  <2>3. /\ UNCHANGED <<holding, client, request, push>>
        /\ \A d \in Conns : d # o => remote'[d] = remote[d] /\ pull'[d] = pull[d]
        /\ pull'[o] \in {"none", "read"}
    BY <1>4, <2>1, <2>2 DEF OpensTunnel, ChannelOpens, PushToSpawn, OpenFails, Skips
  <2> QED
    BY <1>1, <2>2, <2>3
<1>5. ASSUME NEW d \in Conns, d # c,
             \/ PullReads(d) \/ PullWritten(d) \/ PullRuns(d)
             \/ PushReads(d) \/ PushRuns(d) \/ PushSends(d)
             \/ Asks(d) \/ Greets(d) \/ Answers(d)
             \/ Connects(d) \/ Leaves(d) \/ Ends(d)
      PROVE  HaltsOf(c)'
  BY <1>2, <1>5 DEF PullReads, PullWritten, PullRuns, PushReads, PushRuns, PushSends,
       Asks, Greets, Answers, Connects, Leaves, Ends
<1>6. CASE PullReads(c)
  <2>1. /\ pull'[c] = "write" /\ UNCHANGED <<client, request, remote>>
        /\ push' = push \/ (push[c] = "none" /\ push'[c] = "read")
    BY <1>6 DEF PullReads, Inline, Openings, ChannelOf
  <2> QED
    BY <1>1, <2>1
<1>7. CASE PullWritten(c)
  BY <1>1, <1>7 DEF PullWritten
<1>8. CASE PullRuns(c)
  BY <1>1, <1>8 DEF PullRuns
<1>9. CASE PushReads(c)
  BY <1>1, <1>9 DEF PushReads
<1>10. CASE PushRuns(c)
  BY <1>1, <1>10 DEF PushRuns
<1>11. CASE PushSends(c)
  BY <1>1, <1>11 DEF PushSends
<1>12. CASE Asks(c) \/ Greets(c) \/ Answers(c)
  BY <1>1, <1>12 DEF Asks, Greets, Answers
<1>13. CASE Connects(c) \/ Leaves(c) \/ Ends(c)
  BY <1>1, <1>13 DEF Connects, Leaves, Ends
<1>14. CASE UNCHANGED vars
  BY <1>2, <1>14 DEF vars
<1> QED
  BY <1>3, <1>4, <1>5, <1>6, <1>7, <1>8, <1>9, <1>10, <1>11, <1>12, <1>13, <1>14,
     Steps

(* A connection in connectionList has been opened or refused, or is with   *)
(* the listener; it has a runPush, or its runPull is the one the listener  *)
(* waits for, which has written nothing.                                   *)
ReachedOf(c) ==
  /\ pull[c] = "none" => written[c] = 0
  /\ pull[c] # "none" => push[c] # "none" \/ (Inline(c) /\ written[c] = 0)
  /\ listener \in {"spawned", "ended"} => client[c] = "idle"
  /\ c \in ToSet(connectionList) => opening = <<c>> \/ remote[c] # "none"

Reached == \A c \in Conns : ReachedOf(c)

LEMMA InitReached == Init => Reached
BY DEF Init, Reached, ReachedOf, ToSet

LEMMA NextReached ==
  Types /\ HoldsSocket /\ Openings /\ Halts /\ Reached /\ [Next]_vars => Reached'
<1> SUFFICES ASSUME Types, HoldsSocket, Openings, Halts, Reached, [Next]_vars,
                    NEW c \in Conns
             PROVE  ReachedOf(c)'
  BY DEF Reached
<1> USE DEF ReachedOf, Types, Inline, pullVars, endVars, remoteVars, listenVars
<1>1. ReachedOf(c)
  BY DEF Reached
<1>2. CASE /\ UNCHANGED <<listener, opening, connectionList>>
           /\ pull'[c] = pull[c] /\ push'[c] = push[c] /\ written'[c] = written[c]
           /\ client'[c] = client[c] /\ remote'[c] = remote[c]
  BY <1>1, <1>2
<1>3. CASE ListenerStarts \/ Accepts
  <2>1. /\ listener' \in {"accept", "ended", "ready"}
        /\ listener' = "ended" => listener = "spawned"
        /\ listener # "spawn" /\ opening = << >>
        /\ UNCHANGED <<connectionList, pull, push, written, client, remote>>
    BY <1>3 DEF ListenerStarts, Accepts, HoldsSocket, Blocked
  <2> QED
    BY <1>1, <2>1
<1>4. CASE ListenerOpens
  <2>1. PICK o \in Conns : opening = <<o>>
    BY <1>4 DEF HoldsSocket, ListenerOpens
  <2>2. /\ listener = "ready" /\ listener' = "resolve" /\ opening' = opening
        /\ connectionList' = connectionList \o <<o>>
        /\ UNCHANGED <<pull, push, written, client, remote>>
    BY <1>4, <2>1 DEF ListenerOpens, Listed
  <2>3. ToSet(connectionList') = ToSet(connectionList) \union {o}
    <3>1. <<o>> \in Seq(Conns) /\ ToSet(<<o>>) = {o} /\ connectionList \in Seq(Conns)
      BY DEF ToSet
    <3>2. ToSet(connectionList \o <<o>>) = ToSet(connectionList) \union ToSet(<<o>>)
      BY ONLY <3>1, ToSetConcat, ZenonT(20)
    <3> QED
      BY <2>2, <3>1, <3>2
  <2> QED
    BY <1>1, <2>1, <2>2, <2>3
<1>5. CASE SocketConnects \/ ShakesHands \/ Authenticates
  BY <1>1, <1>5 DEF SocketConnects, ShakesHands, Authenticates
<1>6. CASE OpensTunnel
  <2>1. PICK o \in Conns : opening = <<o>> /\ opening[1] = o
    BY <1>6 DEF HoldsSocket, OpensTunnel, Blocked
  <2>2. /\ listener = "tunnel" /\ listener' = "spawn" /\ pull[o] = "none"
        /\ UNCHANGED <<opening, connectionList, push, written, client>>
        /\ pull' = [pull EXCEPT ![o] = "read"]
        /\ \A d \in Conns : d # o => remote'[d] = remote[d]
    BY <1>6, <2>1 DEF OpensTunnel, ChannelOpens, PushToSpawn, Openings, OpeningOf,
         Blocked
  <2> QED
    BY <1>1, <2>1, <2>2
<1>7. CASE OpenFails
  <2>1. PICK o \in Conns : opening = <<o>> /\ opening[1] = o
    BY <1>7 DEF HoldsSocket, OpenFails, Blocked
  <2>2. /\ listener \in {"handshake", "auth", "tunnel"}
        /\ UNCHANGED <<connectionList, pull, push, written, client>>
    BY <1>7 DEF OpenFails, Skips
  <2>3. \/ UNCHANGED <<listener, opening, remote>>
        \/ /\ listener' = "accept" /\ opening' = << >>
           /\ remote' = [remote EXCEPT ![o] = "refused"]
    BY <1>7, <2>1 DEF OpenFails, Skips
  <2> QED
    BY <1>1, <2>1, <2>2, <2>3
<1>8. ASSUME NEW d \in Conns, PullReads(d)
      PROVE  ReachedOf(c)'
  <2>1. /\ UNCHANGED <<connectionList, written, client, remote>>
        /\ pull[d] = "read" /\ pull' = [pull EXCEPT ![d] = "write"]
        /\ remote[d] # "none"
    BY <1>8 DEF PullReads, Openings, ChannelOf
  <2>2. CASE Inline(d)
    <3>1. /\ opening = <<d>> /\ opening' = << >> /\ listener' = "accept"
          /\ push' = [push EXCEPT ![d] = "read"]
      BY <1>8, <2>2 DEF PullReads
    <3> QED
      BY <1>1, <2>1, <3>1
  <2>3. CASE ~Inline(d)
    <3>1. UNCHANGED <<push, listener, opening>>
      BY <1>8, <2>3 DEF PullReads
    <3> QED
      BY <1>1, <2>1, <2>3, <3>1
  <2> QED
    BY <2>2, <2>3
<1>9. ASSUME NEW d \in Conns,
             \/ PullWritten(d) \/ PullRuns(d)
             \/ PushReads(d) \/ PushRuns(d) \/ PushSends(d)
      PROVE  ReachedOf(c)'
  <2>1. UNCHANGED <<listener, opening, connectionList, client, remote>>
    BY <1>9 DEF PullWritten, PullRuns, PushReads, PushRuns, PushSends
  <2>2. CASE d # c
    BY <1>2, <1>9, <2>1, <2>2 DEF PullWritten, PullRuns, PushReads, PushRuns,
         PushSends
  <2>3. CASE d = c
    <3>1. \/ push[c] # "none" /\ push'[c] # "none" /\ UNCHANGED <<pull, written>>
          \/ pull[c] \in {"write", "ready", "failed"} /\ pull'[c] # "none" /\ push' = push
      BY <1>9, <2>3 DEF PullWritten, PullRuns, PushReads, PushRuns, PushSends
    <3>2. Inline(c) => pull[c] = "read"
      BY DEF Openings, OpeningOf, Blocked
    <3> QED
      BY <1>1, <2>1, <3>1, <3>2 DEF Openings, ChannelOf
  <2> QED
    BY <2>2, <2>3
<1>10. ASSUME NEW d \in Conns, Asks(d) \/ Greets(d) \/ Answers(d) \/ Ends(d)
       PROVE  ReachedOf(c)'
  BY <1>1, <1>10 DEF Asks, Greets, Answers, Ends
<1>11. ASSUME NEW d \in Conns, Connects(d) \/ Leaves(d)
       PROVE  ReachedOf(c)'
  BY <1>1, <1>11 DEF Connects, Leaves
<1>12. CASE UNCHANGED vars
  BY <1>2, <1>12 DEF vars
<1> QED
  BY <1>3, <1>4, <1>5, <1>6, <1>7, <1>8, <1>9, <1>10, <1>11, <1>12, Steps

(* What a remote service that speaks first has said, the application has,  *)
(* or it is under way, until a write to an application that is gone fails. *)
HeardOf(c) ==
  c \in GreetsFirst /\ "mute" \notin Faults /\ pull[c] \notin {"failed", "done"}
    => Said(c) <= unread[c] + holding[c] + written[c]

Heard == \A c \in Conns : HeardOf(c)

LEMMA InitHeard == Init => Heard
BY DEF Init, Heard, HeardOf, Said

LEMMA NextHeard ==
  Types /\ HoldsSocket /\ Openings /\ Halts /\ Heard /\ [Next]_vars => Heard'
<1> SUFFICES ASSUME Types, HoldsSocket, Openings, Halts, Heard, [Next]_vars,
                    NEW c \in Conns, c \in GreetsFirst, "mute" \notin Faults,
                    pull'[c] \notin {"failed", "done"}
             PROVE  Said(c)' <= unread'[c] + holding'[c] + written'[c]
  BY DEF Heard, HeardOf
<1>1. /\ unread[c] \in Nat /\ holding[c] \in Nat /\ written[c] \in Nat
      /\ pull[c] # "write" => holding[c] = 0
      /\ pull[c] \notin {"failed", "done"} =>
           Said(c) <= unread[c] + holding[c] + written[c]
  BY DEF Types, Heard, HeardOf, Halts, HaltsOf
<1>2. CASE Untouched(c) /\ pull'[c] = pull[c]
  BY <1>1, <1>2 DEF Untouched, Said
<1>3. CASE \/ ListenerStarts \/ Accepts \/ ListenerOpens \/ SocketConnects
           \/ ShakesHands \/ Authenticates
  BY <1>2, <1>3 DEF ListenerStarts, Accepts, ListenerOpens, SocketConnects,
       ShakesHands, Authenticates, Untouched, pullVars, endVars, remoteVars
<1>4. CASE OpensTunnel \/ OpenFails
  <2>1. PICK o \in Conns : opening = <<o>> /\ opening[1] = o
    BY <1>4 DEF HoldsSocket, OpensTunnel, OpenFails, Blocked
  <2>2. pull[o] = "none" /\ remote[o] \in {"none", "refused"}
    BY <1>4, <2>1 DEF Openings, OpeningOf, ChannelOf, OpensTunnel, OpenFails, Blocked,
         Types
  <2>3. /\ UNCHANGED <<unread, holding, written, request, push>>
        /\ \A d \in Conns : d # o => remote'[d] = remote[d] /\ pull'[d] = pull[d]
        /\ o \in GreetsFirst => remote'[o] \in {remote[o], "open", "refused"}
    BY <1>4, <2>1 DEF OpensTunnel, ChannelOpens, PushToSpawn, OpenFails, Skips,
         pullVars, endVars, remoteVars, Types
  <2>4. CASE c # o
    BY <1>2, <2>3, <2>4 DEF Untouched
  <2>5. CASE c = o
    <3>1. Said(c)' = Said(c)
      BY <2>2, <2>3, <2>5 DEF Said
    <3> QED
      BY <1>1, <2>2, <2>3, <2>5, <3>1
  <2> QED
    BY <2>4, <2>5
<1>5. ASSUME NEW d \in Conns, d # c,
             \/ PullReads(d) \/ PullWritten(d) \/ PullRuns(d)
             \/ PushReads(d) \/ PushRuns(d) \/ PushSends(d)
             \/ Asks(d) \/ Greets(d) \/ Answers(d)
             \/ Connects(d) \/ Leaves(d) \/ Ends(d)
      PROVE  Untouched(c) /\ pull'[c] = pull[c]
  BY <1>5 DEF PullReads, PullWritten, PullRuns, PushReads, PushRuns, PushSends,
       Asks, Greets, Answers, Connects, Leaves, Ends, Types, Untouched, pullVars,
       remoteVars, endVars
<1>6. CASE PullReads(c)
  <2>1. /\ pull[c] = "read" /\ holding'[c] = unread[c] /\ unread'[c] = 0
        /\ UNCHANGED <<written, request, remote>>
    BY <1>6 DEF PullReads, Types, endVars
  <2> QED
    BY <1>1, <2>1 DEF Said
<1>7. CASE PullWritten(c)
  <2>1. /\ pull[c] = "write" /\ holding'[c] = 0 /\ unread'[c] = unread[c]
        /\ written'[c] = written[c] + holding[c]
        /\ UNCHANGED <<request, remote>>
    BY <1>7 DEF PullWritten, Types, remoteVars
  <2> QED
    BY <1>1, <2>1 DEF Said
<1>8. CASE PullRuns(c)
  <2>1. /\ UNCHANGED <<unread, holding, written, request, remote>>
        /\ pull[c] \notin {"failed", "done"}
    BY <1>8 DEF PullRuns, Types, endVars, remoteVars
  <2> QED
    BY <1>1, <2>1 DEF Said
<1>9. CASE PushReads(c) \/ PushRuns(c) \/ PushSends(c) \/ Asks(c)
  <2>1. /\ UNCHANGED <<unread, holding, written, remote, pull>>
        /\ request'[c] = "answered" => request[c] = "answered"
    BY <1>9 DEF PushReads, PushRuns, PushSends, Asks, Types, pullVars, endVars,
         remoteVars
  <2> QED
    BY <1>1, <2>1 DEF Said
<1>10. CASE Greets(c)
  <2>1. /\ UNCHANGED <<holding, written, request, pull>>
        /\ remote[c] = "open" /\ remote'[c] = "ready"
        /\ unread'[c] = unread[c] + 1
    BY <1>10 DEF Greets, Types, pullVars, endVars
  <2> QED
    BY <1>1, <2>1 DEF Said
<1>11. CASE Answers(c)
  <2>1. /\ UNCHANGED <<holding, written, remote, pull>>
        /\ request[c] = "received" /\ request'[c] = "answered"
        /\ unread'[c] = unread[c] + 1
    BY <1>11 DEF Answers, Types, pullVars
  <2> QED
    BY <1>1, <2>1 DEF Said
<1>12. CASE Connects(c) \/ Leaves(c)
  BY <1>2, <1>12 DEF Connects, Leaves, Untouched, pullVars, remoteVars
<1>13. CASE Ends(c)
  <2>1. /\ UNCHANGED <<unread, holding, written, request, pull>>
        /\ remote[c] = "ready" /\ remote'[c] = "ended"
    BY <1>13 DEF Ends, Types, pullVars, endVars
  <2> QED
    BY <1>1, <2>1 DEF Said
<1>14. CASE UNCHANGED vars
  BY <1>2, <1>14 DEF vars, Untouched, pullVars, endVars, remoteVars
<1> QED
  BY <1>2, <1>3, <1>4, <1>5, <1>6, <1>7, <1>8, <1>9, <1>10, <1>11, <1>12, <1>13,
     <1>14, Steps

-----------------------------------------------------------------------------
(* At rest.                                                                *)

(* When nothing can be done, what holds a thread is the runPull of some    *)
(* connection, one for each: a pool of one thread more has one free.       *)
LEMMA OneThreadEach ==
  ASSUME Types, HoldsSocket, Bounded, Quiet
  PROVE  Cardinality(Running) <= Cardinality(Conns)
<1> DEFINE f == [d \in Conns |-> IF Inline(d) THEN Listener ELSE Pull(d)]
           T == {f[d] : d \in Conns}
<1>1. f \in Surjection(Conns, T)
  BY DEF Surjection
<1>2. IsFiniteSet(T) /\ Cardinality(T) <= Cardinality(Conns)
  BY <1>1, FS_Surjection, ServerAssumption
<1>3. Running \subseteq T
  <2>1. ASSUME Listener \in Running
        PROVE  Listener \in T
    <3>1. listener = "spawn"
      BY <2>1, RunningMembers DEF Quiet
    <3>2. PICK d \in Conns : opening = <<d>>
      BY <3>1 DEF HoldsSocket, Blocked
    <3>3. f[d] = Listener
      BY <3>1, <3>2 DEF Inline
    <3> QED
      BY <3>3
  <2>2. ASSUME NEW d \in Conns, Pull(d) \in Running
        PROVE  Pull(d) \in T
    <3>1. f[d] = Pull(d)
      BY <2>2, RunningMembers
    <3> QED
      BY <3>1
  <2>3. ASSUME NEW d \in Conns
        PROVE  Push(d) \notin Running
    BY RunningMembers DEF Quiet, QuietConnection
  <2> QED
    BY <2>1, <2>2, <2>3 DEF Running
<1>4. Cardinality(Running) <= Cardinality(T)
  BY <1>2, <1>3, FS_Subset
<1>5. /\ Cardinality(Running) \in Nat /\ Cardinality(T) \in Nat
      /\ Cardinality(Conns) \in Nat
  BY <1>2, FS_CardinalityType, ServerAssumption DEF Bounded
<1> QED
  BY <1>2, <1>4, <1>5

(* So nothing is ready, and the listener is back at async_accept.          *)
LEMMA NothingReady ==
  ASSUME Types, HoldsSocket, Bounded, QueueSound, Openings, Reached, Halts, Heard,
         Quiet, PoolSuffices
  PROVE  /\ \A d \in Conns : /\ pull[d] \notin {"ready", "failed"}
                             /\ push[d] \notin {"ready", "failed"}
         /\ listener \in {"accept", "ended"}
<1>1. FreeThread
  <2>1. /\ Cardinality(Running) \in Nat /\ Cardinality(Conns) \in Nat
        /\ Cardinality(Running) <= Cardinality(Conns)
        /\ Cardinality(Conns) < Threads /\ Threads \in Nat
    BY OneThreadEach, FS_CardinalityType, ServerAssumption DEF Bounded, PoolSuffices
  <2> QED
    BY <2>1 DEF FreeThread
<1>2. ReadySet = {}
  <2>1. runQueue = << >>
    BY <1>1 DEF Quiet
  <2> QED
    BY <2>1 DEF QueueSound, ToSet
<1>3. /\ \A d \in Conns : /\ pull[d] \notin {"ready", "failed"}
                          /\ push[d] \notin {"ready", "failed"}
      /\ listener \notin {"spawned", "ready"}
  BY <1>2, ReadyMembers
<1>4. listener # "spawn"
  <2> SUFFICES ASSUME listener = "spawn"
               PROVE  FALSE
    OBVIOUS
  <2>1. PICK d \in Conns : opening = <<d>>
    BY DEF HoldsSocket, Blocked
  <2>2. pull[d] = "read" /\ remote[d] \notin {"none", "refused"} /\ push[d] = "none"
    BY <2>1 DEF Openings, OpeningOf, ChannelOf, Inline, Blocked
  <2>3. unread[d] = 0 /\ remote[d] # "open"
    BY <2>2 DEF Quiet, QuietConnection
  <2>4. remote[d] \in {"ready", "ended"}
    BY <2>2, <2>3 DEF Types
  <2>5. Said(d) >= 1 /\ Said(d) \in Nat
    BY <2>4 DEF Said
  <2>6. holding[d] = 0 /\ written[d] = 0
    BY <2>2 DEF Halts, HaltsOf, Reached, ReachedOf
  <2>7. Said(d) <= unread[d] + holding[d] + written[d]
    BY <2>2 DEF Heard, HeardOf, PoolSuffices
  <2> QED
    BY <2>3, <2>5, <2>6, <2>7
<1>5. listener \in {"accept", "ended"}
  BY <1>3, <1>4 DEF Quiet, Types, Blocked
<1> QED
  BY <1>3, <1>5

LEMMA RestIsDone ==
  ASSUME Types, HoldsSocket, Bounded, QueueSound, Openings, ConnectionsKept,
         Messages, Reached, Halts, Heard
  PROVE  NoLockup
<1> SUFFICES ASSUME PoolSuffices, Quiet, NEW c \in Conns, client[c] = "open",
                    remote[c] \notin {"refused", "ended"}
             PROVE  written[c] = 2
  BY DEF NoLockup
<1>1. /\ pull[c] \notin {"ready", "failed"} /\ push[c] \notin {"ready", "failed"}
      /\ listener \in {"accept", "ended"}
  BY NothingReady
<1>2. listener = "accept" /\ backlog = << >> /\ opening = << >>
  BY <1>1 DEF Reached, ReachedOf, Quiet, HoldsSocket, Blocked
<1>3. c \in ToSet(connectionList)
  <2>1. Kept = connectionList
    <3>1. Kept = connectionList \o << >> \o << >>
      BY <1>2 DEF Kept
    <3>2. connectionList \o << >> = connectionList
      BY ConcatEmptySeq DEF Types
    <3> QED
      BY <3>1, <3>2
  <2> QED
    BY <2>1, KeptDef DEF Connected
<1>4. remote[c] = "ready"
  <2>1. remote[c] # "none"
    BY <1>2, <1>3 DEF Reached, ReachedOf
  <2>2. remote[c] # "open"
    BY DEF Quiet, QuietConnection
  <2> QED
    BY <2>1, <2>2 DEF Types
<1>5. pull[c] = "read" /\ push[c] = "read"
  <2>1. pull[c] # "none" /\ pull[c] # "write" /\ pull[c] # "done"
    BY <1>4 DEF Openings, ChannelOf, Quiet, QuietConnection, Halts, HaltsOf
  <2>2. push[c] # "none" /\ push[c] # "send" /\ push[c] # "done"
    BY <1>2, <2>1 DEF Reached, ReachedOf, Inline, Quiet, QuietConnection, Halts,
         HaltsOf
  <2> QED
    BY <1>1, <2>1, <2>2 DEF Types
<1>6. /\ unread[c] = 0 /\ holding[c] = 0 /\ written[c] \in Nat
      /\ written[c] = Said(c)
  <2>1. unread[c] = 0 /\ holding[c] = 0 /\ written[c] \in Nat
    BY <1>5 DEF Quiet, QuietConnection, Halts, HaltsOf, Types
  <2>2. Said(c) <= unread[c] + holding[c] + written[c]
    BY <1>5 DEF Heard, HeardOf, PoolSuffices
  <2>3. unread[c] + holding[c] + written[c] <= Said(c)
    BY DEF Messages, MessagesOf
  <2>4. Said(c) \in Nat
    BY DEF Said
  <2> QED
    BY <2>1, <2>2, <2>3, <2>4
<1>7. request[c] = "answered"
  <2>1. Said(c) >= 1
    BY <1>4 DEF Said
  <2>2. request[c] # "none"
    BY <1>6, <2>1 DEF Quiet, QuietConnection
  <2>3. request[c] \notin {"asked", "received"}
    BY <1>4, <1>5 DEF Quiet, QuietConnection
  <2>4. request[c] \notin {"carried", "lost"}
    BY <1>4, <1>5 DEF Halts, HaltsOf
  <2> QED
    BY <2>2, <2>3, <2>4 DEF Types
<1> QED
  BY <1>4, <1>6, <1>7 DEF Said

(* With a thread more than there are connections, and services that greet  *)
(* first, the server is never at rest with an exchange unfinished that     *)
(* could be finished, for any number of connections and whatever becomes   *)
(* of the others; and the process ends only in an opening, and in none that*)
(* fails in the handshake.                                                 *)
THEOREM StaysUnharmed == Spec => []OthersUnharmed
<1>1. SurvivesHandshake /\ NoLockup => OthersUnharmed
  BY DEF OthersUnharmed
<1>2. Spec => []NoLockup
  BY OpeningsAlways, MessagesAlways, InitQueue, NextQueue, InitBounded, NextBounded,
     InitHalts, NextHalts, InitReached, NextReached, InitHeard, NextHeard, RestIsDone,
     PTL DEF Spec
<1> QED
  BY <1>1, <1>2, Survives, PTL
=============================================================================
