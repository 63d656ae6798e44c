-------------------------- MODULE TunnelServerProofs --------------------------
(***************************************************************************)
(* What is proved of TunnelServer, for any number of connections and       *)
(* threads and whichever faults there are.                                 *)
(***************************************************************************)
EXTENDS TunnelServer, SequenceTheorems, FiniteSetTheorems, TLAPS

(* Queues without repetition, with one element more and one less.          *)
LEMMA AppendNew ==
  ASSUME NEW S, NEW q \in Seq(S), NEW e \in S
  PROVE  /\ Append(q, e) \in Seq(S)
         /\ ToSet(Append(q, e)) = ToSet(q) \union {e}
         /\ IsInjective(q) /\ e \notin ToSet(q) => IsInjective(Append(q, e))
<1> DEFINE a == Append(q, e)
<1>1. Len(q) \in Nat /\ DOMAIN q = 1..Len(q)
  BY LenProperties
<1>2. /\ a \in Seq(S) /\ DOMAIN a = 1..Len(q) + 1
      /\ \A i \in 1..Len(q) : a[i] = q[i]
      /\ a[Len(q) + 1] = e
  BY <1>1, AppendProperties
<1> HIDE DEF a
<1>3. ToSet(a) = ToSet(q) \union {e}
  BY <1>1, <1>2 DEF ToSet
<1>4. ASSUME IsInjective(q), e \notin ToSet(q)
      PROVE  IsInjective(a)
  BY <1>1, <1>2, <1>4 DEF ToSet, IsInjective
<1> QED
  BY <1>2, <1>3, <1>4 DEF a

LEMMA TailOfNew ==
  ASSUME NEW S, NEW q \in Seq(S), q # << >>
  PROVE  /\ Tail(q) \in Seq(S)
         /\ Head(q) \in S
         /\ IsInjective(q) =>
              /\ ToSet(Tail(q)) = ToSet(q) \ {Head(q)}
              /\ IsInjective(Tail(q))
<1>1. Len(q) \in Nat \ {0} /\ DOMAIN q = 1..Len(q)
  BY LenProperties, EmptySeq
<1>2. /\ Tail(q) \in Seq(S) /\ Head(q) \in S /\ Head(q) = q[1]
      /\ DOMAIN Tail(q) = 1..Len(q) - 1
      /\ \A i \in 1..Len(q) - 1 : Tail(q)[i] = q[i + 1]
  BY <1>1, HeadTailProperties, LenProperties
<1>3. ASSUME IsInjective(q)
      PROVE  ToSet(Tail(q)) = ToSet(q) \ {Head(q)}
  <2>1. ASSUME NEW i \in 1..Len(q), q[i] # q[1]
        PROVE  q[i] = Tail(q)[i - 1] /\ i - 1 \in DOMAIN Tail(q)
    BY <1>1, <1>2, <2>1
  <2>2. ASSUME NEW i \in 1..Len(q) - 1
        PROVE  /\ i + 1 \in DOMAIN q /\ Tail(q)[i] = q[i + 1]
               /\ q[i + 1] # q[1]
    BY <1>1, <1>2, <1>3 DEF IsInjective
  <2>3. ToSet(q) = {q[i] : i \in 1..Len(q)}
        /\ ToSet(Tail(q)) = {Tail(q)[i] : i \in 1..Len(q) - 1}
    BY <1>1, <1>2 DEF ToSet
  <2>4. ASSUME NEW x \in ToSet(q), x # Head(q)
        PROVE  x \in ToSet(Tail(q))
    <3>1. PICK i \in 1..Len(q) : x = q[i]
      BY <2>3, <2>4
    <3> QED
      BY <1>2, <2>1, <2>3, <2>4, <3>1
  <2>5. ASSUME NEW x \in ToSet(Tail(q))
        PROVE  x \in ToSet(q) /\ x # Head(q)
    <3>1. PICK i \in 1..Len(q) - 1 : x = Tail(q)[i]
      BY <2>3, <2>5
    <3> QED
      BY <1>1, <1>2, <2>2, <2>3, <3>1
  <2> QED
    BY <2>4, <2>5
<1>4. ASSUME IsInjective(q)
      PROVE  IsInjective(Tail(q))
  <2>1. ASSUME NEW i \in 1..Len(q) - 1, NEW j \in 1..Len(q) - 1,
               Tail(q)[i] = Tail(q)[j]
        PROVE  i = j
    <3>1. i + 1 \in DOMAIN q /\ j + 1 \in DOMAIN q /\ q[i + 1] = q[j + 1]
      BY <1>1, <1>2, <2>1
    <3> QED
      BY <1>1, <1>4, <3>1 DEF IsInjective
  <2> QED
    BY <1>2, <2>1 DEF IsInjective
<1> QED
  BY <1>2, <1>3, <1>4

(* What two queues hold, one after the other.                              *)
LEMMA ToSetConcat ==
  ASSUME NEW S, NEW s \in Seq(S), NEW t \in Seq(S)
  PROVE  ToSet(s \o t) = ToSet(s) \union ToSet(t)
<1> DEFINE u == s \o t
<1>1. /\ Len(s) \in Nat /\ DOMAIN s = 1..Len(s)
      /\ Len(t) \in Nat /\ DOMAIN t = 1..Len(t)
  BY LenProperties
<1>2. /\ DOMAIN u = 1..Len(s) + Len(t)
      /\ \A i \in 1..Len(s) : u[i] = s[i]
      /\ \A i \in 1..Len(t) : u[Len(s) + i] = t[i]
  <2>1. /\ u \in Seq(S) /\ Len(u) = Len(s) + Len(t)
        /\ \A i \in 1..Len(s) + Len(t) :
             u[i] = IF i <= Len(s) THEN s[i] ELSE t[i - Len(s)]
    BY ConcatProperties
  <2> HIDE DEF u
  <2>2. DOMAIN u = 1..Len(s) + Len(t)
    BY <2>1, LenProperties
  <2> QED
    BY <1>1, <2>1, <2>2, SMTT(20)
<1> HIDE DEF u
<1>3. ASSUME NEW x \in ToSet(u)
      PROVE  x \in ToSet(s) \union ToSet(t)
  <2>1. PICK i \in 1..Len(s) + Len(t) : x = u[i]
    BY <1>2 DEF ToSet
  <2>2. CASE i <= Len(s)
    BY <1>1, <1>2, <2>1, <2>2 DEF ToSet
  <2>3. CASE i > Len(s)
    <3>1. i - Len(s) \in 1..Len(t) /\ Len(s) + (i - Len(s)) = i
      BY <1>1, <2>3
    <3> QED
      BY <1>1, <1>2, <2>1, <3>1 DEF ToSet
  <2> QED
    BY <1>1, <2>2, <2>3
<1>4. ASSUME NEW x \in ToSet(s) \union ToSet(t)
      PROVE  x \in ToSet(u)
  <2>1. CASE x \in ToSet(s)
    BY <1>1, <1>2, <2>1 DEF ToSet
  <2>2. CASE x \in ToSet(t)
    <3>1. PICK i \in 1..Len(t) : x = t[i]
      BY <1>1, <2>2 DEF ToSet
    <3>2. Len(s) + i \in 1..Len(s) + Len(t)
      BY <1>1
    <3> QED
      BY <1>2, <3>1, <3>2 DEF ToSet
  <2> QED
    BY <1>4, <2>1, <2>2
<1> QED
  BY <1>3, <1>4 DEF u

-----------------------------------------------------------------------------
(* The steps, one by one.                                                  *)
LEMMA Steps ==
  ASSUME Next
  PROVE  /\ alive
         /\ \/ ListenerStarts \/ Accepts \/ ListenerOpens \/ SocketConnects
            \/ ShakesHands \/ Authenticates \/ OpensTunnel \/ OpenFails
            \/ \E c \in Conns :
                 \/ PullReads(c) \/ PullWritten(c) \/ PullRuns(c)
                 \/ PushReads(c) \/ PushRuns(c) \/ PushSends(c)
                 \/ Asks(c) \/ Greets(c) \/ Answers(c)
                 \/ Connects(c) \/ Leaves(c) \/ Ends(c)
BY DEF Next, Step, Chance, ListenerStep, ConnectionStep

Coroutines == {Listener} \union {Pull(c) : c \in Conns}
                         \union {Push(c) : c \in Conns}

(* The types, but for how many messages there can be.                      *)
Types ==
  /\ alive \in BOOLEAN
  /\ runQueue \in Seq(Coroutines)
  /\ listener \in Blocked \union {"spawned", "accept", "ready", "ended"}
  /\ opening \in Seq(Conns) /\ threadIo \in BOOLEAN
  /\ backlog \in Seq(Conns) /\ connectionList \in Seq(Conns)
  /\ pull \in [Conns -> {"none", "read", "write", "ready", "failed", "done"}]
  /\ push \in [Conns -> {"none", "read", "send", "ready", "failed", "done"}]
  /\ holding \in [Conns -> Nat] /\ unread \in [Conns -> Nat]
  /\ written \in [Conns -> Nat]
  /\ client \in [Conns -> {"idle", "open", "gone"}]
  /\ request \in [Conns -> {"none", "asked", "carried", "received", "answered",
                            "lost"}]
  /\ remote \in [Conns -> {"none", "refused", "open", "ready", "ended"}]

(* The listener has a socket in its hands from async_accept to the end of  *)
(* the opening.                                                            *)
HoldsSocket ==
  IF listener \in Blocked \union {"ready"}
  THEN \E c \in Conns : opening = <<c>>
  ELSE opening = << >>

LEMMA InitTypes == Init => Types /\ HoldsSocket
<1> SUFFICES ASSUME Init
             PROVE  Types /\ HoldsSocket
  OBVIOUS
<1>1. << >> \in Seq(Conns)
  BY EmptySeq
<1>2. <<Listener>> \in Seq(Coroutines)
  <2>1. Listener \in Coroutines
    BY DEF Coroutines
  <2> QED
    BY <2>1
<1> QED
  BY <1>1, <1>2 DEF Init, Types, HoldsSocket, Blocked

(* What a step does to the run queue.                                      *)
LEMMA QueueTypes ==
  ASSUME runQueue \in Seq(Coroutines), NEW r \in Coroutines
  PROVE  (Ready(r) \/ Starts(r)) => runQueue' \in Seq(Coroutines)
<1>1. Ready(r) => runQueue' \in Seq(Coroutines)
  BY AppendNew DEF Ready
<1>2. Starts(r) => runQueue' \in Seq(Coroutines)
  BY TailOfNew DEF Starts
<1> QED
  BY <1>1, <1>2

LEMMA NextTypes ==
  Types /\ HoldsSocket /\ [Next]_vars => Types' /\ HoldsSocket'
<1> SUFFICES ASSUME Types, HoldsSocket, [Next]_vars
             PROVE  Types' /\ HoldsSocket'
  OBVIOUS
<1> USE DEF Types, HoldsSocket, Blocked, pullVars, endVars, remoteVars,
            listenVars, poolVars
<1>1. Listener \in Coroutines
      /\ \A c \in Conns : Pull(c) \in Coroutines /\ Push(c) \in Coroutines
  BY DEF Coroutines
<1>2. \A r \in Coroutines :
        /\ (Ready(r) \/ Starts(r)) => runQueue' \in Seq(Coroutines)
        /\ (Ready(r) \/ Starts(r)) => alive' = alive
  BY QueueTypes DEF Ready, Starts
<1>3. CASE ListenerStarts
  BY <1>1, <1>2, <1>3 DEF ListenerStarts
<1>4. CASE Accepts
  <2>1. Head(backlog) \in Conns /\ Tail(backlog) \in Seq(Conns)
    BY <1>4, HeadTailProperties DEF Accepts
  <2>2. opening' = <<Head(backlog)>> /\ opening' \in Seq(Conns)
    BY <1>4, <2>1 DEF Accepts
  <2> QED
    BY <1>1, <1>2, <1>4, <2>1, <2>2 DEF Accepts
<1>5. CASE ListenerOpens
  <2>1. connectionList' \in Seq(Conns)
    BY <1>5, ConcatProperties DEF ListenerOpens, Listed
  <2> QED
    BY <1>1, <1>2, <1>5, <2>1 DEF ListenerOpens
<1>6. CASE SocketConnects
  BY <1>6 DEF SocketConnects
<1>7. CASE ShakesHands
  BY <1>7 DEF ShakesHands
<1>8. CASE Authenticates
  BY <1>8 DEF Authenticates
<1>9. CASE OpensTunnel
  BY <1>9 DEF OpensTunnel, ChannelOpens, PushToSpawn
<1>10. CASE OpenFails
  <2>1. << >> \in Seq(Conns)
    BY EmptySeq
  <2> QED
    BY <1>10, <2>1 DEF OpenFails, Skips, Abandoned
<1>11. ASSUME NEW c \in Conns, PullReads(c)
       PROVE  Types' /\ HoldsSocket'
  <2>1. << >> \in Seq(Conns)
    BY EmptySeq
  <2> QED
    BY <1>11, <2>1 DEF PullReads
<1>12. ASSUME NEW c \in Conns, PullWritten(c)
       PROVE  Types' /\ HoldsSocket'
  <2>1. written' \in [Conns -> Nat]
    <3>1. written' \in {written, [written EXCEPT ![c] = written[c] + holding[c]]}
      BY <1>12 DEF PullWritten
    <3>2. written[c] + holding[c] \in Nat
      OBVIOUS
    <3> QED
      BY <3>1, <3>2
  <2>2. /\ pull' \in [Conns -> {"none", "read", "write", "ready", "failed", "done"}]
        /\ holding' \in [Conns -> Nat]
    BY <1>12 DEF PullWritten
  <2>3. runQueue' \in Seq(Coroutines) /\ alive' = alive
    BY <1>1, <1>2, <1>12 DEF PullWritten
  <2>4. UNCHANGED <<listenVars, backlog, push, client, request, remoteVars>>
    BY <1>12 DEF PullWritten
  <2> QED
    BY <2>1, <2>2, <2>3, <2>4
<1>13. ASSUME NEW c \in Conns, PullRuns(c)
       PROVE  Types' /\ HoldsSocket'
  BY <1>1, <1>2, <1>13 DEF PullRuns
<1>14. ASSUME NEW c \in Conns, PushReads(c)
       PROVE  Types' /\ HoldsSocket'
  BY <1>1, <1>2, <1>14 DEF PushReads
<1>15. ASSUME NEW c \in Conns, PushRuns(c)
       PROVE  Types' /\ HoldsSocket'
  BY <1>1, <1>2, <1>15 DEF PushRuns
<1>16. ASSUME NEW c \in Conns, PushSends(c)
       PROVE  Types' /\ HoldsSocket'
  BY <1>16 DEF PushSends
<1>17. ASSUME NEW c \in Conns, Asks(c) \/ Greets(c) \/ Answers(c)
       PROVE  Types' /\ HoldsSocket'
  <2>1. CASE Asks(c)
    BY <2>1 DEF Asks
  <2>2. CASE Greets(c)
    <3>1. unread[c] + 1 \in Nat
      OBVIOUS
    <3>2. unread' \in [Conns -> Nat]
      BY <2>2, <3>1 DEF Greets
    <3> QED
      BY <2>2, <3>2 DEF Greets
  <2>3. CASE Answers(c)
    <3>1. unread[c] + 1 \in Nat
      OBVIOUS
    <3>2. unread' \in [Conns -> Nat]
      BY <2>3, <3>1 DEF Answers
    <3> QED
      BY <2>3, <3>2 DEF Answers
  <2> QED
    BY <1>17, <2>1, <2>2, <2>3
<1>18. ASSUME NEW c \in Conns, Connects(c) \/ Leaves(c) \/ Ends(c)
       PROVE  Types' /\ HoldsSocket'
  <2>1. Append(backlog, c) \in Seq(Conns)
    BY AppendNew
  <2> QED
    BY <1>18, <2>1 DEF Connects, Leaves, Ends
<1>19. CASE UNCHANGED vars
  BY <1>19 DEF vars
<1> QED
  BY <1>3, <1>4, <1>5, <1>6, <1>7, <1>8, <1>9, <1>10, <1>11, <1>12, <1>13,
     <1>14, <1>15, <1>16, <1>17, <1>18, <1>19, Steps

-----------------------------------------------------------------------------
(* The connections on their way to connectionList.                         *)
Kept ==
  connectionList \o (IF listener = "ready" THEN opening ELSE << >>) \o backlog

Connected == {c \in Conns : client[c] # "idle"}

LEMMA KeptDef ==
  /\ ConnectionsKept <=> IsInjective(Kept) /\ ToSet(Kept) = Connected
  /\ ConnectionsKept' <=> IsInjective(Kept') /\ ToSet(Kept') = Connected'
BY DEF ConnectionsKept, Kept, Connected

LEMMA InitKept == Init => ConnectionsKept
<1> SUFFICES ASSUME Init
             PROVE  ConnectionsKept
  OBVIOUS
<1>1. Kept = << >>
  BY DEF Init, Kept
<1>2. Connected = {} /\ ToSet(<< >>) = {} /\ IsInjective(<< >>)
  BY DEF Init, Connected, ToSet, IsInjective
<1> QED
  BY <1>1, <1>2, KeptDef

LEMMA NextKept ==
  Types /\ HoldsSocket /\ ConnectionsKept /\ [Next]_vars => ConnectionsKept'
<1> SUFFICES ASSUME Types, HoldsSocket, ConnectionsKept, [Next]_vars
             PROVE  ConnectionsKept'
  OBVIOUS
<1>1. /\ backlog \in Seq(Conns) /\ connectionList \in Seq(Conns)
      /\ opening \in Seq(Conns)
  BY DEF Types
<1>2. CASE Kept' = Kept /\ Connected' = Connected
  BY <1>2, KeptDef
<1>3. CASE /\ UNCHANGED <<connectionList, backlog>>
           /\ listener # "ready" /\ listener' # "ready"
           /\ Connected' = Connected
  BY <1>2, <1>3 DEF Kept
<1>4. CASE UNCHANGED <<connectionList, backlog, listener, opening>>
           /\ Connected' = Connected
  BY <1>2, <1>4 DEF Kept
<1>5. CASE ListenerStarts \/ SocketConnects \/ ShakesHands \/ Authenticates
           \/ OpensTunnel \/ OpenFails
  BY <1>3, <1>4, <1>5 DEF ListenerStarts, SocketConnects, ShakesHands, Authenticates,
       OpensTunnel, OpenFails, Skips, Connected, endVars
<1>6. CASE Accepts
  <2>1. backlog # << >> /\ Head(backlog) \in Conns /\ Tail(backlog) \in Seq(Conns)
    BY <1>1, <1>6, HeadTailProperties DEF Accepts
  <2>2. /\ listener = "accept" /\ listener' = "ready"
        /\ opening' = <<Head(backlog)>> /\ backlog' = Tail(backlog)
        /\ connectionList' = connectionList /\ Connected' = Connected
    BY <1>6 DEF Accepts, Connected, endVars
  <2>3. Kept = connectionList \o << >> \o backlog
        /\ Kept' = connectionList \o <<Head(backlog)>> \o Tail(backlog)
    BY <2>2 DEF Kept
  <2>4. connectionList \o << >> \o backlog
          = connectionList \o <<Head(backlog)>> \o Tail(backlog)
    <3>1. connectionList \o << >> = connectionList
      BY <1>1, ConcatEmptySeq
    <3>2. <<Head(backlog)>> \o Tail(backlog) = backlog
      BY <1>1, <2>1
    <3>3. <<Head(backlog)>> \in Seq(Conns)
      BY <2>1
    <3>4. connectionList \o <<Head(backlog)>> \o Tail(backlog)
            = connectionList \o (<<Head(backlog)>> \o Tail(backlog))
      BY <1>1, <2>1, <3>3, ConcatAssociative
    <3> QED
      BY <3>1, <3>2, <3>4
  <2> QED
    BY <1>2, <2>2, <2>3, <2>4
<1>7. CASE ListenerOpens
  <2>1. /\ listener = "ready" /\ listener' = "resolve"
        /\ connectionList' = connectionList \o opening
        /\ backlog' = backlog /\ Connected' = Connected
    BY <1>7 DEF ListenerOpens, Listed, Connected, endVars
  <2>2. connectionList \o opening \o << >> = connectionList \o opening
    BY <1>1, ConcatProperties, ConcatEmptySeq
  <2>3. Kept' = Kept
    BY <2>1, <2>2 DEF Kept
  <2> QED
    BY <1>2, <2>1, <2>3
<1>8. ASSUME NEW c \in Conns,
             \/ PullReads(c) \/ PullWritten(c) \/ PullRuns(c)
             \/ PushReads(c) \/ PushRuns(c) \/ PushSends(c)
             \/ Asks(c) \/ Greets(c) \/ Answers(c) \/ Ends(c)
      PROVE  ConnectionsKept'
  BY <1>3, <1>4, <1>8 DEF PullReads, Inline, PullWritten, PullRuns, PushReads,
       PushRuns, PushSends, Asks, Greets, Answers, Ends, Connected, listenVars,
       endVars
<1>9. ASSUME NEW c \in Conns, Leaves(c)
      PROVE  ConnectionsKept'
  BY <1>4, <1>9 DEF Leaves, Connected, listenVars, Types
<1>10. ASSUME NEW c \in Conns, Connects(c)
       PROVE  ConnectionsKept'
  <2> DEFINE mid == IF listener = "ready" THEN opening ELSE << >>
             s == connectionList \o mid
  <2>1. s \in Seq(Conns)
    BY <1>1, EmptySeq, ConcatProperties
  <2>2. Kept = s \o backlog
    BY DEF Kept
  <2>3. Kept' = s \o Append(backlog, c)
    BY <1>10 DEF Kept, Connects, listenVars
  <2>4. c \notin Connected /\ Connected' = Connected \union {c}
    BY <1>10 DEF Connects, Connected, Types
  <2> HIDE DEF s
  <2>5. s \o Append(backlog, c) = Append(s \o backlog, c)
    BY <1>1, <2>1
  <2>6. s \o backlog \in Seq(Conns)
    BY <1>1, <2>1, ConcatProperties
  <2>7. Kept \in Seq(Conns) /\ Kept' = Append(Kept, c)
    BY <2>2, <2>3, <2>5, <2>6
  <2>8. IsInjective(Kept) /\ ToSet(Kept) = Connected
    BY KeptDef
  <2>9. /\ ToSet(Append(Kept, c)) = ToSet(Kept) \union {c}
        /\ IsInjective(Append(Kept, c))
    BY <2>4, <2>7, <2>8, AppendNew
  <2> QED
    BY <2>4, <2>7, <2>8, <2>9, KeptDef
<1>11. CASE UNCHANGED vars
  BY <1>4, <1>11 DEF vars, listenVars, endVars, Connected
<1> QED
  BY <1>5, <1>6, <1>7, <1>8, <1>9, <1>10, <1>11, Steps

LEMMA KeptAlways == Spec => [](Types /\ HoldsSocket /\ ConnectionsKept)
BY InitTypes, NextTypes, InitKept, NextKept, PTL DEF Spec

-----------------------------------------------------------------------------
(* The listener implements AcceptQueue: async_accept takes, an application *)
(* that connects arrives, and every other step is a stutter.               *)
LEMMA InitQueueSpec == Init => Queue!Init
<1> SUFFICES ASSUME Init
             PROVE  Queue!Init
  OBVIOUS
<1>1. Taken = << >> /\ backlog = << >> /\ \A c \in Conns : client[c] = "idle"
  BY DEF Init, Taken
<1> QED
  BY <1>1 DEF Queue!Init

LEMMA NextQueueStep ==
  Types /\ HoldsSocket /\ ConnectionsKept /\ [Next]_vars
    => [Queue!Next]_(Queue!vars)
<1> SUFFICES ASSUME Types, HoldsSocket, ConnectionsKept, [Next]_vars
             PROVE  [Queue!Next]_(Queue!vars)
  OBVIOUS
<1>1. /\ backlog \in Seq(Conns) /\ connectionList \in Seq(Conns)
      /\ opening \in Seq(Conns)
  BY DEF Types
<1>2. CASE Taken' = Taken /\ backlog' = backlog /\ Connected' = Connected
  BY <1>2 DEF Queue!vars, Connected
<1>3. CASE /\ UNCHANGED <<connectionList, backlog>> /\ Connected' = Connected
           /\ \/ UNCHANGED <<listener, opening>>
              \/ listener # "ready" /\ listener' # "ready"
  BY <1>2, <1>3 DEF Taken
<1>4. CASE ListenerStarts \/ SocketConnects \/ ShakesHands \/ Authenticates
           \/ OpensTunnel \/ OpenFails
  BY <1>3, <1>4 DEF ListenerStarts, SocketConnects, ShakesHands, Authenticates,
       OpensTunnel, OpenFails, Skips, Connected, endVars
<1>5. CASE Accepts
  <2>1. backlog # << >> /\ Head(backlog) \in Conns
    BY <1>1, <1>5, HeadTailProperties DEF Accepts
  <2>2. /\ listener = "accept" /\ listener' = "ready"
        /\ opening' = <<Head(backlog)>> /\ backlog' = Tail(backlog)
        /\ connectionList' = connectionList /\ Connected' = Connected
    BY <1>5 DEF Accepts, Connected, endVars
  <2>3. Taken = connectionList
    BY <1>1, <2>2, ConcatEmptySeq DEF Taken
  <2>4. Taken' = connectionList \o <<Head(backlog)>>
    BY <2>2 DEF Taken
  <2>5. connectionList \o <<Head(backlog)>> = Append(connectionList, Head(backlog))
    BY <1>1, <2>1
  <2>6. Queue!Take
    BY <2>1, <2>2, <2>3, <2>4, <2>5 DEF Queue!Take, Connected
  <2> QED
    BY <2>6 DEF Queue!Next
<1>6. CASE ListenerOpens
  <2>1. /\ listener = "ready" /\ listener' = "resolve"
        /\ connectionList' = connectionList \o opening
        /\ backlog' = backlog /\ Connected' = Connected
    BY <1>6 DEF ListenerOpens, Listed, Connected, endVars
  <2>2. connectionList \o opening \o << >> = connectionList \o opening
    BY <1>1, ConcatProperties, ConcatEmptySeq
  <2>3. Taken' = Taken
    BY <2>1, <2>2 DEF Taken
  <2> QED
    BY <1>2, <2>1, <2>3
<1>7. ASSUME NEW c \in Conns,
             \/ PullReads(c) \/ PullWritten(c) \/ PullRuns(c)
             \/ PushReads(c) \/ PushRuns(c) \/ PushSends(c)
             \/ Asks(c) \/ Greets(c) \/ Answers(c) \/ Leaves(c) \/ Ends(c)
      PROVE  [Queue!Next]_(Queue!vars)
  <2>1. CASE Leaves(c)
    <3>1. Connected' = Connected
      BY <2>1 DEF Leaves, Connected, Types
    <3> QED
      BY <1>3, <2>1, <3>1 DEF Leaves, listenVars
  <2>2. CASE ~Leaves(c)
    BY <1>3, <1>7, <2>2 DEF PullReads, Inline, PullWritten, PullRuns, PushReads,
         PushRuns, PushSends, Asks, Greets, Answers, Ends, listenVars, Connected,
         endVars
  <2> QED
    BY <2>1, <2>2
<1>8. ASSUME NEW c \in Conns, Connects(c)
      PROVE  [Queue!Next]_(Queue!vars)
  <2>1. Taken' = Taken /\ backlog' = Append(backlog, c) /\ c \notin Connected
    BY <1>8 DEF Taken, Connects, listenVars, Connected
  <2>2. Connected' = Connected \union {c}
    BY <1>8 DEF Connects, Connected, Types
  <2>3. Queue!Arrive(c)
    BY <2>1, <2>2 DEF Queue!Arrive, Connected
  <2> QED
    BY <2>3 DEF Queue!Next
<1>9. CASE UNCHANGED vars
  BY <1>3, <1>9 DEF vars, listenVars, endVars, Connected
<1> QED
  BY <1>4, <1>5, <1>6, <1>7, <1>8, <1>9, Steps

(* However the openings end, no application is lost, taken twice or        *)
(* overtaken on its way from the kernel to connectionList: the listener is *)
(* an AcceptQueue, and every application that has come is in one place.    *)
THEOREM KeepsConnections == Spec => TakenInTurn /\ []ConnectionsKept
BY KeptAlways, InitQueueSpec, NextQueueStep, PTL
   DEF Spec, TakenInTurn, Queue!Spec

-----------------------------------------------------------------------------
(* Where the coroutines of a connection are while its tunnel is opened.    *)

(* The connection that joins connectionList was not in it.                 *)
LEMMA OpeningIsNew ==
  ASSUME Types, ConnectionsKept, NEW c \in Conns, listener = "ready",
         opening = <<c>>
  PROVE  c \notin ToSet(connectionList)
<1> DEFINE cl == connectionList
           n == Len(cl)
<1>1. /\ cl \in Seq(Conns) /\ backlog \in Seq(Conns) /\ n \in Nat
      /\ Len(backlog) \in Nat /\ DOMAIN cl = 1..n
  BY LenProperties DEF Types
<1>2. Kept = Append(cl, c) \o backlog
  BY <1>1 DEF Kept
<1>3. /\ Append(cl, c) \in Seq(Conns) /\ Len(Append(cl, c)) = n + 1
      /\ \A i \in 1..n : Append(cl, c)[i] = cl[i]
      /\ Append(cl, c)[n + 1] = c
  BY <1>1, AppendProperties
<1>4. /\ Kept \in Seq(Conns) /\ Len(Kept) = n + 1 + Len(backlog)
      /\ \A i \in 1..n + 1 : Kept[i] = Append(cl, c)[i]
  BY <1>1, <1>2, <1>3, ConcatProperties
<1>5. DOMAIN Kept = 1..n + 1 + Len(backlog)
  BY <1>4, LenProperties
<1>6. IsInjective(Kept)
  BY KeptDef
<1> HIDE DEF cl, n
<1>7. ASSUME NEW i \in 1..n
      PROVE  cl[i] # c
  <2>1. /\ Kept[i] = cl[i] /\ Kept[n + 1] = c /\ i # n + 1
        /\ i \in DOMAIN Kept /\ n + 1 \in DOMAIN Kept
    BY <1>1, <1>3, <1>4, <1>5
  <2> QED
    BY <1>6, <2>1 DEF IsInjective
<1> QED
  BY <1>1, <1>7 DEF ToSet, cl

(* While connect and tunnel run, the connection is listed and has no       *)
(* coroutine; while spawn runs, it has a runPull, which reads.             *)
OpeningOf(c) ==
  opening = <<c>> =>
    /\ listener \in Blocked => c \in ToSet(connectionList)
    /\ listener \in Blocked \ {"spawn"} => pull[c] = "none"
    /\ listener = "spawn" => pull[c] = "read"

(* A connection has a runPull if and only if its tunnel has been opened,   *)
(* and a runPush only after the spawn of its runPull has returned.         *)
ChannelOf(c) ==
  /\ pull[c] # "none" => c \in ToSet(connectionList)
  /\ pull[c] # "none" <=> remote[c] \notin {"none", "refused"}
  /\ push[c] # "none" => pull[c] # "none" /\ ~Inline(c)

Openings ==
  /\ \A c \in Conns : OpeningOf(c) /\ ChannelOf(c)
  /\ threadIo <=> listener \in {"auth", "tunnel"}

LEMMA InitOpenings == Init => Openings
BY DEF Init, Openings, OpeningOf, ChannelOf

LEMMA NextOpenings ==
  Types /\ HoldsSocket /\ ConnectionsKept /\ Openings /\ [Next]_vars => Openings'
<1> SUFFICES ASSUME Types, HoldsSocket, ConnectionsKept, Openings, [Next]_vars
             PROVE  Openings'
  OBVIOUS
<1> USE DEF Openings, OpeningOf, ChannelOf, Inline, Types, Blocked, pullVars,
            endVars, remoteVars, listenVars
<1>1. CASE ListenerStarts
  BY <1>1 DEF ListenerStarts
<1>2. CASE Accepts
  BY <1>2 DEF Accepts
<1>3. CASE ListenerOpens
  <2>1. PICK o \in Conns : opening = <<o>>
    BY <1>3 DEF HoldsSocket, ListenerOpens
  <2>2. o \notin ToSet(connectionList) /\ pull[o] = "none"
    BY <1>3, <2>1, OpeningIsNew DEF ListenerOpens
  <2>3. ToSet(connectionList') = ToSet(connectionList) \union {o}
    <3>1. connectionList' = connectionList \o <<o>>
      BY <1>3, <2>1 DEF ListenerOpens, Listed
    <3>2. <<o>> \in Seq(Conns) /\ ToSet(<<o>>) = {o}
      BY DEF ToSet
    <3>3. ToSet(connectionList \o <<o>>) = ToSet(connectionList) \union ToSet(<<o>>)
      <4>1. connectionList \in Seq(Conns)
        OBVIOUS
      <4> QED
        BY ONLY <3>2, <4>1, ToSetConcat, ZenonT(20)
    <3> QED
      BY <3>1, <3>2, <3>3
  <2>4. \A c \in Conns : opening' = <<c>> => c = o
    BY <1>3, <2>1 DEF ListenerOpens
  <2> QED
    BY <1>3, <2>1, <2>2, <2>3, <2>4 DEF ListenerOpens
<1>4. CASE SocketConnects
  BY <1>4 DEF SocketConnects
<1>5. CASE ShakesHands
  BY <1>5 DEF ShakesHands
<1>6. CASE Authenticates
  BY <1>6 DEF Authenticates
<1>7. CASE OpensTunnel
  <2>1. PICK o \in Conns : opening = <<o>>
    BY <1>7 DEF HoldsSocket, OpensTunnel
  <2>2. /\ opening[1] = o
        /\ \A c \in Conns : opening = <<c>> => c = o
    BY <2>1
  <2>3. /\ listener = "tunnel" /\ listener' = "spawn" /\ threadIo' = FALSE
        /\ pull' = [pull EXCEPT ![o] = "read"] /\ push' = push
        /\ remote'[o] \in {"open", "ready"}
        /\ \A c \in Conns : c # o => remote'[c] = remote[c]
        /\ connectionList' = connectionList /\ opening' = opening
    BY <1>7, <2>2 DEF OpensTunnel, ChannelOpens, PushToSpawn
  <2> QED
    BY <2>1, <2>2, <2>3
<1>8. CASE OpenFails
  <2>1. PICK o \in Conns : opening = <<o>>
    BY <1>8 DEF HoldsSocket, OpenFails
  <2>2. pull[o] = "none" /\ opening[1] = o
    BY <1>8, <2>1 DEF OpenFails
  <2>3. CASE threadIo
    BY <1>8, <2>3 DEF OpenFails, Skips, Abandoned
  <2>4. CASE ~threadIo
    <3>1. /\ listener' = "accept" /\ opening' = << >> /\ threadIo' = threadIo
          /\ remote' = [remote EXCEPT ![o] = "refused"]
          /\ UNCHANGED <<connectionList, pull, push>>
          /\ listener = "handshake"
      BY <1>8, <2>2, <2>4 DEF OpenFails, Skips, Abandoned
    <3>2. \A c \in Conns : opening' # <<c>>
      BY <3>1
    <3> QED
      BY <2>2, <2>4, <3>1, <3>2
  <2> QED
    BY <2>3, <2>4
<1>9. ASSUME NEW d \in Conns, PullReads(d)
      PROVE  Openings'
  <2>1. /\ pull[d] = "read" /\ pull' = [pull EXCEPT ![d] = "write"]
        /\ UNCHANGED <<connectionList, threadIo, remote>>
    BY <1>9 DEF PullReads
  <2>2. CASE Inline(d)
    <3>1. /\ push' = [push EXCEPT ![d] = "read"]
          /\ listener' = "accept" /\ opening' = << >>
          /\ listener = "spawn"
      BY <1>9, <2>2 DEF PullReads
    <3>2. \A c \in Conns : opening' # <<c>>
      BY <3>1
    <3> QED
      BY <2>1, <3>1, <3>2
  <2>3. CASE ~Inline(d)
    <3>1. UNCHANGED <<push, listener, opening>>
      BY <1>9, <2>3 DEF PullReads
    <3>2. listener \in Blocked => opening # <<d>>
      BY <2>1, <2>3
    <3> QED
      BY <2>1, <3>1, <3>2
  <2> QED
    BY <2>2, <2>3
<1>10. ASSUME NEW d \in Conns, PullWritten(d)
       PROVE  Openings'
  BY <1>10 DEF PullWritten
<1>11. ASSUME NEW d \in Conns, PullRuns(d)
       PROVE  Openings'
  BY <1>11 DEF PullRuns
<1>12. ASSUME NEW d \in Conns, PushReads(d)
       PROVE  Openings'
  BY <1>12 DEF PushReads
<1>13. ASSUME NEW d \in Conns, PushRuns(d)
       PROVE  Openings'
  BY <1>13 DEF PushRuns
<1>14. ASSUME NEW d \in Conns, PushSends(d)
       PROVE  Openings'
  BY <1>14 DEF PushSends
<1>15. ASSUME NEW d \in Conns, Asks(d) \/ Greets(d) \/ Answers(d)
       PROVE  Openings'
  <2>1. /\ UNCHANGED <<listenVars, push>> /\ pull' = pull
        /\ \/ remote' = remote
           \/ remote[d] = "open" /\ remote' = [remote EXCEPT ![d] = "ready"]
    BY <1>15 DEF Asks, Greets, Answers
  <2> QED
    BY <2>1
<1>16. ASSUME NEW d \in Conns, Connects(d) \/ Leaves(d) \/ Ends(d)
       PROVE  Openings'
  BY <1>16 DEF Connects, Leaves, Ends
<1>17. CASE UNCHANGED vars
  BY <1>17 DEF vars
<1> QED
  BY <1>1, <1>2, <1>3, <1>4, <1>5, <1>6, <1>7, <1>8, <1>9, <1>10, <1>11, <1>12,
     <1>13, <1>14, <1>15, <1>16, <1>17, Steps

LEMMA OpeningsAlways ==
  Spec => [](Types /\ HoldsSocket /\ ConnectionsKept /\ Openings)
BY InitTypes, NextTypes, InitKept, NextKept, InitOpenings, NextOpenings, PTL
   DEF Spec

(* A connection is told to nobody before its coroutines run: a runPush that*)
(* has not started has read nothing, a runPull that has not has written    *)
(* nothing, and a connection that was refused stays listed.                *)
UnservedOf(c) ==
  /\ remote[c] = "refused" => c \in ToSet(connectionList)
  /\ push[c] = "none" => request[c] \in {"none", "asked"}
  /\ pull[c] = "none" => written[c] = 0

Unserved == \A c \in Conns : UnservedOf(c)

LEMMA InitUnserved == Init => Unserved
BY DEF Init, Unserved, UnservedOf

LEMMA NextUnserved ==
  Types /\ HoldsSocket /\ Openings /\ Unserved /\ [Next]_vars => Unserved'
<1> SUFFICES ASSUME Types, HoldsSocket, Openings, Unserved, [Next]_vars,
                    NEW c \in Conns
             PROVE  UnservedOf(c)'
  BY DEF Unserved
<1>0. UnservedOf(c)
  BY DEF Unserved
<1> USE <1>0 DEF UnservedOf, Types, pullVars, endVars, remoteVars, listenVars
<1>1. CASE \/ ListenerStarts \/ Accepts \/ SocketConnects \/ ShakesHands
           \/ Authenticates
  BY <1>1 DEF ListenerStarts, Accepts, SocketConnects, ShakesHands, Authenticates
<1>2. CASE ListenerOpens
  <2>1. opening \in Seq(Conns) /\ connectionList \in Seq(Conns)
    OBVIOUS
  <2>2. ToSet(connectionList \o opening) = ToSet(connectionList) \union ToSet(opening)
    BY ONLY <2>1, ToSetConcat, ZenonT(20)
  <2>3. ToSet(connectionList) \subseteq ToSet(connectionList')
    BY <1>2, <2>2 DEF ListenerOpens, Listed
  <2>4. /\ remote' = remote /\ push' = push /\ pull' = pull
        /\ request' = request /\ written' = written
    BY <1>2 DEF ListenerOpens
  <2> QED
    BY <2>3, <2>4
<1>3. CASE OpensTunnel
  <2>1. PICK o \in Conns : opening = <<o>>
    BY <1>3 DEF HoldsSocket, OpensTunnel
  <2>2. /\ opening[1] = o
        /\ push' = push /\ pull' = [pull EXCEPT ![o] = "read"]
        /\ UNCHANGED <<connectionList, request, written>>
        /\ remote'[o] # "refused"
        /\ \A d \in Conns \ {o} : remote'[d] = remote[d]
    BY <1>3, <2>1 DEF OpensTunnel, ChannelOpens, PushToSpawn
  <2> QED
    BY <2>2
<1>4. CASE OpenFails
  <2>1. PICK o \in Conns : opening = <<o>>
    BY <1>4 DEF HoldsSocket, OpenFails
  <2>2. o \in ToSet(connectionList)
    BY <1>4, <2>1 DEF OpenFails, Openings, OpeningOf, Blocked
  <2>3. /\ \/ remote' = remote
           \/ remote' = [remote EXCEPT ![o] = "refused"]
        /\ UNCHANGED <<connectionList, push, pull, request, written>>
    BY <1>4, <2>1 DEF OpenFails, Skips
  <2> QED
    BY <2>2, <2>3
<1>5. ASSUME NEW d \in Conns, PullReads(d)
      PROVE  UnservedOf(c)'
  BY <1>5 DEF PullReads
<1>6. ASSUME NEW d \in Conns, PullWritten(d) \/ PullRuns(d)
      PROVE  UnservedOf(c)'
  BY <1>6 DEF PullWritten, PullRuns
<1>7. ASSUME NEW d \in Conns, PushReads(d) \/ PushRuns(d) \/ PushSends(d)
      PROVE  UnservedOf(c)'
  BY <1>7 DEF PushReads, PushRuns, PushSends
<1>8. ASSUME NEW d \in Conns, Asks(d) \/ Greets(d) \/ Answers(d)
      PROVE  UnservedOf(c)'
  BY <1>8 DEF Asks, Greets, Answers
<1>9. ASSUME NEW d \in Conns, Connects(d) \/ Leaves(d) \/ Ends(d)
      PROVE  UnservedOf(c)'
  BY <1>9 DEF Connects, Leaves, Ends
<1>10. CASE UNCHANGED vars
  BY <1>10 DEF vars
<1> QED
  BY <1>1, <1>2, <1>3, <1>4, <1>5, <1>6, <1>7, <1>8, <1>9, <1>10, Steps

(* No coroutine of a connection runs before its sshClient has an open      *)
(* tunnel, whatever happened to the openings before; and an application    *)
(* whose opening failed stays listed and unserved.                         *)
THEOREM UsesOpenTunnels == Spec => []TunnelBeforeUse
<1>1. Openings => OpenWhenUsed
  BY DEF Openings, ChannelOf, OpenWhenUsed
<1>2. Openings /\ Unserved => LeftAlone
  BY DEF Openings, ChannelOf, Unserved, UnservedOf, LeftAlone
<1>3. Spec => []Unserved
  BY OpeningsAlways, InitUnserved, NextUnserved, PTL DEF Spec
<1>4. OpenWhenUsed /\ LeftAlone => TunnelBeforeUse
  BY DEF TunnelBeforeUse
<1> QED
  BY <1>1, <1>2, <1>3, <1>4, OpeningsAlways, PTL

LEMMA InitSurvives == Init => SurvivesHandshake
BY DEF Init, SurvivesHandshake

LEMMA NextSurvives ==
  Types /\ HoldsSocket /\ Openings /\ SurvivesHandshake /\ [Next]_vars
    => SurvivesHandshake'
<1> SUFFICES ASSUME Types, HoldsSocket, Openings, SurvivesHandshake, Next
             PROVE  SurvivesHandshake'
  BY DEF SurvivesHandshake, vars, poolVars, listenVars, remoteVars
<1>0. alive
  BY Steps
<1> USE DEF SurvivesHandshake, Types
<1>1. CASE SocketConnects
  BY <1>0, <1>1 DEF SocketConnects, remoteVars
<1>2. CASE OpenFails
  <2>1. CASE threadIo
    <3>1. /\ listener' = listener /\ remote' = remote
          /\ listener \in {"auth", "tunnel"} \intersect Faults
      BY <1>2, <2>1 DEF OpenFails, Skips, Abandoned, Openings
    <3> QED
      BY <3>1
  <2>2. CASE ~threadIo
    <3>1. listener = "handshake" /\ "handshake" \in Faults /\ alive' = alive
      BY <1>2, <2>2 DEF OpenFails, Skips, Abandoned, Openings
    <3> QED
      BY <3>1
  <2> QED
    BY <2>1, <2>2
<1>3. CASE /\ UNCHANGED alive
           /\ \A c \in Conns : remote'[c] = "refused" => remote[c] = "refused"
  BY <1>0, <1>3
<1>4. ASSUME NEW c \in Conns,
             \/ PullReads(c) \/ PullWritten(c) \/ PullRuns(c)
             \/ PushReads(c) \/ PushRuns(c) \/ PushSends(c)
             \/ Asks(c) \/ Connects(c) \/ Leaves(c) \/ Answers(c)
      PROVE  UNCHANGED alive /\ UNCHANGED remote
  BY <1>4 DEF PullReads, PullWritten, PullRuns, PushReads, PushRuns, PushSends,
       Asks, Answers, Connects, Leaves, Starts, Ready, poolVars, remoteVars
<1>5. ASSUME NEW c \in Conns, Greets(c) \/ Ends(c)
      PROVE  /\ UNCHANGED alive
             /\ \A d \in Conns : remote'[d] = "refused" => remote[d] = "refused"
  BY <1>5 DEF Greets, Ends, poolVars
<1>6. CASE ListenerStarts \/ Accepts \/ ListenerOpens \/ ShakesHands
           \/ Authenticates
  <2>1. UNCHANGED alive /\ UNCHANGED remote
    BY <1>6 DEF ListenerStarts, Accepts, ListenerOpens, ShakesHands, Authenticates,
         Starts, Ready, poolVars, remoteVars
  <2> QED
    BY <1>3, <2>1
<1>7. CASE OpensTunnel
  <2>1. PICK o \in Conns : opening = <<o>>
    BY <1>7 DEF HoldsSocket, OpensTunnel
  <2>2. /\ UNCHANGED alive /\ remote'[o] # "refused"
        /\ \A d \in Conns \ {o} : remote'[d] = remote[d]
    BY <1>7, <2>1 DEF OpensTunnel, ChannelOpens, poolVars
  <2> QED
    BY <1>3, <2>2
<1> QED
  BY <1>1, <1>2, <1>3, <1>4, <1>5, <1>6, <1>7, Steps

(* The process ends only in an opening, when its address does not resolve  *)
(* or it fails after threadIo has started; of the openings that fail, none *)
(* but one that fails in the handshake is survived.                        *)
LEMMA Survives == Spec => []SurvivesHandshake
BY OpeningsAlways, InitSurvives, NextSurvives, PTL DEF Spec

-----------------------------------------------------------------------------
(* The messages of a connection: what the remote service has said is read, *)
(* held or written, or was lost with the application.                      *)
Said(c) ==
  (IF remote[c] \in {"ready", "ended"} THEN 1 ELSE 0)
    + (IF request[c] = "answered" THEN 1 ELSE 0)

MessagesOf(c) ==
  /\ unread[c] + holding[c] + written[c] <= Said(c)
  /\ push[c] \in {"ready", "send"} => request[c] = "carried"

Messages == \A c \in Conns : MessagesOf(c)

LEMMA InitMessages == Init => Messages
<1> SUFFICES ASSUME Init, NEW c \in Conns
             PROVE  MessagesOf(c)
  BY DEF Messages
<1>1. unread[c] = 0 /\ holding[c] = 0 /\ written[c] = 0 /\ Said(c) = 0
      /\ push[c] = "none"
  BY DEF Init, Said
<1> QED
  BY <1>1 DEF MessagesOf

(* A connection whose messages a step leaves alone.                        *)
Untouched(c) ==
  /\ unread'[c] = unread[c] /\ holding'[c] = holding[c]
  /\ written'[c] = written[c] /\ remote'[c] = remote[c]
  /\ request'[c] = request[c] /\ push'[c] = push[c]

LEMMA NextMessages ==
  Types /\ HoldsSocket /\ Openings /\ Messages /\ [Next]_vars => Messages'
<1> SUFFICES ASSUME Types, HoldsSocket, Openings, Messages, [Next]_vars,
                    NEW c \in Conns
             PROVE  MessagesOf(c)'
  BY DEF Messages
<1> DEFINE sum == unread[c] + holding[c] + written[c]
<1>1. /\ unread[c] \in Nat /\ holding[c] \in Nat /\ written[c] \in Nat
      /\ sum <= Said(c)
      /\ push[c] \in {"ready", "send"} => request[c] = "carried"
  BY DEF Types, Messages, MessagesOf
<1>2. CASE Untouched(c)
  BY <1>1, <1>2 DEF Untouched, MessagesOf, Said
<1>3. CASE \/ ListenerStarts \/ Accepts \/ ListenerOpens \/ SocketConnects
           \/ ShakesHands \/ Authenticates
  BY <1>2, <1>3 DEF ListenerStarts, Accepts, ListenerOpens, SocketConnects,
       ShakesHands, Authenticates, Untouched, pullVars, endVars, remoteVars
<1>4. CASE OpensTunnel \/ OpenFails
  <2>1. PICK o \in Conns : opening = <<o>> /\ opening[1] = o
    BY <1>4 DEF HoldsSocket, OpensTunnel, OpenFails, Blocked
  <2>2. pull[o] = "none" /\ remote[o] \in {"none", "refused"}
    BY <1>4, <2>1 DEF Openings, OpeningOf, ChannelOf, OpensTunnel, OpenFails, Blocked,
         Types
  <2>3. /\ UNCHANGED <<unread, holding, written, request, push>>
        /\ \A d \in Conns : d # o => remote'[d] = remote[d]
    BY <1>4, <2>1 DEF OpensTunnel, ChannelOpens, PushToSpawn, OpenFails, Skips,
         pullVars, endVars, remoteVars, Types
  <2>4. CASE c # o
    BY <1>2, <2>3, <2>4 DEF Untouched
  <2>5. CASE c = o
    <3>1. sum <= (IF request[c] = "answered" THEN 1 ELSE 0)
      BY <1>1, <2>2, <2>5 DEF Said
    <3>2. (IF request[c] = "answered" THEN 1 ELSE 0) <= Said(c)'
      BY <2>3 DEF Said
    <3>3. Said(c)' \in Nat
      BY DEF Said
    <3> QED
      BY <1>1, <2>3, <3>1, <3>2, <3>3 DEF MessagesOf
  <2> QED
    BY <2>4, <2>5
<1>5. ASSUME NEW d \in Conns, d # c,
             \/ PullReads(d) \/ PullWritten(d) \/ PullRuns(d)
             \/ PushReads(d) \/ PushRuns(d) \/ PushSends(d)
             \/ Asks(d) \/ Greets(d) \/ Answers(d)
      PROVE  MessagesOf(c)'
  <2>1. Untouched(c)
    BY <1>5 DEF PullReads, PullWritten, PullRuns, PushReads, PushRuns, PushSends,
         Asks, Greets, Answers, Types, Untouched, pullVars, remoteVars, endVars
  <2> QED
    BY <1>2, <2>1
<1>6. CASE PullReads(c)
  <2>1. /\ holding'[c] = unread[c] /\ unread'[c] = 0
        /\ UNCHANGED <<written, request, remote>>
        /\ push'[c] \in {push[c], "read"}
    BY <1>6 DEF PullReads, Types, endVars
  <2> QED
    BY <1>1, <2>1 DEF MessagesOf, Said
<1>7. CASE PullWritten(c)
  <2>1. /\ holding'[c] = 0 /\ unread'[c] = unread[c]
        /\ written'[c] \in {written[c], written[c] + holding[c]}
        /\ UNCHANGED <<request, remote, push>>
    BY <1>7 DEF PullWritten, Types, remoteVars
  <2> QED
    BY <1>1, <2>1 DEF MessagesOf, Said
<1>8. CASE PullRuns(c)
  BY <1>2, <1>8 DEF PullRuns, Untouched, endVars, remoteVars
<1>9. CASE PushReads(c)
  <2>1. /\ UNCHANGED <<unread, holding, written, remote>>
        /\ \/ /\ request[c] = "asked" /\ request'[c] = "carried"
           \/ /\ push'[c] = "failed" /\ request' = request
    BY <1>9 DEF PushReads, Types, pullVars, remoteVars
  <2> QED
    BY <1>1, <2>1 DEF MessagesOf, Said
<1>10. CASE PushRuns(c)
  <2>1. /\ UNCHANGED <<unread, holding, written, remote, request>>
        /\ \/ push[c] = "ready"
           \/ push'[c] = "done"
    BY <1>10 DEF PushRuns, Types, pullVars, endVars, remoteVars
  <2> QED
    BY <1>1, <2>1 DEF MessagesOf, Said
<1>11. CASE PushSends(c)
  <2>1. /\ UNCHANGED <<unread, holding, written, remote>>
        /\ push'[c] = "read" /\ request[c] = "carried"
        /\ request'[c] \in {"lost", "received"}
    BY <1>1, <1>11 DEF PushSends, Types, pullVars, remoteVars
  <2> QED
    BY <1>1, <2>1 DEF MessagesOf, Said
<1>12. CASE Asks(c)
  <2>1. /\ UNCHANGED <<unread, holding, written, remote, push>>
        /\ request[c] = "none" /\ request'[c] = "asked"
    BY <1>12 DEF Asks, Types, pullVars, remoteVars
  <2> QED
    BY <1>1, <2>1 DEF MessagesOf, Said
<1>13. CASE Greets(c)
  <2>1. /\ UNCHANGED <<holding, written, request, push>>
        /\ remote[c] = "open" /\ remote'[c] = "ready"
        /\ unread'[c] = unread[c] + 1
    BY <1>13 DEF Greets, Types, pullVars, endVars
  <2> QED
    BY <1>1, <2>1 DEF MessagesOf, Said
<1>14. CASE Answers(c)
  <2>1. /\ UNCHANGED <<holding, written, remote, push>>
        /\ request[c] = "received" /\ request'[c] = "answered"
        /\ unread'[c] = unread[c] + 1
    BY <1>14 DEF Answers, Types, pullVars
  <2> QED
    BY <1>1, <2>1 DEF MessagesOf, Said
<1>15. ASSUME NEW d \in Conns, Connects(d) \/ Leaves(d)
       PROVE  MessagesOf(c)'
  <2>1. Untouched(c)
    BY <1>15 DEF Connects, Leaves, Untouched, pullVars, remoteVars
  <2> QED
    BY <1>2, <2>1
<1>16. ASSUME NEW d \in Conns, Ends(d)
       PROVE  MessagesOf(c)'
  <2>1. /\ UNCHANGED <<unread, holding, written, request, push>>
        /\ remote'[c] \in {remote[c], "ended"}
    BY <1>16 DEF Ends, Types, pullVars, endVars
  <2> QED
    BY <1>1, <2>1 DEF MessagesOf, Said
<1>17. CASE UNCHANGED vars
  BY <1>2, <1>17 DEF vars, Untouched, pullVars, endVars, remoteVars
<1> QED
  BY <1>3, <1>4, <1>5, <1>6, <1>7, <1>8, <1>9, <1>10, <1>11, <1>12, <1>13, <1>14,
     <1>15, <1>16, <1>17, Steps

LEMMA MessagesAlways ==
  Spec => [](Types /\ HoldsSocket /\ Openings /\ Messages)
BY OpeningsAlways, InitMessages, NextMessages, PTL DEF Spec

(* The queues, the listener and the connections stay of their types: at    *)
(* most two messages of a connection are ever on their way.                *)
THEOREM Typed == Spec => []TypeOK
<1>1. ASSUME Types, HoldsSocket, Messages
      PROVE  TypeOK
  <2>1. opening \in Seq(Conns) /\ Len(opening) <= 1
    <3>1. CASE opening = << >>
      BY <1>1, <3>1 DEF Types
    <3>2. CASE \E c \in Conns : opening = <<c>>
      BY <1>1, <3>2 DEF Types
    <3> QED
      BY <1>1, <3>1, <3>2 DEF HoldsSocket
  <2>2. ASSUME NEW c \in Conns
        PROVE  unread[c] \in 0..2 /\ holding[c] \in 0..2 /\ written[c] \in 0..2
    <3>1. /\ unread[c] \in Nat /\ holding[c] \in Nat /\ written[c] \in Nat
          /\ unread[c] + holding[c] + written[c] <= Said(c)
          /\ Said(c) <= 2 /\ Said(c) \in Nat
      BY <1>1 DEF Types, Messages, MessagesOf, Said
    <3>2. \A i, j, k, n \in Nat :
            i + j + k <= n /\ n <= 2 => i \in 0..2 /\ j \in 0..2 /\ k \in 0..2
      OBVIOUS
    <3> QED
      BY <3>1, <3>2
  <2>3. /\ unread \in [Conns -> 0..2] /\ holding \in [Conns -> 0..2]
        /\ written \in [Conns -> 0..2]
    BY <1>1, <2>2 DEF Types
  <2> QED
    BY <1>1, <2>1, <2>3 DEF Types, TypeOK, Coroutines
<1> QED
  BY <1>1, MessagesAlways, PTL

-----------------------------------------------------------------------------
(* Who speaks first.                                                       *)
LEMMA InitFirstWord == Init => PushAfterFirstWord
BY DEF Init, PushAfterFirstWord

LEMMA NextFirstWord ==
  Types /\ HoldsSocket /\ Openings /\ PushAfterFirstWord /\ [Next]_vars
    => PushAfterFirstWord'
<1> SUFFICES ASSUME Types, HoldsSocket, Openings, PushAfterFirstWord, [Next]_vars,
                    NEW c \in Conns, push'[c] # "none"
             PROVE  \/ holding'[c] + written'[c] > 0
                    \/ pull'[c] \in {"failed", "done"}
  BY DEF PushAfterFirstWord
<1>1. /\ holding[c] \in Nat /\ written[c] \in Nat /\ unread[c] \in Nat
      /\ push[c] # "none" => \/ holding[c] + written[c] > 0
                             \/ pull[c] \in {"failed", "done"}
  BY DEF Types, PushAfterFirstWord
<1>2. CASE /\ holding'[c] = holding[c] /\ written'[c] = written[c]
           /\ pull[c] \in {"failed", "done"} => pull'[c] \in {"failed", "done"}
           /\ push'[c] # "none" => push[c] # "none"
  BY <1>1, <1>2
<1>3. CASE \/ ListenerStarts \/ Accepts \/ ListenerOpens \/ SocketConnects
           \/ ShakesHands \/ Authenticates \/ OpenFails
  BY <1>2, <1>3 DEF ListenerStarts, Accepts, ListenerOpens, SocketConnects,
       ShakesHands, Authenticates, OpenFails, Skips, pullVars, endVars
<1>4. CASE OpensTunnel
  <2>1. PICK o \in Conns : opening = <<o>> /\ opening[1] = o
    BY <1>4 DEF HoldsSocket, OpensTunnel, Blocked
  <2>2. pull[o] = "none"
    BY <1>4, <2>1 DEF Openings, OpeningOf, OpensTunnel, Blocked
  <2>3. /\ UNCHANGED <<holding, written, push>>
        /\ pull' = [pull EXCEPT ![o] = "read"]
    BY <1>4, <2>1 DEF OpensTunnel, PushToSpawn, endVars
  <2> QED
    BY <1>2, <2>2, <2>3 DEF Types
<1>5. ASSUME NEW d \in Conns, PullReads(d)
      PROVE  \/ holding'[c] + written'[c] > 0
             \/ pull'[c] \in {"failed", "done"}
  <2>1. CASE d = c
    <3>1. holding'[c] = unread[c] /\ unread[c] > 0 /\ written'[c] = written[c]
      BY <1>5, <2>1 DEF PullReads, Types, endVars
    <3> QED
      BY <1>1, <3>1
  <2>2. CASE d # c
    <3>1. /\ holding'[c] = holding[c] /\ written'[c] = written[c]
          /\ pull'[c] = pull[c] /\ push'[c] = push[c]
      BY <1>5, <2>2 DEF PullReads, Types, endVars
    <3> QED
      BY <1>2, <3>1
  <2> QED
    BY <2>1, <2>2
<1>6. ASSUME NEW d \in Conns, PullWritten(d)
      PROVE  \/ holding'[c] + written'[c] > 0
             \/ pull'[c] \in {"failed", "done"}
  <2>1. push' = push
    BY <1>6 DEF PullWritten
  <2>2. CASE d = c
    <3>1. pull[c] = "write"
      BY <1>6, <2>2 DEF PullWritten
    <3>2. \/ holding'[c] = 0 /\ written'[c] = written[c] + holding[c]
          \/ pull'[c] = "failed"
      BY <1>6, <2>2 DEF PullWritten, Types
    <3> QED
      BY <1>1, <2>1, <3>1, <3>2
  <2>3. CASE d # c
    <3>1. /\ holding'[c] = holding[c] /\ written'[c] = written[c]
          /\ pull'[c] = pull[c]
      BY <1>6, <2>3 DEF PullWritten, Types
    <3> QED
      BY <1>2, <2>1, <3>1
  <2> QED
    BY <2>2, <2>3
<1>7. ASSUME NEW d \in Conns,
             \/ PullRuns(d) \/ PushReads(d) \/ PushRuns(d) \/ PushSends(d)
             \/ Asks(d) \/ Greets(d) \/ Answers(d)
             \/ Connects(d) \/ Leaves(d) \/ Ends(d)
      PROVE  \/ holding'[c] + written'[c] > 0
             \/ pull'[c] \in {"failed", "done"}
  <2>1. UNCHANGED <<holding, written>>
    BY <1>7 DEF PullRuns, PushReads, PushRuns, PushSends, Asks, Greets, Answers,
         Connects, Leaves, Ends, pullVars, endVars
  <2>2. pull[c] \in {"failed", "done"} => pull'[c] \in {"failed", "done"}
    BY <1>7 DEF PullRuns, PushReads, PushRuns, PushSends, Asks, Greets, Answers,
         Connects, Leaves, Ends, pullVars, Types
  <2>3. push'[c] # "none" => push[c] # "none"
    BY <1>7 DEF PullRuns, PushReads, PushRuns, PushSends, Asks, Greets, Answers,
         Connects, Leaves, Ends, Types
  <2> QED
    BY <1>2, <2>1, <2>2, <2>3
<1>8. CASE UNCHANGED vars
  BY <1>2, <1>8 DEF vars, pullVars, endVars
<1> QED
  BY <1>3, <1>4, <1>5, <1>6, <1>7, <1>8, Steps

(* runPush never starts before the remote service has said something, on   *)
(* any connection.                                                         *)
LEMMA RunsPushLate == Spec => []PushAfterFirstWord
BY OpeningsAlways, InitFirstWord, NextFirstWord, PTL DEF Spec

-----------------------------------------------------------------------------
(* A service that waits to be asked: its connection is silent, has no      *)
(* runPush, and its runPull is the one the listener runs inline.           *)
SilentOf(c) ==
  /\ request[c] \in {"none", "asked"}
  /\ unread[c] = 0 /\ holding[c] = 0 /\ written[c] = 0
  /\ remote[c] # "open"
  /\ pull[c] \in {"none", "read"}
  /\ pull[c] # "none" => Inline(c)

Silent == \A c \in Conns \ GreetsFirst : SilentOf(c)

LEMMA InitSilent == Init => Silent
BY DEF Init, Silent, SilentOf

LEMMA NextSilent ==
  Types /\ HoldsSocket /\ Openings /\ Silent /\ [Next]_vars => Silent'
<1> SUFFICES ASSUME Types, HoldsSocket, Openings, Silent, [Next]_vars,
                    NEW c \in Conns \ GreetsFirst
             PROVE  SilentOf(c)'
  BY DEF Silent
<1> USE DEF SilentOf, Inline, Types, pullVars, endVars, remoteVars, listenVars
<1>1. SilentOf(c) /\ push[c] = "none"
  BY DEF Silent, Openings, ChannelOf
<1>2. CASE \/ ListenerStarts \/ Accepts \/ ListenerOpens \/ SocketConnects
           \/ ShakesHands \/ Authenticates
  BY <1>1, <1>2 DEF ListenerStarts, Accepts, ListenerOpens, SocketConnects,
       ShakesHands, Authenticates
<1>3. CASE OpensTunnel
  <2>1. PICK o \in Conns : opening = <<o>> /\ opening[1] = o
    BY <1>3 DEF HoldsSocket, OpensTunnel, Blocked
  <2>2. /\ UNCHANGED <<request, unread, holding, written, opening>>
        /\ listener = "tunnel" /\ listener' = "spawn"
        /\ pull' = [pull EXCEPT ![o] = "read"]
        /\ remote' = [remote EXCEPT ![o] = IF o \in GreetsFirst THEN "open"
                                           ELSE "ready"]
    BY <1>3, <2>1 DEF OpensTunnel, ChannelOpens
  <2> QED
    BY <1>1, <2>1, <2>2
<1>4. CASE OpenFails
  <2>1. listener \in {"handshake", "auth", "tunnel"} /\ pull[c] = "none"
    BY <1>1, <1>4 DEF OpenFails
  <2>2. UNCHANGED <<request, unread, holding, written, pull>>
    BY <1>4 DEF OpenFails, Skips
  <2>3. remote'[c] \in {remote[c], "refused"}
    BY <1>4 DEF OpenFails, Skips
  <2> QED
    BY <1>1, <2>1, <2>2, <2>3
<1>5. ASSUME NEW d \in Conns, PullReads(d)
      PROVE  SilentOf(c)'
  <2>1. d # c
    BY <1>1, <1>5 DEF PullReads
  <2>2. /\ request' = request /\ written' = written /\ remote' = remote
        /\ unread'[c] = unread[c] /\ holding'[c] = holding[c]
        /\ pull'[c] = pull[c]
    BY <1>5, <2>1 DEF PullReads
  <2>3. \/ UNCHANGED <<listener, opening>>
        \/ opening = <<d>>
    BY <1>5 DEF PullReads
  <2> QED
    BY <1>1, <2>1, <2>2, <2>3
<1>6. ASSUME NEW d \in Conns,
             PullWritten(d) \/ PullRuns(d) \/ PushReads(d) \/ PushRuns(d)
               \/ PushSends(d)
      PROVE  SilentOf(c)'
  <2>1. d # c
    BY <1>1, <1>6 DEF PullWritten, PullRuns, PushReads, PushRuns, PushSends
  <2> QED
    BY <1>1, <1>6, <2>1 DEF PullWritten, PullRuns, PushReads, PushRuns, PushSends
<1>7. ASSUME NEW d \in Conns, Asks(d) \/ Greets(d) \/ Answers(d)
      PROVE  SilentOf(c)'
  <2>1. CASE d = c
    BY <1>1, <1>7, <2>1 DEF Asks, Greets, Answers
  <2>2. CASE d # c
    BY <1>1, <1>7, <2>2 DEF Asks, Greets, Answers
  <2> QED
    BY <2>1, <2>2
<1>8. ASSUME NEW d \in Conns, Connects(d) \/ Leaves(d) \/ Ends(d)
      PROVE  SilentOf(c)'
  BY <1>1, <1>8 DEF Connects, Leaves, Ends
<1>9. CASE UNCHANGED vars
  BY <1>1, <1>9 DEF vars
<1> QED
  BY <1>2, <1>3, <1>4, <1>5, <1>6, <1>7, <1>8, <1>9, Steps

(* A service that waits to be asked never is: nothing the application      *)
(* sends reaches it, and the listener stays with its connection.           *)
LEMMA Starves == Spec => []ClientFirstStarves
<1>1. Silent => ClientFirstStarves
  BY DEF Silent, SilentOf, ClientFirstStarves
<1> QED
  BY <1>1, OpeningsAlways, InitSilent, NextSilent, PTL DEF Spec

(* Both, on every connection.                                              *)
THEOREM FirstWordFirst == Spec => []WaitsForFirstWord
<1>1. PushAfterFirstWord /\ ClientFirstStarves => WaitsForFirstWord
  BY DEF WaitsForFirstWord
<1> QED
  BY <1>1, RunsPushLate, Starves, PTL

-----------------------------------------------------------------------------
(* An exhausted pool stays as it is.                                       *)
LEMMA NextExhausted == Exhausted /\ Types /\ [Next]_vars => Exhausted'
<1> SUFFICES ASSUME Exhausted, Types, [Next]_vars
             PROVE  Exhausted'
  OBVIOUS
<1>1. \A r : ~Starts(r)
  BY ServerAssumption DEF Starts, FreeThread, Exhausted
<1>2. \A c \in Conns : push[c] # "send"
  <2> SUFFICES ASSUME NEW c \in Conns, push[c] = "send"
               PROVE  FALSE
    OBVIOUS
  <2>1. Push(c) \in Running
    BY DEF Running
  <2> QED
    BY <2>1 DEF Exhausted, Push, Pull, Listener
<1>3. CASE /\ Running' = Running
           /\ \A c \in Conns : pull'[c] = "read" =>
                pull[c] = "read" /\ remote'[c] = remote[c] /\ unread'[c] = unread[c]
           /\ listener' \in Blocked => listener' = listener
  BY <1>3 DEF Exhausted
<1>4. CASE Accepts
  <2>1. /\ listener = "accept" /\ listener' = "ready"
        /\ UNCHANGED <<pull, push, remote, unread>>
    BY <1>4 DEF Accepts, pullVars, remoteVars
  <2>2. \A c \in Conns : ~Inline(c) /\ ~Inline(c)'
    BY <2>1 DEF Inline
  <2>3. Running' = Running
    BY <2>1, <2>2 DEF Running, Blocked
  <2> QED
    BY <1>3, <2>1, <2>3 DEF Blocked
<1>5. ASSUME UNCHANGED <<listener, opening>>,
             \A c \in Conns : pull[c] = "read" <=> pull'[c] = "read",
             \A c \in Conns : push'[c] # "send"
      PROVE  Running' = Running
  BY <1>2, <1>5 DEF Running, Inline
<1>6. ASSUME NEW d \in Conns,
             \/ PullWritten(d) \/ PushReads(d) \/ Asks(d) \/ Greets(d) \/ Answers(d)
             \/ Connects(d) \/ Leaves(d) \/ Ends(d)
      PROVE  Exhausted'
  <2>1. UNCHANGED <<listener, opening>>
    BY <1>6 DEF PullWritten, PushReads, Asks, Greets, Answers, Connects, Leaves,
         Ends, listenVars
  <2>2. /\ \A c \in Conns : pull[c] = "read" <=> pull'[c] = "read"
        /\ \A c \in Conns : push'[c] # "send"
    BY <1>2, <1>6 DEF PullWritten, PushReads, Asks, Greets, Answers, Connects,
         Leaves, Ends, pullVars, Types
  <2>3. Running' = Running
    BY <1>5, <2>1, <2>2
  <2>4. \A c \in Conns : pull[c] = "read" =>
          remote'[c] = remote[c] /\ unread'[c] = unread[c]
    <3> SUFFICES ASSUME NEW c \in Conns, pull[c] = "read"
                 PROVE  remote'[c] = remote[c] /\ unread'[c] = unread[c]
      OBVIOUS
    <3>1. remote[c] = "ended"
      BY DEF Exhausted
    <3> QED
      BY <1>6, <3>1 DEF PullWritten, PushReads, Asks, Greets, Answers, Connects,
           Leaves, Ends, remoteVars, Types
  <2> QED
    BY <1>3, <2>1, <2>2, <2>3, <2>4
<1>7. ASSUME NEW d \in Conns, PullReads(d)
      PROVE  FALSE
  BY <1>7 DEF PullReads, Exhausted, Types
<1>8. ASSUME NEW d \in Conns, PullRuns(d) \/ PushRuns(d) \/ PushSends(d)
      PROVE  FALSE
  BY <1>1, <1>2, <1>8 DEF PullRuns, PushRuns, PushSends
<1>9. CASE \/ ListenerStarts \/ ListenerOpens \/ SocketConnects \/ ShakesHands
           \/ Authenticates \/ OpensTunnel \/ OpenFails
  BY <1>1, <1>9 DEF ListenerStarts, ListenerOpens, SocketConnects, ShakesHands,
       Authenticates, OpensTunnel, OpenFails, Exhausted, Blocked
<1>10. CASE UNCHANGED vars
  <2>1. UNCHANGED <<listener, opening, pull, push, remote, unread>>
    BY <1>10 DEF vars, listenVars, pullVars, remoteVars
  <2>2. Running' = Running
    BY <2>1 DEF Running, Inline
  <2> QED
    BY <1>3, <2>1, <2>2
<1> QED
  BY <1>4, <1>6, <1>7, <1>8, <1>9, <1>10, Steps

(* A pool whose threads are all with ended channels is lost for good,      *)
(* however many threads it had.                                            *)
THEOREM NeverRecovers == Spec => ExhaustedForGood
<1>1. Types /\ [Next]_vars => [Exhausted => Exhausted']_vars
  BY NextExhausted
<1> QED
  BY <1>1, OpeningsAlways, PTL DEF Spec, ExhaustedForGood

-----------------------------------------------------------------------------
(* The run queue and the pool.                                             *)
LEMMA Distinct ==
  \A c, d \in Conns :
    /\ Pull(c) # Listener /\ Push(c) # Listener /\ Pull(c) # Push(d)
    /\ Pull(c) = Pull(d) => c = d
    /\ Push(c) = Push(d) => c = d
BY DEF Pull, Push, Listener

(* Two sets of coroutines are equal if they have the same ones.            *)
LEMMA SameCoroutines ==
  ASSUME NEW A \in SUBSET Coroutines, NEW B \in SUBSET Coroutines,
         Listener \in A <=> Listener \in B,
         \A c \in Conns : (Pull(c) \in A <=> Pull(c) \in B)
                            /\ (Push(c) \in A <=> Push(c) \in B)
  PROVE  A = B
BY DEF Coroutines

(* The coroutines that are ready to run.                                   *)
ReadySet ==
  {Listener : x \in {listener} \intersect {"spawned", "ready"}}
  \union {Pull(c) : c \in {d \in Conns : pull[d] \in {"ready", "failed"}}}
  \union {Push(c) : c \in {d \in Conns : push[d] \in {"ready", "failed"}}}

QueueSound == IsInjective(runQueue) /\ ToSet(runQueue) = ReadySet

LEMMA ReadyMembers ==
  /\ ReadySet \subseteq Coroutines /\ ReadySet' \subseteq Coroutines
  /\ Listener \in ReadySet <=> listener \in {"spawned", "ready"}
  /\ Listener \in ReadySet' <=> listener' \in {"spawned", "ready"}
  /\ \A c \in Conns : Pull(c) \in ReadySet <=> pull[c] \in {"ready", "failed"}
  /\ \A c \in Conns : Pull(c) \in ReadySet' <=> pull'[c] \in {"ready", "failed"}
  /\ \A c \in Conns : Push(c) \in ReadySet <=> push[c] \in {"ready", "failed"}
  /\ \A c \in Conns : Push(c) \in ReadySet' <=> push'[c] \in {"ready", "failed"}
BY Distinct DEF ReadySet, Coroutines

(* A step that changes whether r is ready, and nothing else.               *)
LEMMA AllButOne ==
  ASSUME NEW r \in Coroutines,
         \A x \in Coroutines \ {r} : x \in ReadySet' <=> x \in ReadySet
  PROVE  /\ r \in ReadySet' => ReadySet' = ReadySet \union {r}
         /\ r \notin ReadySet' => ReadySet' = ReadySet \ {r}
BY ReadyMembers

LEMMA InitQueue == Init => QueueSound
<1> SUFFICES ASSUME Init
             PROVE  QueueSound
  OBVIOUS
<1>1. ReadySet = {Listener}
  BY DEF Init, ReadySet
<1>2. ToSet(<<Listener>>) = {Listener} /\ IsInjective(<<Listener>>)
  BY DEF ToSet, IsInjective
<1> QED
  BY <1>1, <1>2 DEF Init, QueueSound

(* A coroutine that becomes ready was not, and one that starts is no more. *)
LEMMA BecomesReady ==
  ASSUME Types, QueueSound, NEW r \in Coroutines, Ready(r), r \notin ReadySet,
         ReadySet' = ReadySet \union {r}
  PROVE  QueueSound'
<1>1. runQueue \in Seq(Coroutines)
  BY DEF Types
<1>2. /\ ToSet(Append(runQueue, r)) = ToSet(runQueue) \union {r}
      /\ IsInjective(Append(runQueue, r))
  BY <1>1, AppendNew DEF QueueSound
<1>3. runQueue' = Append(runQueue, r)
  BY DEF Ready
<1> QED
  BY <1>2, <1>3 DEF QueueSound

LEMMA IsStarted ==
  ASSUME Types, QueueSound, NEW r \in Coroutines, Starts(r),
         ReadySet' = ReadySet \ {r}
  PROVE  QueueSound'
<1>1. runQueue \in Seq(Coroutines) /\ runQueue # << >> /\ Head(runQueue) = r
  BY DEF Types, Starts
<1>2. /\ ToSet(Tail(runQueue)) = ToSet(runQueue) \ {r}
      /\ IsInjective(Tail(runQueue))
  BY <1>1, TailOfNew DEF QueueSound
<1>3. runQueue' = Tail(runQueue)
  BY DEF Starts
<1> QED
  BY <1>2, <1>3 DEF QueueSound

LEMMA NextQueue ==
  Types /\ HoldsSocket /\ Openings /\ QueueSound /\ [Next]_vars => QueueSound'
<1> SUFFICES ASSUME Types, HoldsSocket, Openings, QueueSound, [Next]_vars
             PROVE  QueueSound'
  OBVIOUS
<1>1. Listener \in Coroutines
      /\ \A c \in Conns : Pull(c) \in Coroutines /\ Push(c) \in Coroutines
  BY DEF Coroutines
<1>2. CASE /\ runQueue' = runQueue
           /\ listener' \in {"spawned", "ready"} <=> listener \in {"spawned", "ready"}
           /\ \A c \in Conns :
                /\ pull'[c] \in {"ready", "failed"} <=> pull[c] \in {"ready", "failed"}
                /\ push'[c] \in {"ready", "failed"} <=> push[c] \in {"ready", "failed"}
  <2>1. ReadySet' = ReadySet
    BY <1>2, ReadyMembers, SameCoroutines
  <2> QED
    BY <1>2, <2>1 DEF QueueSound
<1>3. CASE ListenerStarts \/ ListenerOpens
  <2>1. /\ Starts(Listener) /\ listener' \notin {"spawned", "ready"}
        /\ UNCHANGED <<pull, push>>
    BY <1>3 DEF ListenerStarts, ListenerOpens, pullVars
  <2>2. ReadySet' = ReadySet \ {Listener}
    <3>1. \A x \in Coroutines \ {Listener} : x \in ReadySet' <=> x \in ReadySet
      BY <2>1, ReadyMembers DEF Coroutines
    <3> QED
      BY <1>1, <2>1, <3>1, ReadyMembers, AllButOne
  <2> QED
    BY <1>1, <2>1, <2>2, IsStarted
<1>4. CASE Accepts
  <2>1. /\ Ready(Listener) /\ listener = "accept" /\ listener' = "ready"
        /\ UNCHANGED <<pull, push>>
    BY <1>4 DEF Accepts, pullVars
  <2>2. Listener \notin ReadySet /\ ReadySet' = ReadySet \union {Listener}
    <3>1. \A x \in Coroutines \ {Listener} : x \in ReadySet' <=> x \in ReadySet
      BY <2>1, ReadyMembers DEF Coroutines
    <3> QED
      BY <1>1, <2>1, <3>1, ReadyMembers, AllButOne
  <2> QED
    BY <1>1, <2>1, <2>2, BecomesReady
<1>5. CASE SocketConnects \/ ShakesHands \/ Authenticates \/ OpenFails
  BY <1>2, <1>5 DEF SocketConnects, ShakesHands, Authenticates, OpenFails, Skips,
       poolVars, pullVars
<1>6. CASE OpensTunnel
  <2>1. PICK o \in Conns : opening = <<o>> /\ opening[1] = o
    BY <1>6 DEF HoldsSocket, OpensTunnel, Blocked
  <2>2. pull[o] = "none"
    BY <1>6, <2>1 DEF Openings, OpeningOf, OpensTunnel, Blocked
  <2>3. /\ runQueue' = runQueue /\ push' = push
        /\ listener = "tunnel" /\ listener' = "spawn"
        /\ pull' = [pull EXCEPT ![o] = "read"]
    BY <1>6, <2>1 DEF OpensTunnel, PushToSpawn, poolVars
  <2> QED
    BY <1>2, <2>2, <2>3 DEF Types
<1>7. ASSUME NEW d \in Conns, PullReads(d)
      PROVE  QueueSound'
  <2>1. /\ runQueue' = runQueue
        /\ pull[d] = "read" /\ pull' = [pull EXCEPT ![d] = "write"]
    BY <1>7 DEF PullReads, poolVars
  <2>2. CASE Inline(d)
    <3>1. /\ listener = "spawn" /\ listener' = "accept"
          /\ push[d] = "none" /\ push' = [push EXCEPT ![d] = "read"]
      BY <1>7, <2>2 DEF PullReads, Inline, Openings, ChannelOf
    <3> QED
      BY <1>2, <2>1, <3>1 DEF Types
  <2>3. CASE ~Inline(d)
    BY <1>2, <1>7, <2>1, <2>3 DEF PullReads, Types
  <2> QED
    BY <2>2, <2>3
<1>8. ASSUME NEW d \in Conns, PullWritten(d)
      PROVE  QueueSound'
  <2>1. /\ Ready(Pull(d)) /\ UNCHANGED <<listener, push>>
        /\ pull[d] = "write" /\ pull'[d] \in {"ready", "failed"}
        /\ \A c \in Conns : c # d => pull'[c] = pull[c]
    BY <1>8 DEF PullWritten, listenVars, Types
  <2>2. Pull(d) \notin ReadySet /\ ReadySet' = ReadySet \union {Pull(d)}
    <3>1. \A x \in Coroutines \ {Pull(d)} : x \in ReadySet' <=> x \in ReadySet
      BY <2>1, ReadyMembers DEF Coroutines
    <3> QED
      BY <1>1, <2>1, <3>1, ReadyMembers, AllButOne
  <2> QED
    BY <1>1, <2>1, <2>2, BecomesReady
<1>9. ASSUME NEW d \in Conns, PullRuns(d)
      PROVE  QueueSound'
  <2>1. /\ Starts(Pull(d)) /\ UNCHANGED <<listener, push>>
        /\ pull'[d] \in {"done", "read"}
        /\ \A c \in Conns : c # d => pull'[c] = pull[c]
    BY <1>9 DEF PullRuns, listenVars, Types
  <2>2. ReadySet' = ReadySet \ {Pull(d)}
    <3>1. \A x \in Coroutines \ {Pull(d)} : x \in ReadySet' <=> x \in ReadySet
      BY <2>1, ReadyMembers DEF Coroutines
    <3> QED
      BY <1>1, <2>1, <3>1, ReadyMembers, AllButOne
  <2> QED
    BY <1>1, <2>1, <2>2, IsStarted
<1>10. ASSUME NEW d \in Conns, PushReads(d)
       PROVE  QueueSound'
  <2>1. /\ Ready(Push(d)) /\ UNCHANGED <<listener, pull>>
        /\ push[d] = "read" /\ push'[d] \in {"ready", "failed"}
        /\ \A c \in Conns : c # d => push'[c] = push[c]
    BY <1>10 DEF PushReads, listenVars, pullVars, Types
  <2>2. Push(d) \notin ReadySet /\ ReadySet' = ReadySet \union {Push(d)}
    <3>1. \A x \in Coroutines \ {Push(d)} : x \in ReadySet' <=> x \in ReadySet
      BY <2>1, ReadyMembers DEF Coroutines
    <3> QED
      BY <1>1, <2>1, <3>1, ReadyMembers, AllButOne
  <2> QED
    BY <1>1, <2>1, <2>2, BecomesReady
<1>11. ASSUME NEW d \in Conns, PushRuns(d)
       PROVE  QueueSound'
  <2>1. /\ Starts(Push(d)) /\ UNCHANGED <<listener, pull>>
        /\ push'[d] \in {"done", "send"}
        /\ \A c \in Conns : c # d => push'[c] = push[c]
    BY <1>11 DEF PushRuns, listenVars, pullVars, Types
  <2>2. ReadySet' = ReadySet \ {Push(d)}
    <3>1. \A x \in Coroutines \ {Push(d)} : x \in ReadySet' <=> x \in ReadySet
      BY <2>1, ReadyMembers DEF Coroutines
    <3> QED
      BY <1>1, <2>1, <3>1, ReadyMembers, AllButOne
  <2> QED
    BY <1>1, <2>1, <2>2, IsStarted
<1>12. ASSUME NEW d \in Conns, PushSends(d)
       PROVE  QueueSound'
  BY <1>2, <1>12 DEF PushSends, poolVars, listenVars, pullVars, Types
<1>13. ASSUME NEW d \in Conns,
              \/ Asks(d) \/ Greets(d) \/ Answers(d)
              \/ Connects(d) \/ Leaves(d) \/ Ends(d)
       PROVE  QueueSound'
  BY <1>2, <1>13 DEF Asks, Greets, Answers, Connects, Leaves, Ends, poolVars,
       listenVars, pullVars
<1>14. CASE UNCHANGED vars
  BY <1>2, <1>14 DEF vars, poolVars, listenVars, pullVars
<1> QED
  BY <1>3, <1>4, <1>5, <1>6, <1>7, <1>8, <1>9, <1>10, <1>11, <1>12, <1>13, <1>14,
     Steps

(* No more run than there are threads.                                     *)
Bounded == IsFiniteSet(Running) /\ Cardinality(Running) <= Threads

LEMMA InitBounded == Init => Bounded
<1> SUFFICES ASSUME Init
             PROVE  Bounded
  OBVIOUS
<1>1. Running = {}
  BY DEF Init, Running, Blocked
<1> QED
  BY <1>1, FS_EmptySet, ServerAssumption DEF Bounded

(* A step that takes no thread, and one that takes one for r.              *)
LEMMA NoMoreRun ==
  ASSUME Bounded, Running' \subseteq Running
  PROVE  Bounded'
<1>1. IsFiniteSet(Running') /\ Cardinality(Running') <= Cardinality(Running)
  BY FS_Subset DEF Bounded
<1>2. Cardinality(Running') \in Nat /\ Cardinality(Running) \in Nat
  BY <1>1, FS_CardinalityType DEF Bounded
<1> QED
  BY <1>1, <1>2, ServerAssumption DEF Bounded

LEMMA OneMoreRuns ==
  ASSUME Bounded, NEW r, Starts(r), Running' \subseteq Running \union {r}
  PROVE  Bounded'
<1>1. /\ IsFiniteSet(Running \union {r})
      /\ Cardinality(Running \union {r}) <= Cardinality(Running) + 1
      /\ Cardinality(Running) \in Nat
  BY FS_AddElement, FS_CardinalityType DEF Bounded
<1>2. /\ IsFiniteSet(Running')
      /\ Cardinality(Running') <= Cardinality(Running \union {r})
  BY <1>1, FS_Subset
<1>3. /\ Cardinality(Running') \in Nat
      /\ Cardinality(Running \union {r}) \in Nat
  BY <1>1, <1>2, FS_CardinalityType
<1>4. Cardinality(Running) < Threads
  BY DEF Starts, FreeThread
<1> QED
  BY <1>1, <1>2, <1>3, <1>4, ServerAssumption DEF Bounded

LEMMA RunningMembers ==
  /\ Running' \subseteq Coroutines
  /\ Listener \in Running <=> listener \in Blocked
  /\ Listener \in Running' <=> listener' \in Blocked
  /\ \A c \in Conns : Pull(c) \in Running <=> pull[c] = "read" /\ ~Inline(c)
  /\ \A c \in Conns : Pull(c) \in Running' <=> pull'[c] = "read" /\ ~Inline(c)'
  /\ \A c \in Conns : Push(c) \in Running <=> push[c] = "send"
  /\ \A c \in Conns : Push(c) \in Running' <=> push'[c] = "send"
BY Distinct DEF Running, Coroutines

LEMMA NextBounded ==
  Types /\ HoldsSocket /\ Openings /\ Bounded /\ [Next]_vars => Bounded'
<1> SUFFICES ASSUME Types, HoldsSocket, Openings, Bounded, [Next]_vars
             PROVE  Bounded'
  OBVIOUS
<1>1. CASE /\ listener' \in Blocked => listener \in Blocked
           /\ \A c \in Conns :
                /\ pull'[c] = "read" /\ ~Inline(c)' => pull[c] = "read" /\ ~Inline(c)
                /\ push'[c] = "send" => push[c] = "send"
  <2>1. Running' \subseteq Running
    BY <1>1, RunningMembers DEF Coroutines
  <2> QED
    BY <2>1, NoMoreRun
<1>2. CASE UNCHANGED <<listener, opening, pull, push>>
  BY <1>1, <1>2 DEF Inline
<1>3. CASE \/ ListenerStarts \/ Accepts \/ SocketConnects \/ ShakesHands
           \/ Authenticates
  BY <1>1, <1>3 DEF ListenerStarts, Accepts, SocketConnects, ShakesHands,
       Authenticates, Inline, Blocked, poolVars, pullVars
<1>4. CASE ListenerOpens
  <2>1. /\ Starts(Listener) /\ listener = "ready" /\ listener' = "resolve"
        /\ UNCHANGED <<pull, push>>
    BY <1>4 DEF ListenerOpens, pullVars
  <2>2. Running' \subseteq Running \union {Listener}
    BY <2>1, RunningMembers DEF Coroutines, Inline
  <2> QED
    BY <2>1, <2>2, OneMoreRuns
<1>5. CASE OpensTunnel
  <2>1. PICK o \in Conns : opening = <<o>> /\ opening[1] = o
    BY <1>5 DEF HoldsSocket, OpensTunnel, Blocked
  <2>2. /\ listener = "tunnel" /\ listener' = "spawn" /\ opening' = opening
        /\ push' = push /\ pull' = [pull EXCEPT ![o] = "read"]
    BY <1>5, <2>1 DEF OpensTunnel, PushToSpawn
  <2>3. Inline(o)' /\ \A c \in Conns : ~Inline(c)
    BY <2>1, <2>2 DEF Inline
  <2> QED
    BY <1>1, <2>2, <2>3 DEF Blocked, Types
<1>6. CASE OpenFails
  BY <1>1, <1>6 DEF OpenFails, Skips, Inline, Blocked, pullVars
<1>7. ASSUME NEW d \in Conns, PullReads(d)
      PROVE  Bounded'
  <2>1. pull' = [pull EXCEPT ![d] = "write"]
    BY <1>7 DEF PullReads
  <2>2. CASE Inline(d)
    <3>1. /\ opening = <<d>> /\ listener = "spawn" /\ listener' = "accept"
          /\ push' = [push EXCEPT ![d] = "read"]
      BY <1>7, <2>2 DEF PullReads, Inline
    <3>2. \A c \in Conns : Inline(c) => c = d
      BY <3>1 DEF Inline
    <3> QED
      BY <1>1, <2>1, <3>1, <3>2 DEF Blocked, Types
  <2>3. CASE ~Inline(d)
    BY <1>1, <1>7, <2>1, <2>3 DEF PullReads, Inline, Types
  <2> QED
    BY <2>2, <2>3
<1>8. ASSUME NEW d \in Conns, PullWritten(d) \/ PushReads(d) \/ PushSends(d)
      PROVE  Bounded'
  BY <1>1, <1>8 DEF PullWritten, PushReads, PushSends, Inline, listenVars, pullVars,
       Types
<1>9. ASSUME NEW d \in Conns, PullRuns(d)
      PROVE  Bounded'
  <2>1. /\ Starts(Pull(d)) /\ UNCHANGED <<listener, opening, push>>
        /\ \A c \in Conns : c # d => pull'[c] = pull[c]
    BY <1>9 DEF PullRuns, listenVars, Types
  <2>2. Running' \subseteq Running \union {Pull(d)}
    BY <2>1, RunningMembers DEF Coroutines, Inline
  <2> QED
    BY <2>1, <2>2, OneMoreRuns
<1>10. ASSUME NEW d \in Conns, PushRuns(d)
       PROVE  Bounded'
  <2>1. /\ Starts(Push(d)) /\ UNCHANGED <<listener, opening, pull>>
        /\ \A c \in Conns : c # d => push'[c] = push[c]
    BY <1>10 DEF PushRuns, listenVars, pullVars, Types
  <2>2. Running' \subseteq Running \union {Push(d)}
    BY <2>1, RunningMembers DEF Coroutines, Inline
  <2> QED
    BY <2>1, <2>2, OneMoreRuns
<1>11. ASSUME NEW d \in Conns,
              \/ Asks(d) \/ Greets(d) \/ Answers(d)
              \/ Connects(d) \/ Leaves(d) \/ Ends(d)
       PROVE  Bounded'
  BY <1>2, <1>11 DEF Asks, Greets, Answers, Connects, Leaves, Ends, listenVars,
       pullVars
<1>12. CASE UNCHANGED vars
  BY <1>2, <1>12 DEF vars, listenVars, pullVars
<1> QED
  BY <1>3, <1>4, <1>5, <1>6, <1>7, <1>8, <1>9, <1>10, <1>11, <1>12, Steps

(* No coroutine runs on two threads or is queued twice, and no more run    *)
(* than the pool has threads, for any number of threads.                   *)
THEOREM UsesPoolSoundly == Spec => []PoolSound
<1>1. QueueSound /\ Bounded => PoolSound
  BY DEF QueueSound, ReadySet, Bounded, PoolSound
<1> QED
  BY <1>1, OpeningsAlways, InitQueue, NextQueue, InitBounded, NextBounded, PTL
     DEF Spec
===============================================================================
