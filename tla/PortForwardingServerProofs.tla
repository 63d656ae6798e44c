---------------------- MODULE PortForwardingServerProofs ----------------------
(***************************************************************************)
(* What is proved of PortForwardingServer, for any number of sources,      *)
(* threads and closed destinations.                                        *)
(***************************************************************************)
EXTENDS PortForwardingServer, SequenceTheorems, FiniteSetTheorems, TLAPS

Accepted == [source : Sources, fresh : BOOLEAN]
SourcesOf(list) == [i \in DOMAIN list |-> list[i].source]
StaleOf(list) == {i \in DOMAIN list : ~list[i].fresh}

(* The sources of a list, one by one, and of a list with one more.         *)
LEMMA SourcesOfAppend ==
  ASSUME NEW list \in Seq(Accepted), NEW r \in Accepted
  PROVE  /\ SourcesOf(list) \in Seq(Sources)
         /\ Append(list, r) \in Seq(Accepted)
         /\ SourcesOf(Append(list, r)) = Append(SourcesOf(list), r.source)
<1>1. /\ list \in [1..Len(list) -> Accepted] /\ Len(list) \in Nat
      /\ DOMAIN list = 1..Len(list)
  BY LenProperties
<1>2. SourcesOf(list) \in [1..Len(list) -> Sources]
  BY <1>1 DEF SourcesOf, Accepted
<1>3. SourcesOf(list) \in Seq(Sources) /\ Len(SourcesOf(list)) = Len(list)
  BY <1>1, <1>2, SeqDef
<1>4. /\ Append(list, r) \in Seq(Accepted)
      /\ DOMAIN Append(list, r) = 1..Len(list) + 1
      /\ \A i \in 1..Len(list) : Append(list, r)[i] = list[i]
      /\ Append(list, r)[Len(list) + 1] = r
  BY <1>1, AppendProperties
<1>5. SourcesOf(Append(list, r)) = Append(SourcesOf(list), r.source)
  <2> DEFINE s == SourcesOf(Append(list, r))
             t == Append(SourcesOf(list), r.source)
  <2>1. t \in Seq(Sources) /\ Len(t) = Len(list) + 1
    BY <1>3 DEF Accepted
  <2>2. s \in [1..Len(list) + 1 -> Sources]
    BY <1>1, <1>4 DEF SourcesOf, Accepted
  <2>3. s \in Seq(Sources) /\ Len(s) = Len(list) + 1
    BY <1>1, <2>2, SeqDef
  <2>4. \A i \in 1..Len(list) + 1 : s[i] = t[i]
    BY <1>1, <1>3, <1>4 DEF SourcesOf
  <2> HIDE DEF s, t
  <2>5. s = t
    BY <1>1, <2>1, <2>3, <2>4, SeqEqual
  <2> QED
    BY <2>5 DEF s, t
<1> QED
  BY <1>3, <1>4, <1>5

(* The stale connections of a list are finitely many, and one more         *)
(* connection makes them one more at most.                                 *)
LEMMA StaleOfAppend ==
  ASSUME NEW list \in Seq(Accepted), NEW r \in Accepted
  PROVE  /\ Cardinality(StaleOf(list)) \in Nat
         /\ Cardinality(StaleOf(Append(list, r)))
              <= Cardinality(StaleOf(list)) + (IF r.fresh THEN 0 ELSE 1)
         /\ Cardinality(StaleOf(Append(list, r))) \in Nat
<1>1. Len(list) \in Nat /\ DOMAIN list = 1..Len(list)
  BY LenProperties
<1>2. IsFiniteSet(StaleOf(list))
  <2>1. IsFiniteSet(1..Len(list))
    BY <1>1, FS_Interval
  <2> QED
    BY <1>1, <2>1, FS_Subset DEF StaleOf
<1>3. Cardinality(StaleOf(list)) \in Nat
  BY <1>2, FS_CardinalityType
<1>4. /\ DOMAIN Append(list, r) = 1..Len(list) + 1
      /\ \A i \in 1..Len(list) : Append(list, r)[i] = list[i]
      /\ Append(list, r)[Len(list) + 1] = r
  BY <1>1, AppendProperties
<1>5. CASE r.fresh
  <2>1. StaleOf(Append(list, r)) = StaleOf(list)
    BY <1>1, <1>4, <1>5 DEF StaleOf
  <2> QED
    BY <1>3, <1>5, <2>1
<1>6. CASE ~r.fresh
  <2>1. StaleOf(Append(list, r)) = StaleOf(list) \union {Len(list) + 1}
    BY <1>1, <1>4, <1>6 DEF StaleOf
  <2>2. Len(list) + 1 \notin StaleOf(list)
    BY <1>1 DEF StaleOf
  <2>3. Cardinality(StaleOf(list) \union {Len(list) + 1})
          = Cardinality(StaleOf(list)) + 1
    BY <1>2, <2>2, FS_AddElement
  <2> QED
    BY <1>3, <1>6, <2>1, <2>3
<1> QED
  BY <1>3, <1>5, <1>6

-----------------------------------------------------------------------------
LEMMA InitTypeOK == Init => TypeOK
<1> SUFFICES ASSUME Init
             PROVE  TypeOK
  OBVIOUS
<1>1. << >> \in Seq(Sources) /\ << >> \in Seq([source : Sources, fresh : BOOLEAN])
  BY EmptySeq
<1>2. 0 \in 0..MaxDeaths
  BY ForwardingServerAssumption
<1> QED
  BY <1>1, <1>2 DEF Init, TypeOK, ThreadsNum

LEMMA NextTypeOK == TypeOK /\ [Next]_vars => TypeOK'
<1> SUFFICES ASSUME TypeOK, [Next]_vars
             PROVE  TypeOK'
  OBVIOUS
<1> USE ForwardingServerAssumption DEF TypeOK, sourceVars
<1>2. CASE Listens
  BY <1>2 DEF Listens
<1>3. CASE Connects
  BY <1>3 DEF Connects
<1>4. CASE Accepts
  <2> DEFINE r == [source |-> Head(backlog), fresh |-> fresh]
  <2>1. Head(backlog) \in Sources /\ Tail(backlog) \in Seq(Sources)
    BY <1>4, HeadTailProperties DEF Accepts
  <2>2. connectionList' = Append(connectionList, r)
    BY <1>4 DEF Accepts, Oldest
  <2>3. r \in Accepted
    BY <2>1 DEF Accepted
  <2> HIDE DEF r
  <2>4. connectionList' \in Seq([source : Sources, fresh : BOOLEAN])
    BY <2>2, <2>3, AppendProperties DEF Accepted
  <2> QED
    BY <1>4, <2>1, <2>4 DEF Accepts, AfterAccept
<1>5. CASE AcceptFails
  BY <1>5 DEF AcceptFails, AfterFailure
<1>6. CASE DestinationCloses
  <2>1. deaths \in 0..MaxDeaths /\ deaths < MaxDeaths /\ deaths' = deaths + 1
    BY <1>6 DEF DestinationCloses
  <2>2. deaths' \in 0..MaxDeaths
    BY <2>1
  <2> QED
    BY <1>6, <2>2 DEF DestinationCloses
<1>7. CASE DestinationChanges
  BY <1>7 DEF DestinationChanges
<1>8. CASE \E s \in Sources : SourceConnects(s)
  BY <1>8, AppendProperties DEF SourceConnects
<1>9. CASE UNCHANGED vars
  BY <1>9 DEF vars
<1> QED
  BY <1>2, <1>3, <1>4, <1>5, <1>6, <1>7, <1>8, <1>9 DEF Next

(* The listener's states, lists and queues stay of their types, however    *)
(* many sources there are.                                                 *)
THEOREM Typed == Spec => []TypeOK
BY InitTypeOK, NextTypeOK, PTL DEF Spec

-----------------------------------------------------------------------------
(* What the listener has taken.                                            *)
LEMMA TakenOfList == Taken = SourcesOf(connectionList)
                     /\ Taken' = SourcesOf(connectionList')
BY DEF Taken, SourcesOf

LEMMA NothingTaken == SourcesOf(<< >>) = << >>
<1>1. SourcesOf(<< >>) \in [1..0 -> Sources]
  BY DEF SourcesOf
<1> QED
  BY <1>1

LEMMA InitEachInTurn == Init => EachInTurn
<1> SUFFICES ASSUME Init
             PROVE  SourcesOf(<< >>) \o << >> = << >>
  BY TakenOfList DEF Init, EachInTurn
<1> QED
  BY NothingTaken

LEMMA NextEachInTurn == TypeOK /\ EachInTurn /\ [Next]_vars => EachInTurn'
<1> SUFFICES ASSUME TypeOK, EachInTurn, [Next]_vars
             PROVE  SourcesOf(connectionList') \o backlog' = arrived'
  BY TakenOfList DEF EachInTurn
<1> DEFINE served == SourcesOf(connectionList)
<1>1. served \o backlog = arrived
  BY TakenOfList DEF EachInTurn
<1>2. connectionList \in Seq(Accepted) /\ backlog \in Seq(Sources)
  BY DEF TypeOK, Accepted
<1>3. CASE UNCHANGED <<connectionList, backlog, arrived>>
  BY <1>1, <1>3
<1>4. CASE Accepts
  <2> DEFINE first == Head(backlog)
             r == [source |-> first, fresh |-> fresh]
  <2>1. backlog # << >>
    BY <1>4 DEF Accepts
  <2>2. first \in Sources /\ Tail(backlog) \in Seq(Sources)
    BY <1>2, <2>1, HeadTailProperties
  <2>3. r \in Accepted /\ r.source = first
    BY <2>2 DEF Accepted, TypeOK
  <2>4. /\ connectionList' = Append(connectionList, r)
        /\ backlog' = Tail(backlog) /\ arrived' = arrived
    BY <1>4 DEF Accepts, Oldest
  <2> HIDE DEF r
  <2>5. served \in Seq(Sources)
        /\ SourcesOf(connectionList') = Append(served, first)
    BY <1>2, <2>3, <2>4, SourcesOfAppend
  <2> HIDE DEF served
  <2>6. Append(served, first) \o Tail(backlog) = served \o backlog
    BY <1>2, <2>1, <2>2, <2>5
  <2> QED
    BY <1>1, <2>4, <2>5, <2>6
<1>5. CASE \E s \in Sources : SourceConnects(s)
  <2> PICK s \in Sources : SourceConnects(s)
    BY <1>5
  <2>1. /\ backlog' = Append(backlog, s) /\ arrived' = Append(arrived, s)
        /\ connectionList' = connectionList
    BY DEF SourceConnects
  <2>2. served \in Seq(Sources)
    <3>1. ASSUME NEW f \in BOOLEAN PROVE [source |-> s, fresh |-> f] \in Accepted
      BY DEF Accepted
    <3> QED
      BY <1>2, <3>1, SourcesOfAppend
  <2> HIDE DEF served
  <2>3. served \o Append(backlog, s) = Append(served \o backlog, s)
    BY <1>2, <2>2
  <2> QED
    BY <1>1, <2>1, <2>3 DEF served
<1>6. CASE Listens \/ Connects \/ AcceptFails \/ DestinationCloses
           \/ DestinationChanges
  BY <1>3, <1>6 DEF Listens, Connects, AcceptFails, DestinationCloses,
                    DestinationChanges, sourceVars
<1>7. CASE UNCHANGED vars
  BY <1>3, <1>7 DEF vars, sourceVars
<1> QED
  BY <1>4, <1>5, <1>6, <1>7 DEF Next

-----------------------------------------------------------------------------
(* The listener implements AcceptQueue: async_accept takes, a source that  *)
(* connects arrives, and every other step is a stutter.                    *)
LEMMA InitQueueSpec == Init => Queue!Init
<1> SUFFICES ASSUME Init PROVE Queue!Init
  OBVIOUS
<1>1. Taken = << >>
  BY TakenOfList, NothingTaken DEF Init
<1>2. ToSet(arrived) = {}
  BY DEF ToSet, Init
<1> QED
  BY <1>1, <1>2 DEF Init, Queue!Init

(* A sequence that has one element more.                                   *)
LEMMA AppendHas ==
  ASSUME NEW q \in Seq(Sources), NEW s \in Sources
  PROVE  ToSet(Append(q, s)) = ToSet(q) \union {s}
<1> DEFINE a == Append(q, s)
<1>1. Len(q) \in Nat /\ DOMAIN q = 1..Len(q)
  BY LenProperties
<1>2. /\ DOMAIN a = 1..Len(q) + 1
      /\ \A i \in 1..Len(q) : a[i] = q[i]
      /\ a[Len(q) + 1] = s
  BY <1>1, AppendProperties
<1> HIDE DEF a
<1>3. ToSet(a) = ToSet(q) \union {s}
  BY <1>1, <1>2 DEF ToSet
<1> QED
  BY <1>3 DEF a

LEMMA NextQueueStep ==
  TypeOK /\ EachInTurn /\ [Next]_vars => [Queue!Next]_(Queue!vars)
<1> SUFFICES ASSUME TypeOK, EachInTurn, [Next]_vars
             PROVE  [Queue!Next]_(Queue!vars)
  OBVIOUS
<1>1. /\ connectionList \in Seq(Accepted) /\ backlog \in Seq(Sources)
      /\ fresh \in BOOLEAN
  BY DEF TypeOK, Accepted
<1>2. CASE UNCHANGED <<connectionList, backlog, arrived>>
  BY <1>2, TakenOfList DEF Queue!vars
<1>3. CASE Accepts
  <2> DEFINE r == [source |-> Head(backlog), fresh |-> fresh]
  <2>1. backlog # << >> /\ Head(backlog) \in Sources
    BY <1>1, <1>3, HeadTailProperties DEF Accepts
  <2>2. r \in Accepted /\ r.source = Head(backlog)
    BY <1>1, <2>1 DEF Accepted
  <2>3. /\ connectionList' = Append(connectionList, r)
        /\ backlog' = Tail(backlog) /\ arrived' = arrived
    BY <1>3 DEF Accepts, Oldest
  <2> HIDE DEF r
  <2>4. Taken' = Append(Taken, Head(backlog))
    BY <1>1, <2>2, <2>3, SourcesOfAppend, TakenOfList
  <2> QED
    BY <2>1, <2>3, <2>4 DEF Queue!Next, Queue!Take
<1>4. ASSUME NEW s \in Sources, SourceConnects(s)
      PROVE  [Queue!Next]_(Queue!vars)
  <2>1. /\ s \notin ToSet(arrived) /\ backlog' = Append(backlog, s)
        /\ arrived' = Append(arrived, s) /\ connectionList' = connectionList
    BY <1>4 DEF SourceConnects
  <2>2. ToSet(arrived') = ToSet(arrived) \union {s}
    BY <2>1, AppendHas DEF TypeOK
  <2>3. Queue!Arrive(s)
    BY <2>1, <2>2, TakenOfList DEF Queue!Arrive
  <2> QED
    BY <2>3 DEF Queue!Next
<1>5. CASE Listens \/ Connects \/ AcceptFails \/ DestinationCloses
           \/ DestinationChanges
  BY <1>2, <1>5 DEF Listens, Connects, AcceptFails, DestinationCloses,
                    DestinationChanges, sourceVars
<1>6. CASE UNCHANGED vars
  BY <1>2, <1>6 DEF vars, sourceVars
<1> QED
  BY <1>3, <1>4, <1>5, <1>6 DEF Next

(* However often the destination or an accept fails, the sources are       *)
(* accepted in the order in which they connected, each of them once, and   *)
(* none is given back: the listener is an AcceptQueue.                     *)
THEOREM InTurn == Spec => TakenInTurn /\ []EachInTurn
BY InitTypeOK, NextTypeOK, InitEachInTurn, NextEachInTurn, InitQueueSpec,
   NextQueueStep, PTL DEF Spec, TakenInTurn, Queue!Spec

-----------------------------------------------------------------------------
(* How many sources the deaths have cost or are about to cost.             *)
StaleSoon == IF NextIsStale THEN 1 ELSE 0

LEMMA InitOneSource == Init => OneSourcePerDeath
<1> SUFFICES ASSUME Init
             PROVE  Cardinality(Stale) + StaleSoon <= deaths
  BY DEF OneSourcePerDeath, StaleSoon
<1>1. Stale = {}
  BY DEF Init, Stale
<1>2. Cardinality({}) = 0
  BY FS_EmptySet
<1> QED
  BY <1>1, <1>2 DEF Init, StaleSoon, NextIsStale

LEMMA NextOneSource ==
  TypeOK /\ OneSourcePerDeath /\ [Next]_vars => OneSourcePerDeath'
<1> SUFFICES ASSUME TypeOK, OneSourcePerDeath, [Next]_vars
             PROVE  OneSourcePerDeath'
  OBVIOUS
<1> DEFINE num == Cardinality(StaleOf(connectionList))
<1>1. /\ connectionList \in Seq(Accepted) /\ deaths \in Nat /\ fresh \in BOOLEAN
      /\ backlog \in Seq(Sources)
  BY ForwardingServerAssumption DEF TypeOK, Accepted
<1>2. num + StaleSoon <= deaths
  BY DEF OneSourcePerDeath, Stale, StaleOf, StaleSoon
<1>3. num \in Nat
  <2>1. Len(connectionList) \in Nat /\ DOMAIN connectionList = 1..Len(connectionList)
    BY <1>1, LenProperties
  <2>2. IsFiniteSet(1..Len(connectionList))
    BY <2>1, FS_Interval
  <2>3. IsFiniteSet(StaleOf(connectionList))
    BY <2>1, <2>2, FS_Subset DEF StaleOf
  <2> QED
    BY <2>3, FS_CardinalityType
<1>4. SUFFICES Cardinality(StaleOf(connectionList')) + StaleSoon' <= deaths'
  BY DEF OneSourcePerDeath, Stale, StaleOf, StaleSoon
<1> HIDE DEF num
<1>5. CASE /\ UNCHANGED <<connectionList, deaths>>
           /\ NextIsStale' => NextIsStale
  BY <1>2, <1>3, <1>1, <1>5 DEF num, StaleSoon
<1>6. CASE Accepts
  <2> DEFINE r == [source |-> Head(backlog), fresh |-> fresh]
  <2>1. Head(backlog) \in Sources
    BY <1>1, <1>6, HeadTailProperties DEF Accepts
  <2>2. r \in Accepted /\ r.fresh = fresh
    BY <1>1, <2>1 DEF Accepted
  <2>3. connectionList' = Append(connectionList, r) /\ deaths' = deaths
    BY <1>6 DEF Accepts, Oldest
  <2> HIDE DEF r
  <2>4. /\ Cardinality(StaleOf(connectionList')) <= num + (IF fresh THEN 0 ELSE 1)
        /\ Cardinality(StaleOf(connectionList')) \in Nat
    BY <1>1, <2>2, <2>3, StaleOfAppend DEF num
  <2>5. StaleSoon = (IF fresh THEN 0 ELSE 1) /\ StaleSoon' = 0
    BY <1>6 DEF Accepts, AfterAccept, StaleSoon, NextIsStale
  <2> QED
    BY <1>1, <1>2, <1>3, <2>3, <2>4, <2>5
<1>7. CASE DestinationCloses
  <2>1. deaths' = deaths + 1 /\ connectionList' = connectionList
    BY <1>7 DEF DestinationCloses, sourceVars
  <2>2. StaleSoon = 0 /\ StaleSoon' \in {0, 1}
    BY <1>7 DEF DestinationCloses, StaleSoon, NextIsStale
  <2> QED
    BY <1>1, <1>2, <1>3, <2>1, <2>2 DEF num
<1>8. CASE Listens \/ Connects \/ AcceptFails \/ DestinationChanges
           \/ \E s \in Sources : SourceConnects(s)
  BY <1>5, <1>8 DEF Listens, Connects, AcceptFails, AfterFailure,
       DestinationChanges, SourceConnects, sourceVars, NextIsStale
<1>9. CASE UNCHANGED vars
  BY <1>5, <1>9 DEF vars, sourceVars, NextIsStale
<1> QED
  BY <1>6, <1>7, <1>8, <1>9 DEF Next

(* A destination that closes the connection the listener holds ready costs *)
(* one source, never more.                                                 *)
THEOREM OneSourceEach == Spec => []OneSourcePerDeath
BY InitTypeOK, NextTypeOK, InitOneSource, NextOneSource, PTL DEF Spec
===============================================================================
