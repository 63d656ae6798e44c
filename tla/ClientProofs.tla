----------------------------- MODULE ClientProofs -----------------------------
(***************************************************************************)
(* What is proved of Client, for any number of calls.                      *)
(***************************************************************************)
EXTENDS Client, SequenceTheorems, TLAPS

(* What is left of a call, and of what is left.                            *)
LEMMA TodoHeads ==
  /\ Todos \subseteq Seq(Works)
  /\ \A q \in Todos : q # << >> =>
       /\ Head(q) \in Works /\ Tail(q) \in Todos
       /\ Len(Tail(q)) = Len(q) - 1
       /\ Len(q) = 1 <=> Tail(q) = << >>
       /\ Len(q) \in Nat
<1>1. Works = {"create", "exec", "read", "close", "listen"}
  BY DEF Works, Phases, Listening, ToSet
<1> QED
  BY <1>1 DEF Todos, Phases, Listening

-----------------------------------------------------------------------------
(* The types, with what is left of the call: something as long as it is    *)
(* under way.                                                              *)
Under == at["caller"] \in {"reset", "arm", "enter", "run", "work"}

Types ==
  /\ alive \in BOOLEAN /\ connected \in BOOLEAN
  /\ blocking \in BOOLEAN /\ broken \in BOOLEAN
  /\ at \in [Threads -> {"idle", "reset", "arm", "enter", "run", "work", "gone",
                         "none", "done"}]
  /\ at["caller"] \in {"idle", "reset", "arm", "enter", "run", "work", "gone"}
  /\ at["io"] \in {"none", "enter", "run", "work", "done"}
  /\ todo \in Todos /\ (Under <=> todo # << >>)
  /\ armed \in [Directions -> Seq(Handlers)] /\ ready \in Seq(Handlers)
  /\ stopped \in BOOLEAN
  /\ handler \in [Threads -> Handlers]
  /\ channels \in Seq(BOOLEAN) /\ channel \in 0..Len(channels)
  /\ calls \in 0..MaxCalls
  /\ log \in Seq(Works) /\ late \in BOOLEAN /\ surprised \in BOOLEAN

LEMMA TypesTypeOK == Types => TypeOK
BY DEF Types, TypeOK

LEMMA HandlerType ==
  ASSUME NEW w \in Works, NEW d \in Directions
  PROVE  Handler(w, d) \in Handlers
BY DEF Handler, Handlers

LEMMA InitTypes == Init => Types
<1> SUFFICES ASSUME Init
             PROVE  Types
  OBVIOUS
<1>1. NoHandler \in Handlers
  <2>1. "create" \in Works /\ "read" \in Directions
    BY DEF Works, Phases, Listening, ToSet, Directions
  <2> QED
    BY <2>1, HandlerType DEF NoHandler
<1>2. << >> \in Seq(Handlers) /\ << >> \in Seq(BOOLEAN) /\ << >> \in Seq(Works)
      /\ Len(<< >>) = 0
  BY EmptySeq
<1>3. at \in [Threads -> {"idle", "reset", "arm", "enter", "run", "work", "gone",
                          "none", "done"}]
      /\ at["caller"] = "idle" /\ at["io"] = "none"
  BY DEF Init, Threads
<1> QED
  <2>1. [d \in Directions |-> << >>] \in [Directions -> Seq(Handlers)]
        /\ [t \in Threads |-> NoHandler] \in [Threads -> Handlers]
    BY <1>1, <1>2
  <2>2. << >> \in Todos /\ calls \in 0..MaxCalls /\ channel \in 0..Len(channels)
    BY <1>2, ClientAssumption DEF Init, Todos
  <2> QED
    BY <1>2, <1>3, <2>1, <2>2 DEF Init, Types, Under

LEMMA NextTypes == Types /\ [Next]_vars => Types'
<1> SUFFICES ASSUME Types, [Next]_vars
             PROVE  Types'
  OBVIOUS
<1> USE DEF Types, Under, Threads, sessionVars, contextVars, channelVars
<1>1. CASE Connects
  BY <1>1 DEF Connects
<1>2. CASE Calls /\ todo' = Phases /\ at' = [at EXCEPT !["caller"] = "reset"]
           /\ blocking' = blocking
  <2>1. << >> \in Seq(Works) /\ Phases \in Todos /\ Phases # << >>
    BY EmptySeq DEF Todos, Phases
  <2>2. calls + 1 \in 0..MaxCalls
    BY <1>2, ClientAssumption DEF Calls
  <2> QED
    BY <1>2, <2>1, <2>2 DEF Calls
<1>3. CASE CallsForwarding
  <2>1. << >> \in Seq(Works) /\ Listening \in Todos /\ Listening # << >>
    BY EmptySeq DEF Todos, Listening
  <2>2. calls + 1 \in 0..MaxCalls
    BY <1>3, ClientAssumption DEF CallsForwarding, Calls
  <2> QED
    BY <1>3, <2>1, <2>2 DEF CallsForwarding, Calls
<1>4. CASE Destroys
  <2>1. channel' \in 0..Len(channels')
    BY <1>4, LenProperties DEF Destroys
  <2> QED
    BY <1>4, <2>1 DEF Destroys
<1>5. CASE Resets
  BY <1>5 DEF Resets, StoppedAfterReset
<1>6. CASE Arms
  <2>1. todo # << >> /\ Head(todo) \in Works
    BY <1>6, TodoHeads DEF Arms
  <2>2. armed' \in [Directions -> Seq(Handlers)]
    <3>1. \A d \in Directions : Handler(Head(todo), d) \in Handlers
      BY <2>1, HandlerType
    <3>2. \A d \in Directions :
            Append(armed[d], Handler(Head(todo), d)) \in Seq(Handlers)
      BY <3>1, AppendProperties
    <3> QED
      BY <1>6, <3>2 DEF Arms, WaitsFor
  <2> QED
    BY <1>6, <2>1, <2>2 DEF Arms
<1>7. ASSUME NEW ds \in SUBSET Directions, SocketReady(ds)
      PROVE  Types'
  <2> DEFINE w == IF "write" \in ds THEN armed["write"] ELSE << >>
             r == IF "read" \in ds THEN armed["read"] ELSE << >>
  <2>1. << >> \in Seq(Handlers)
    BY EmptySeq
  <2>2. w \in Seq(Handlers) /\ r \in Seq(Handlers)
    BY <2>1 DEF Directions
  <2>3. ready' = ready \o w \o r
    BY <1>7 DEF SocketReady
  <2> HIDE DEF w, r
  <2>4. ready' \in Seq(Handlers)
    BY <2>2, <2>3, ConcatProperties
  <2>5. armed' \in [Directions -> Seq(Handlers)] /\ surprised' \in BOOLEAN
    BY <1>7, <2>1 DEF SocketReady
  <2> QED
    BY <1>7, <2>4, <2>5 DEF SocketReady
<1>8. ASSUME NEW t \in Threads, Enters(t)
      PROVE  Types'
  BY <1>8 DEF Enters
<1>9. ASSUME NEW t \in Threads, Takes(t)
      PROVE  Types'
  <2>1. Head(ready) \in Handlers /\ Tail(ready) \in Seq(Handlers)
    BY <1>9, HeadTailProperties DEF Takes
  <2> QED
    BY <1>9, <2>1 DEF Takes
<1>10. ASSUME NEW t \in Threads, Drops(t)
       PROVE  Types'
  BY <1>10 DEF Drops
<1>11. ASSUME NEW t \in Threads, WorkDone(t)
       PROVE  Types'
  <2> DEFINE w == handler[t].work
  <2>1. w \in Works
    BY DEF Handlers
  <2>2. Append(log, w) \in Seq(Works)
    BY <2>1, AppendProperties
  <2>3. channels' \in Seq(BOOLEAN) /\ channel' \in 0..Len(channels')
    <3>1. Performs(w)
      BY <1>11 DEF WorkDone
    <3>2. CASE w = "create"
      <4>1. /\ Append(channels, FALSE) \in Seq(BOOLEAN)
            /\ Len(Append(channels, FALSE)) = Len(channels) + 1
            /\ Len(channels) \in Nat
        BY AppendProperties, LenProperties
      <4> QED
        BY <3>1, <3>2, <4>1 DEF Performs, Opened
    <3>3. CASE w = "exec"
      <4>1. channel # 0 /\ channel \in 1..Len(channels)
        BY <1>11, <3>3, LenProperties DEF WorkDone, Refused
      <4>2. /\ [channels EXCEPT ![channel] = TRUE] \in Seq(BOOLEAN)
            /\ Len([channels EXCEPT ![channel] = TRUE]) = Len(channels)
        BY <4>1, ExceptSeq
      <4> QED
        BY <3>1, <3>3, <4>2 DEF Performs
    <3>4. CASE w \notin {"create", "exec"}
      BY <3>1, <3>4 DEF Performs
    <3> QED
      BY <3>2, <3>3, <3>4
  <2> QED
    BY <1>11, <2>2, <2>3 DEF WorkDone, StoppedByWork
<1>12. ASSUME NEW t \in Threads, StillWorking(t)
       PROVE  Types'
  <2> DEFINE h == handler[t]
  <2>1. h \in Handlers /\ h.dir \in Directions
    BY DEF Handlers
  <2>2. Append(armed[h.dir], h) \in Seq(Handlers)
    BY <2>1, AppendProperties
  <2>3. armed' \in [Directions -> Seq(Handlers)]
    BY <1>12, <2>1, <2>2 DEF StillWorking
  <2>4. channel' \in 0..Len(channels') /\ channels' = channels
    BY <1>12, LenProperties DEF StillWorking, FailsToPerform
  <2> QED
    BY <1>12, <2>3, <2>4 DEF StillWorking
<1>13. ASSUME NEW t \in Threads, Throws(t)
       PROVE  Types'
  <2>1. channel' \in 0..Len(channels') /\ channels' = channels
    BY <1>13, LenProperties DEF Throws, FailsToPerform
  <2>2. << >> \in Todos
    BY DEF Todos
  <2> QED
    BY <1>13, <2>1, <2>2 DEF Throws
<1>14. CASE IoLeaves
  BY <1>14 DEF IoLeaves
<1>15. CASE PhaseEnds
  <2>1. todo # << >>
    BY <1>15 DEF PhaseEnds
  <2>2. Tail(todo) \in Todos /\ (Len(todo) = 1 <=> Tail(todo) = << >>)
    BY <2>1, TodoHeads
  <2>3. channel' \in 0..Len(channels')
    BY <1>15, LenProperties DEF PhaseEnds
  <2> QED
    BY <1>15, <2>2, <2>3 DEF PhaseEnds
<1>16. CASE Breaks
  BY <1>16 DEF Breaks
<1>17. CASE UNCHANGED vars
  BY <1>17 DEF vars
<1>18. CASE FailsToReconnect
  <2>1. armed["read"] \in Seq(Handlers) /\ armed["write"] \in Seq(Handlers)
        /\ << >> \in Seq(Handlers)
    BY EmptySeq DEF Directions
  <2>2. ready' \in Seq(Handlers)
    BY <1>18, <2>1, ConcatProperties DEF FailsToReconnect
  <2>3. armed' \in [Directions -> Seq(Handlers)]
    BY <1>18, <2>1 DEF FailsToReconnect
  <2> QED
    BY <1>18, <2>2, <2>3 DEF FailsToReconnect
<1> QED
  BY <1>1, <1>2, <1>3, <1>4, <1>5, <1>6, <1>7, <1>8, <1>9, <1>10, <1>11, <1>12,
     <1>13, <1>14, <1>15, <1>16, <1>17, <1>18
     DEF Next, Caller, CallsCommand, Run

(* The two threads, the handlers and the channels stay of their types;     *)
(* commandChannel is null or a channel that was opened, however many calls *)
(* are made and wherever they throw.                                       *)
THEOREM Typed == Spec => []TypeOK
BY InitTypes, NextTypes, TypesTypeOK, PTL DEF Spec

-----------------------------------------------------------------------------
(* When threadIo is not late: handlers and works, counted.                 *)
ToRead == Len(armed["read"])
ToWrite == Len(armed["write"])
ToRun == Len(ready)
Waiting == ToRead + ToWrite + ToRun
LeftNum == Len(Left)

(* The caller has the two handlers of its phase, done or not yet.          *)
Armed ==
  \/ at["caller"] \in {"enter", "work"}
  \/ at["caller"] = "run" /\ ~stopped

(* Before the first call nothing waits, and nobody works.                  *)
BeforeCalls ==
  calls = 0 =>
    /\ log = << >> /\ ready = << >> /\ todo = << >>
    /\ \A d \in Directions : armed[d] = << >>
    /\ at["io"] # "work"

(* Each phase makes two handlers and does one work.                        *)
Balance ==
  calls > 0 /\ ~late =>
    /\ at["io"] = "done"
    /\ at["caller"] \in {"arm", "enter", "work"} => ~stopped
    /\ Waiting + (IF at["caller"] = "work" THEN 1 ELSE 0)
         >= Len(log) + (IF Armed THEN 2 ELSE 0)
    /\ todo # << >> => Len(log) + Len(Left) \in {Len(Phases), Len(Listening)}

LEMMA InitBalance == Init => BeforeCalls /\ Balance
BY DEF Init, BeforeCalls, Balance

LEMMA NextBeforeCalls == Types /\ BeforeCalls /\ [Next]_vars => BeforeCalls'
<1> SUFFICES ASSUME Types, BeforeCalls, [Next]_vars, calls' = 0
             PROVE  BeforeCalls'
  BY DEF BeforeCalls
<1>1. CASE Calls
  <2>1. calls + 1 # 0
    BY DEF Types
  <2> QED
    BY <1>1, <2>1 DEF Calls
<1>2. CASE ~Calls
  <2>1. calls = 0
    BY <1>2 DEF Next, Caller, Connects, FailsToReconnect, CallsCommand,
         CallsForwarding, Destroys, Resets, Arms, PhaseEnds, IoLeaves, Breaks,
         Run, Enters, Takes, Drops,
         WorkDone, StillWorking, Throws, SocketReady, sessionVars, vars
  <2>2. /\ log = << >> /\ ready = << >> /\ todo = << >>
        /\ \A d \in Directions : armed[d] = << >>
        /\ at["io"] # "work" /\ ~Under
    BY <2>1 DEF BeforeCalls, Types
  <2>3. \A t \in Threads : at[t] # "work"
    BY <2>2 DEF Threads, Under
  <2>4. CASE \/ Connects \/ Destroys \/ IoLeaves \/ Breaks
             \/ \E t \in Threads : Enters(t)
    BY <2>2, <2>4 DEF Connects, Destroys, IoLeaves, Breaks, Enters, BeforeCalls,
         contextVars, channelVars, Types, Threads
  <2>5. CASE Resets \/ Arms \/ PhaseEnds
    BY <2>2, <2>5 DEF Resets, Arms, PhaseEnds, Under
  <2>6. ASSUME NEW t \in Threads,
               Takes(t) \/ Drops(t) \/ WorkDone(t) \/ StillWorking(t) \/ Throws(t)
        PROVE  FALSE
    BY <2>2, <2>3, <2>6 DEF Takes, Drops, WorkDone, StillWorking, Throws
  <2>7. ASSUME NEW ds \in SUBSET Directions, SocketReady(ds)
        PROVE  FALSE
    BY <2>2, <2>7 DEF SocketReady
  <2>9. CASE FailsToReconnect
    <3>1. << >> \o << >> \o << >> = << >>
      BY EmptySeq, ConcatProperties
    <3>2. armed["read"] = << >> /\ armed["write"] = << >> /\ ready = << >>
      BY <2>2 DEF Directions
    <3>3. ready' = << >> /\ \A d \in Directions : armed'[d] = << >>
      BY <2>9, <3>1, <3>2 DEF FailsToReconnect
    <3> QED
      BY <2>2, <2>9, <3>3 DEF FailsToReconnect, BeforeCalls, channelVars
  <2>8. CASE UNCHANGED vars
    BY <2>8 DEF vars, BeforeCalls, sessionVars, contextVars
  <2> QED
    BY <1>2, <2>4, <2>5, <2>6, <2>7, <2>8, <2>9 DEF Next, Caller, CallsCommand,
       CallsForwarding, Run
<1> QED
  BY <1>1, <1>2

(* A step that is no call of command or forwarding begins none.            *)
LEMMA OnlyCallsCall ==
  ASSUME Types, [Next]_vars, ~CallsCommand, ~CallsForwarding
  PROVE  ~Calls
<1> SUFFICES ASSUME Calls
             PROVE  FALSE
  OBVIOUS
<1>1. calls' = calls + 1 /\ calls' # calls
  BY DEF Calls, Types
<1>2. calls' = calls
  BY DEF Next, Caller, Connects, FailsToReconnect, Destroys, Resets, Arms, PhaseEnds,
     IoLeaves, Breaks, Run, Enters, Takes, Drops, WorkDone, StillWorking, Throws,
     SocketReady, sessionVars, vars
<1> QED
  BY <1>1, <1>2

(* What handlers there are, in numbers.                                    *)
LEMMA WaitingType ==
  ASSUME Types
  PROVE  /\ Waiting \in Nat /\ Len(log) \in Nat /\ Len(todo) \in Nat
         /\ ToRead \in Nat /\ ToWrite \in Nat /\ ToRun \in Nat
<1>1. /\ ToRead \in Nat /\ ToWrite \in Nat /\ ToRun \in Nat
      /\ Len(log) \in Nat
  BY LenProperties DEF Types, Directions, ToRead, ToWrite, ToRun
<1>2. Len(todo) \in Nat
  BY DEF Types, Todos, Phases, Listening
<1> QED
  BY <1>1, <1>2 DEF Waiting

(* What the steps do to that number.                                       *)
LEMMA ArmsAddTwo ==
  ASSUME Types, Arms
  PROVE  Waiting' = Waiting + 2
<1>1. todo # << >>
  BY DEF Types, Under, Arms
<1>2. \A d \in Directions : Handler(Head(todo), d) \in Handlers
  BY <1>1, TodoHeads, HandlerType DEF Types
<1>3. \A d \in Directions : Len(armed'[d]) = Len(armed[d]) + 1
  BY <1>2, AppendProperties DEF Arms, WaitsFor, Types
<1>4. ToRead' = ToRead + 1 /\ ToWrite' = ToWrite + 1 /\ ToRun' = ToRun
  BY <1>3 DEF Arms, Directions, ToRead, ToWrite, ToRun
<1>5. ToRead \in Nat /\ ToWrite \in Nat /\ ToRun \in Nat
  BY WaitingType
<1> QED
  BY ONLY <1>4, <1>5 DEF Waiting

LEMMA ReadyKeeps ==
  ASSUME Types, NEW ds \in SUBSET Directions, SocketReady(ds)
  PROVE  Waiting' = Waiting
<1> DEFINE w == IF "write" \in ds THEN armed["write"] ELSE << >>
           r == IF "read" \in ds THEN armed["read"] ELSE << >>
           wNum == Len(w)
           rNum == Len(r)
<1>1. w \in Seq(Handlers) /\ r \in Seq(Handlers) /\ Len(<< >>) = 0
  BY EmptySeq DEF Directions, Types
<1>2. Len(ready') = Len(ready) + Len(w) + Len(r)
  <2>1. ready' = ready \o w \o r /\ ready \in Seq(Handlers)
    BY DEF SocketReady, Types
  <2> HIDE DEF w, r
  <2>2. /\ ready \o w \in Seq(Handlers)
        /\ Len(ready \o w) = Len(ready) + Len(w)
    BY <1>1, <2>1, ConcatProperties
  <2>3. Len(ready \o w \o r) = Len(ready \o w) + Len(r)
    BY <1>1, <2>2, ConcatProperties
  <2> QED
    BY <2>1, <2>2, <2>3
<1>3. ToRun' = ToRun + wNum + rNum
  BY <1>2 DEF ToRun
<1>4. \/ ToRead' = 0 /\ rNum = ToRead
      \/ ToRead' = ToRead /\ rNum = 0
  BY <1>1 DEF SocketReady, Directions, ToRead
<1>5. \/ ToWrite' = 0 /\ wNum = ToWrite
      \/ ToWrite' = ToWrite /\ wNum = 0
  BY <1>1 DEF SocketReady, Directions, ToWrite
<1>6. ToRead \in Nat /\ ToWrite \in Nat /\ ToRun \in Nat
  BY WaitingType
<1> HIDE DEF wNum, rNum
<1> QED
  BY ONLY <1>3, <1>4, <1>5, <1>6 DEF Waiting

LEMMA ReconnectKeeps ==
  ASSUME Types, FailsToReconnect
  PROVE  Waiting' = Waiting
<1>1. /\ armed["read"] \in Seq(Handlers) /\ armed["write"] \in Seq(Handlers)
      /\ ready \in Seq(Handlers) /\ Len(<< >>) = 0
  BY EmptySeq DEF Directions, Types
<1>2. Len(ready') = Len(ready) + Len(armed["read"]) + Len(armed["write"])
  <2>1. /\ ready \o armed["read"] \in Seq(Handlers)
        /\ Len(ready \o armed["read"]) = Len(ready) + Len(armed["read"])
    BY <1>1, ConcatProperties
  <2>2. Len(ready \o armed["read"] \o armed["write"])
          = Len(ready \o armed["read"]) + Len(armed["write"])
    BY <1>1, <2>1, ConcatProperties
  <2> QED
    BY <2>1, <2>2 DEF FailsToReconnect
<1>3. ToRun' = ToRun + ToRead + ToWrite /\ ToRead' = 0 /\ ToWrite' = 0
  BY <1>1, <1>2 DEF FailsToReconnect, Directions, ToRun, ToRead, ToWrite
<1>4. ToRead \in Nat /\ ToWrite \in Nat /\ ToRun \in Nat
  BY WaitingType
<1> QED
  BY ONLY <1>3, <1>4 DEF Waiting

LEMMA TakesOne ==
  ASSUME Types, NEW t \in Threads, Takes(t)
  PROVE  Waiting' = Waiting - 1
<1>1. Len(ready') = Len(ready) - 1
  BY HeadTailProperties DEF Takes, Types
<1>2. ToRun' = ToRun - 1 /\ ToRead' = ToRead /\ ToWrite' = ToWrite
  BY <1>1 DEF Takes, ToRead, ToWrite, ToRun
<1>3. ToRead \in Nat /\ ToWrite \in Nat /\ ToRun \in Nat
  BY WaitingType
<1> QED
  BY ONLY <1>2, <1>3 DEF Waiting

LEMMA StillAddsOne ==
  ASSUME Types, NEW t \in Threads, StillWorking(t)
  PROVE  Waiting' = Waiting + 1
<1> DEFINE h == handler[t]
<1>1. h \in Handlers /\ h.dir \in {"read", "write"}
  BY DEF Handlers, Types, Directions
<1>2. armed' = [armed EXCEPT ![h.dir] = Append(armed[h.dir], h)] /\ ready' = ready
  BY DEF StillWorking
<1> HIDE DEF h
<1>3. Len(armed'[h.dir]) = Len(armed[h.dir]) + 1
  BY <1>1, <1>2, AppendProperties DEF Types, Directions
<1>4. \A d \in Directions : d # h.dir => armed'[d] = armed[d]
  BY <1>2 DEF Types
<1>5. /\ ToRun' = ToRun
      /\ \/ ToRead' = ToRead + 1 /\ ToWrite' = ToWrite
         \/ ToWrite' = ToWrite + 1 /\ ToRead' = ToRead
  BY <1>1, <1>2, <1>3, <1>4 DEF Directions, ToRead, ToWrite, ToRun
<1>6. ToRead \in Nat /\ ToWrite \in Nat /\ ToRun \in Nat
  BY WaitingType
<1> QED
  BY ONLY <1>5, <1>6 DEF Waiting

LEMMA WaitingAlike == UNCHANGED <<armed, ready>> => Waiting' = Waiting
BY DEF Waiting, ToRead, ToWrite, ToRun

LEMMA NextBalance ==
  Types /\ BeforeCalls /\ Balance /\ [Next]_vars => Balance'
<1> SUFFICES ASSUME Types, BeforeCalls, Balance, [Next]_vars, calls' > 0, ~late'
             PROVE  Balance'
  BY DEF Balance
<1> DEFINE Goal == /\ at'["io"] = "done"
                   /\ at'["caller"] \in {"arm", "enter", "work"} => ~stopped'
                   /\ Waiting' + (IF at'["caller"] = "work" THEN 1 ELSE 0)
                        >= Len(log') + (IF Armed' THEN 2 ELSE 0)
                   /\ todo' # << >> => Len(log') + Len(Left')
                                         \in {Len(Phases), Len(Listening)}
<1> SUFFICES Goal
  BY DEF Balance
<1>1. /\ Waiting \in Nat /\ Len(log) \in Nat /\ Len(todo) \in Nat
      /\ ToRead \in Nat /\ ToWrite \in Nat /\ ToRun \in Nat
  BY WaitingType
<1>2. CASE Calls /\ at' = [at EXCEPT !["caller"] = "reset"]
           /\ todo' \in {Phases, Listening}
  <2>1. at["io"] = "done"
    BY <1>2 DEF Calls
  <2>2. /\ at'["io"] = "done" /\ at'["caller"] = "reset"
        /\ log' = << >> /\ Len(log') = 0 /\ Waiting' = Waiting
    BY <1>2, <2>1, EmptySeq
    DEF Calls, Types, Threads, Waiting, ToRead, ToWrite, ToRun, contextVars
  <2>3. ~Armed' /\ Left' = todo'
    BY <2>2 DEF Armed, Left
  <2>4. /\ Len(log') + Len(Left') \in {Len(Phases), Len(Listening)}
        /\ Waiting' >= Len(log')
    BY <1>1, <1>2, <2>2, <2>3 DEF Phases, Listening
  <2> QED
    BY <2>2, <2>3, <2>4, <1>1
<1>3. CASE Calls /\ UNCHANGED <<at, todo>>
  <2>1. at["io"] = "done" /\ at["caller"] = "idle" /\ todo = << >>
    BY <1>3 DEF Calls, Types, Under
  <2>2. log' = << >> /\ Len(log') = 0 /\ Waiting' = Waiting
    BY <1>3, EmptySeq DEF Calls, Waiting, ToRead, ToWrite, ToRun, contextVars
  <2>3. ~Armed'
    BY <1>3, <2>1 DEF Armed
  <2>4. Waiting' + 0 >= Len(log') + 0
    BY <1>1, <2>2
  <2> QED
    BY <1>3, <2>1, <2>3, <2>4
<1>4. CASE ~Calls
  <2>1. calls' = calls /\ late' = late
    BY <1>4 DEF Next, Caller, Connects, FailsToReconnect, CallsCommand,
         CallsForwarding, Destroys, Resets, Arms, PhaseEnds, IoLeaves, Breaks,
         Run, Enters, Takes, Drops,
         WorkDone, StillWorking, Throws, SocketReady, sessionVars, vars
  <2>2. /\ at["io"] = "done"
        /\ at["caller"] \in {"arm", "enter", "work"} => ~stopped
        /\ Waiting + (IF at["caller"] = "work" THEN 1 ELSE 0)
             >= Len(log) + (IF Armed THEN 2 ELSE 0)
        /\ todo # << >> => Len(log) + Len(Left) \in {Len(Phases), Len(Listening)}
    BY <2>1 DEF Balance
  <2> USE DEF Types, Threads
  <2>3. CASE Connects
    <3>1. UNCHANGED <<at, stopped, armed, ready, todo, log>>
      BY <2>2, <2>3 DEF Connects, contextVars
    <3> QED
      BY <2>2, <3>1 DEF Waiting, ToRead, ToWrite, ToRun, Armed, Left
  <2>4. CASE Destroys
    <3>1. UNCHANGED <<at, stopped, armed, ready, todo, log>>
      BY <2>2, <2>4 DEF Destroys, contextVars
    <3> QED
      BY <2>2, <3>1 DEF Waiting, ToRead, ToWrite, ToRun, Armed, Left
  <2>18. CASE FailsToReconnect
    <3>1. UNCHANGED <<at, todo, log, stopped>>
      BY <2>18 DEF FailsToReconnect
    <3>2. Armed' = Armed /\ Left' = Left
      BY <3>1 DEF Armed, Left
    <3>3. Waiting' = Waiting
      BY <2>18, ReconnectKeeps
    <3> QED
      BY <2>2, <3>1, <3>2, <3>3
  <2>5. CASE Breaks \/ UNCHANGED vars
    <3>1. UNCHANGED <<at, stopped, armed, ready, todo, log>>
      BY <2>5 DEF Breaks, vars, contextVars
    <3> QED
      BY <2>2, <3>1 DEF Waiting, ToRead, ToWrite, ToRun, Armed, Left
  <2>6. CASE Resets
    <3>1. /\ at["caller"] = "reset" /\ at'["caller"] = "arm"
          /\ at'["io"] = at["io"] /\ stopped' = FALSE
          /\ UNCHANGED <<todo, log>> /\ Waiting' = Waiting
      BY <2>6 DEF Resets, StoppedAfterReset, Waiting, ToRead, ToWrite, ToRun
    <3>2. ~Armed /\ ~Armed' /\ Left' = Left
      BY <3>1 DEF Armed, Left
    <3> QED
      BY <2>2, <3>1, <3>2
  <2>7. CASE Arms
    <3>1. /\ at["caller"] = "arm" /\ at'["caller"] = "enter"
          /\ at'["io"] = at["io"] /\ UNCHANGED <<todo, log, stopped, ready>>
          /\ todo # << >>
      BY <2>7 DEF Arms, Under
    <3>2. Left' = Left /\ ~Armed /\ Armed'
      BY <3>1 DEF Armed, Left
    <3>3. Waiting' = Waiting + 2
      BY <2>7, ArmsAddTwo
    <3>4. Waiting' + 0 >= Len(log') + 2
      BY <1>1, <2>2, <3>1, <3>2, <3>3
    <3> QED
      BY <2>2, <3>1, <3>2, <3>4
  <2>8. ASSUME NEW ds \in SUBSET Directions, SocketReady(ds)
        PROVE  Goal
    <3>1. UNCHANGED <<at, todo, log, stopped>>
      BY <2>8 DEF SocketReady
    <3>2. Armed' = Armed /\ Left' = Left
      BY <3>1 DEF Armed, Left
    <3>3. Waiting' = Waiting
      BY <2>8, ReadyKeeps
    <3> QED
      BY <2>2, <3>1, <3>2, <3>3
  <2>9. ASSUME NEW t \in Threads, Enters(t)
        PROVE  Goal
    <3>1. t = "caller" /\ at["caller"] = "enter" /\ ~stopped /\ Armed
      BY <2>2, <2>9 DEF Enters, Armed
    <3>2. Waiting >= 2
      BY <1>1, <2>2, <3>1
    <3>3. ~OutOfWork
      <4> SUFFICES ASSUME OutOfWork
                   PROVE  FALSE
        OBVIOUS
      <4>1. Waiting = 0
        BY EmptySeq DEF OutOfWork, Waiting, ToRead, ToWrite, ToRun, Directions
      <4> QED
        BY <3>2, <4>1
    <3>4. /\ at'["caller"] = "run" /\ at'["io"] = at["io"] /\ ~stopped'
          /\ UNCHANGED <<todo, log>> /\ Waiting' = Waiting
      BY <2>9, <3>1, <3>3 DEF Enters, Waiting, ToRead, ToWrite, ToRun
    <3>5. Armed' /\ Left' = Left
      BY <3>1, <3>4 DEF Armed, Left
    <3> QED
      BY <2>2, <3>1, <3>4, <3>5
  <2>10. ASSUME NEW t \in Threads, Takes(t)
         PROVE  Goal
    <3>1. t = "caller" /\ at["caller"] = "run" /\ ~stopped /\ Armed
      BY <2>2, <2>10 DEF Takes, Armed
    <3>2. /\ at'["caller"] = "work" /\ at'["io"] = at["io"]
          /\ UNCHANGED <<todo, log, stopped, armed>>
          /\ ready # << >> /\ ready' = Tail(ready)
      BY <2>10, <3>1 DEF Takes
    <3>3. Armed' /\ Left' = Left
      BY <3>1, <3>2 DEF Armed, Left
    <3>5. Waiting' = Waiting - 1
      BY <2>10, TakesOne
    <3>6. Waiting' + 1 >= Len(log') + 2
      BY <1>1, <2>2, <3>1, <3>2, <3>5
    <3> QED
      BY <2>2, <3>1, <3>2, <3>3, <3>6
  <2>11. ASSUME NEW t \in Threads, Drops(t)
         PROVE  Goal
    BY <2>2, <2>11 DEF Drops
  <2>12. ASSUME NEW t \in Threads, WorkDone(t)
         PROVE  Goal
    <3>1. t = "caller" /\ at["caller"] = "work" /\ Armed /\ todo # << >>
      BY <2>2, <2>12 DEF WorkDone, Armed, Under
    <3>2. /\ at'["caller"] = "run" /\ at'["io"] = at["io"] /\ stopped' = TRUE
          /\ UNCHANGED <<todo, armed, ready>>
          /\ log' = Append(log, handler[t].work)
      BY <2>12, <3>1 DEF WorkDone, StoppedByWork
    <3>3. Waiting' = Waiting
      BY <3>2 DEF Waiting, ToRead, ToWrite, ToRun
    <3>4. Len(log') = Len(log) + 1
      <4>1. handler[t].work \in Works
        BY DEF Handlers
      <4> QED
        BY <3>2, <4>1, AppendProperties
    <3>5. ~Armed' /\ Left = todo /\ Left' = Tail(todo)
      BY <3>1, <3>2 DEF Armed, Left
    <3>6. LeftNum' = LeftNum - 1 /\ LeftNum \in Nat
      <4>1. todo \in Todos /\ todo # << >>
        BY <3>1
      <4>2. Len(Tail(todo)) = Len(todo) - 1 /\ Len(todo) \in Nat
        BY ONLY <4>1, TodoHeads
      <4> QED
        BY <3>5, <4>2 DEF LeftNum
    <3>7. Len(log') + Len(Left') = Len(log) + Len(Left)
      <4>1. Len(log') + LeftNum' = Len(log) + LeftNum
        BY ONLY <1>1, <3>4, <3>6
      <4> QED
        BY ONLY <4>1 DEF LeftNum
    <3>8. Waiting' + 0 >= Len(log') + 0
      BY <1>1, <2>2, <3>1, <3>3, <3>4
    <3> QED
      BY <2>2, <3>1, <3>2, <3>5, <3>7, <3>8
  <2>13. ASSUME NEW t \in Threads, StillWorking(t)
         PROVE  Goal
    <3> DEFINE h == handler[t]
    <3>1. t = "caller" /\ at["caller"] = "work" /\ Armed /\ ~stopped
      BY <2>2, <2>13 DEF StillWorking, Armed
    <3>2. /\ at'["caller"] = "run" /\ at'["io"] = at["io"]
          /\ UNCHANGED <<todo, log, stopped, ready>>
          /\ armed' = [armed EXCEPT ![h.dir] = Append(armed[h.dir], h)]
      BY <2>13, <3>1 DEF StillWorking
    <3>3. Armed' /\ Left' = Left
      BY <3>1, <3>2 DEF Armed, Left
    <3>7. Waiting' = Waiting + 1
      BY <2>13, StillAddsOne
    <3>8. Waiting' + 0 >= Len(log') + 2
      BY <1>1, <2>2, <3>1, <3>2, <3>7
    <3> QED
      BY <2>2, <3>1, <3>2, <3>3, <3>8
  <2>14. ASSUME NEW t \in Threads, Throws(t)
         PROVE  Goal
    <3>1. t = "caller" /\ at["caller"] = "work" /\ Armed
      BY <2>2, <2>14 DEF Throws, Armed
    <3>2. /\ at'["caller"] = "idle" /\ at'["io"] = at["io"] /\ todo' = << >>
          /\ log' = log /\ Waiting' = Waiting
      BY <2>14, <3>1 DEF Throws, Waiting, ToRead, ToWrite, ToRun, contextVars
    <3>3. ~Armed'
      BY <3>2 DEF Armed
    <3>4. Waiting' + 0 >= Len(log') + 0
      BY <1>1, <2>2, <3>1, <3>2
    <3> QED
      BY <2>2, <3>2, <3>3, <3>4
  <2>15. CASE IoLeaves
    BY <2>2, <2>15 DEF IoLeaves
  <2>16. CASE PhaseEnds
    <3>1. at["caller"] = "run" /\ todo # << >>
      BY <2>16 DEF PhaseEnds, Under
    <3>2. stopped
      <4> SUFFICES ASSUME ~stopped
                   PROVE  FALSE
        OBVIOUS
      <4>1. Armed /\ OutOfWork
        BY <2>16, <3>1 DEF PhaseEnds, Armed
      <4>2. Waiting = 0
        BY <4>1, EmptySeq DEF OutOfWork, Waiting, ToRead, ToWrite, ToRun, Directions
      <4> QED
        BY <1>1, <2>2, <3>1, <4>1, <4>2
    <3>3. /\ at'["caller"] \in {"idle", "reset"} /\ at'["io"] = at["io"]
          /\ todo' = Tail(todo) /\ log' = log /\ Waiting' = Waiting
      BY <2>16 DEF PhaseEnds, Waiting, ToRead, ToWrite, ToRun
    <3>4. ~Armed /\ ~Armed' /\ Left = Tail(todo) /\ Left' = Tail(todo)
      BY <3>1, <3>2, <3>3 DEF Armed, Left
    <3> QED
      BY <2>2, <3>1, <3>3, <3>4
  <2> QED
    BY <1>4, <2>18, <2>3, <2>4, <2>5, <2>6, <2>7, <2>8, <2>9, <2>10, <2>11, <2>12, <2>13,
       <2>14, <2>15, <2>16 DEF Next, Caller, CallsCommand, CallsForwarding, Run
<1> QED
  <2>1. CASE CallsCommand
    BY <1>2, <2>1 DEF CallsCommand
  <2>2. CASE CallsForwarding
    BY <1>2, <1>3, <2>2 DEF CallsForwarding
  <2>3. CASE ~CallsCommand /\ ~CallsForwarding
    <3>1. ~Calls
      BY <2>3, OnlyCallsCall
    <3> QED
      BY <1>4, <3>1
  <2> QED
    BY <2>1, <2>2, <2>3

LEMMA BalanceAlways == Spec => [](Types /\ BeforeCalls /\ Balance)
BY InitTypes, NextTypes, InitBalance, NextBeforeCalls, NextBalance, PTL DEF Spec

(* As long as threadIo is not late, each phase does one work, whatever     *)
(* handlers earlier phases and calls have left, and however often they     *)
(* threw.                                                                  *)
THEOREM OneWorkPerPhase == Spec => []OnePerPhase
<1>1. Types /\ BeforeCalls /\ Balance => OnePerPhase
  BY DEF Types, BeforeCalls, Balance, OnePerPhase
<1> QED
  BY <1>1, BalanceAlways, PTL

(* A call leaves at least as many handlers as it did works, for the next   *)
(* one to trip over.                                                       *)
THEOREM HandlersStay == Spec => []LeavesHandlers
<1>1. ASSUME Types, BeforeCalls, Balance, at["caller"] = "idle", ~late
      PROVE  Waiting >= Len(log)
  <2>1. Waiting \in Nat /\ Len(log) \in Nat
    BY <1>1, WaitingType
  <2>2. CASE calls = 0
    BY <1>1, <2>1, <2>2, EmptySeq DEF BeforeCalls
  <2>3. CASE calls > 0
    <3>1. ~Armed
      BY <1>1 DEF Armed
    <3> QED
      BY <1>1, <2>1, <2>3, <3>1 DEF Balance
  <2> QED
    BY <1>1, <2>2, <2>3 DEF Types
<1>2. Types /\ BeforeCalls /\ Balance => LeavesHandlers
  BY <1>1 DEF LeavesHandlers, Waiting, ToRead, ToWrite, ToRun
<1> QED
  BY <1>2, BalanceAlways, PTL

-----------------------------------------------------------------------------
(* With threadIo late or not: what keeps run() from returning too soon.    *)
InHands == InHand("caller") + InHand("io")

LEMMA InHandsType == InHands \in Nat /\ InHands' \in Nat
BY DEF InHands, InHand

LEMMA AllHandlers ==
  ASSUME Types, Types'
  PROVE  /\ Len(armed["read"]) + Len(armed["write"]) + Len(ready)
              + InHand("caller") + InHand("io") = Waiting + InHands
         /\ Len(armed'["read"]) + Len(armed'["write"]) + Len(ready')
              + InHand("caller")' + InHand("io")' = Waiting' + InHands'
<1> DEFINE inCaller == InHand("caller")
           inIo == InHand("io")
<1>1. inCaller \in Nat /\ inIo \in Nat /\ inCaller' \in Nat /\ inIo' \in Nat
  BY DEF InHand
<1>2. /\ ToRead \in Nat /\ ToWrite \in Nat /\ ToRun \in Nat
      /\ ToRead' \in Nat /\ ToWrite' \in Nat /\ ToRun' \in Nat
  BY LenProperties DEF Types, Directions, ToRead, ToWrite, ToRun
<1>3. InHands = inCaller + inIo /\ InHands' = inCaller' + inIo'
  BY DEF InHands
<1> HIDE DEF inCaller, inIo
<1>4. /\ ToRead + ToWrite + ToRun + inCaller + inIo = Waiting + InHands
      /\ ToRead' + ToWrite' + ToRun' + inCaller' + inIo' = Waiting' + InHands'
  BY ONLY <1>1, <1>2, <1>3 DEF Waiting
<1> QED
  BY <1>4 DEF ToRead, ToWrite, ToRun, inCaller, inIo

LEMMA InitStarves == Init => NeverStarves
BY DEF Init, NeverStarves

(* A phase is being run and no work is done.                               *)
InPhase == ~stopped /\ at["caller"] \in {"enter", "run", "work"}

LEMMA NextStarves == Types /\ Types' /\ NeverStarves /\ [Next]_vars => NeverStarves'
<1> SUFFICES ASSUME Types, Types', NeverStarves, [Next]_vars, ~stopped',
                    at'["caller"] \in {"enter", "run", "work"}
             PROVE  Waiting' + InHands' >= 2
  BY AllHandlers DEF NeverStarves
<1> USE DEF Types, Threads
<1>0. Waiting \in Nat /\ InHands \in Nat /\ InHands' \in Nat
  BY WaitingType, InHandsType
<1>1. InPhase => Waiting + InHands >= 2
  BY AllHandlers DEF NeverStarves, InPhase
<1>2. CASE /\ UNCHANGED <<armed, ready>> /\ ~stopped
           /\ at["caller"] \in {"enter", "run", "work"}
           /\ \A t \in Threads : at'[t] = "work" <=> at[t] = "work"
  <2>1. Waiting' = Waiting /\ InHands' = InHands
    BY <1>2, WaitingAlike DEF InHands, InHand
  <2>2. InPhase
    BY <1>2 DEF InPhase
  <2> QED
    BY <1>1, <2>1, <2>2
<1>3. CASE (Caller /\ ~FailsToReconnect) \/ Breaks \/ UNCHANGED vars
  <2>1. UNCHANGED <<armed, ready, stopped>>
    BY <1>3 DEF Caller, Connects, CallsCommand, CallsForwarding, Calls, Destroys,
         Breaks, vars, contextVars
  <2>2. at["caller"] = at'["caller"] /\ (at'["io"] = "work" <=> at["io"] = "work")
    BY <1>3 DEF Caller, Connects, CallsCommand, CallsForwarding, Calls, Destroys,
         Breaks, vars
  <2> QED
    BY <1>2, <2>1, <2>2
<1>18. CASE FailsToReconnect
  BY <1>18 DEF FailsToReconnect
<1>4. CASE Resets \/ PhaseEnds \/ IoLeaves
  BY <1>4 DEF Resets, PhaseEnds, IoLeaves
<1>5. CASE Arms
  <2>1. Waiting' = Waiting + 2
    BY <1>5, ArmsAddTwo
  <2>2. \A i, j \in Nat : (i + 2) + j >= 2
    OBVIOUS
  <2> QED
    BY <1>0, <2>1, <2>2
<1>6. ASSUME NEW ds \in SUBSET Directions, SocketReady(ds)
      PROVE  Waiting' + InHands' >= 2
  <2>1. Waiting' = Waiting
    BY <1>6, ReadyKeeps
  <2>2. UNCHANGED <<at, stopped>>
    BY <1>6 DEF SocketReady
  <2>3. InHands' = InHands /\ InPhase
    BY <2>2 DEF InHands, InHand, InPhase
  <2> QED
    BY <1>1, <2>1, <2>3
<1>7. ASSUME NEW t \in Threads, Enters(t)
      PROVE  Waiting' + InHands' >= 2
  <2>1. /\ UNCHANGED <<armed, ready>> /\ ~stopped
        /\ at[t] = "enter" /\ at' = [at EXCEPT ![t] = "run"]
    BY <1>7 DEF Enters
  <2> QED
    BY <1>2, <2>1
<1>8. ASSUME NEW t \in Threads, Takes(t)
      PROVE  Waiting' + InHands' >= 2
  <2>1. Waiting' = Waiting - 1
    BY <1>8, TakesOne
  <2>2. /\ ~stopped /\ at[t] = "run" /\ at' = [at EXCEPT ![t] = "work"]
    BY <1>8 DEF Takes
  <2>3. InHands' = InHands + 1
    <3>1. CASE t = "caller"
      BY <2>2, <3>1 DEF InHands, InHand
    <3>2. CASE t = "io"
      BY <2>2, <3>2 DEF InHands, InHand
    <3> QED
      BY <3>1, <3>2
  <2>4. InPhase
    BY <2>2 DEF InPhase
  <2> QED
    BY ONLY <1>0, <1>1, <2>1, <2>3, <2>4
<1>9. ASSUME NEW t \in Threads, Drops(t)
      PROVE  FALSE
  BY <1>9 DEF Drops, contextVars
<1>10. ASSUME NEW t \in Threads, WorkDone(t)
       PROVE  FALSE
  BY <1>10 DEF WorkDone, StoppedByWork
<1>11. ASSUME NEW t \in Threads, StillWorking(t)
       PROVE  Waiting' + InHands' >= 2
  <2>1. Waiting' = Waiting + 1
    BY <1>11, StillAddsOne
  <2>2. /\ ~stopped /\ at[t] = "work" /\ at' = [at EXCEPT ![t] = "run"]
    BY <1>11 DEF StillWorking
  <2>3. InHands' = InHands - 1
    <3>1. CASE t = "caller"
      BY <2>2, <3>1 DEF InHands, InHand
    <3>2. CASE t = "io"
      BY <2>2, <3>2 DEF InHands, InHand
    <3> QED
      BY <3>1, <3>2
  <2>4. InPhase
    BY <2>2 DEF InPhase
  <2> QED
    BY ONLY <1>0, <1>1, <2>1, <2>3, <2>4
<1>12. ASSUME NEW t \in Threads, Throws(t)
       PROVE  Waiting' + InHands' >= 2
  <2>1. t = "io" /\ UNCHANGED <<at, armed, ready, stopped>>
    BY <1>12 DEF Throws, contextVars
  <2> QED
    BY <1>2, <2>1
<1> QED
  BY <1>3, <1>4, <1>5, <1>6, <1>7, <1>8, <1>9, <1>10, <1>11, <1>12, <1>18
     DEF Next, Run

(* run() never returns to a phase for want of work, also when threadIo is  *)
(* late and takes handlers or throws; so a phase ends when a work is done, *)
(* or when threadIo stops the io_context.                                  *)
THEOREM PhasesKeepWork == Spec => []NeverStarves
BY InitTypes, NextTypes, InitStarves, NextStarves, PTL DEF Spec

-----------------------------------------------------------------------------
(* When the socket is not readable either: the only handler that may run   *)
(* is the one the phase under way has for writing.                         *)
Own == Handler(Head(todo), "write")

OwnWaits ==
  \/ armed["write"] = <<Own>> /\ ready = << >>
  \/ armed["write"] = << >> /\ ready = <<Own>>

NothingWaits == armed["write"] = << >> /\ ready = << >>

OwnOnly ==
  /\ IF at["caller"] = "enter" \/ (at["caller"] = "run" /\ ~stopped)
     THEN OwnWaits ELSE NothingWaits
  /\ at["caller"] = "work" => handler["caller"] = Own
  /\ todo # << >> => log \o Left \in {Phases, Listening}

Undisturbed == calls > 0 /\ ~late /\ ~surprised => OwnOnly

LEMMA OneElement ==
  ASSUME NEW x
  PROVE  Append(<< >>, x) = <<x>> /\ <<x>> # << >>
OBVIOUS

(* There is work while the own handler waits.                              *)
LEMMA OwnIsWork == OwnWaits => ~OutOfWork
<1>1. <<Own>> # << >>
  BY OneElement
<1> QED
  BY <1>1 DEF OwnWaits, OutOfWork, Directions

LEMMA InitUndisturbed == Init => Undisturbed
BY DEF Init, Undisturbed

LEMMA NextUndisturbed ==
  Types /\ BeforeCalls /\ Balance /\ Undisturbed /\ [Next]_vars => Undisturbed'
<1> SUFFICES ASSUME Types, BeforeCalls, Balance, Undisturbed, [Next]_vars,
                    calls' > 0, ~late', ~surprised'
             PROVE  OwnOnly'
  BY DEF Undisturbed
<1> USE DEF Types, Threads
<1>1. CASE Calls /\ at' = [at EXCEPT !["caller"] = "reset"]
           /\ todo' \in {Phases, Listening}
  <2>1. NothingWaits
    <3>1. CASE calls = 0
      BY <3>1 DEF BeforeCalls, NothingWaits, Directions
    <3>2. CASE calls > 0
      <4>1. ~late /\ ~surprised /\ at["caller"] = "idle"
        BY <1>1 DEF Calls
      <4> QED
        BY <3>2, <4>1 DEF Undisturbed, OwnOnly
    <3> QED
      BY <3>1, <3>2
  <2>2. /\ at'["caller"] = "reset" /\ log' = << >>
        /\ NothingWaits'
    BY <1>1, <2>1 DEF Calls, contextVars, NothingWaits
  <2>3. Left' = todo'
    BY <2>2 DEF Left
  <2>4. log' \o Left' = todo'
    <3>1. todo' \in Seq(Works)
      BY <1>1, TodoHeads DEF Todos
    <3> QED
      BY <2>2, <2>3, <3>1, ConcatEmptySeq
  <2> QED
    BY <1>1, <2>2, <2>4 DEF OwnOnly
<1>2. CASE Calls /\ UNCHANGED <<at, todo>>
  <2>1. at["caller"] = "idle" /\ todo = << >>
    BY <1>2 DEF Calls, Under
  <2>2. NothingWaits
    <3>1. CASE calls = 0
      BY <3>1 DEF BeforeCalls, NothingWaits, Directions
    <3>2. CASE calls > 0
      <4>1. ~late /\ ~surprised
        BY <1>2 DEF Calls
      <4> QED
        BY <2>1, <3>2, <4>1 DEF Undisturbed, OwnOnly
    <3> QED
      BY <3>1, <3>2
  <2>3. NothingWaits'
    BY <1>2, <2>2 DEF Calls, contextVars, NothingWaits
  <2> QED
    BY <1>2, <2>1, <2>3 DEF OwnOnly
<1>3. CASE ~Calls
  <2>1. calls' = calls /\ late' = late /\ ~surprised
    BY <1>3 DEF Next, Caller, Connects, FailsToReconnect, CallsCommand,
         CallsForwarding, Destroys, Resets, Arms, PhaseEnds, IoLeaves, Breaks,
         Run, Enters, Takes, Drops,
         WorkDone, StillWorking, Throws, SocketReady, sessionVars, vars
  <2>2. OwnOnly
    BY <2>1 DEF Undisturbed
  <2>3. /\ at["io"] = "done"
        /\ at["caller"] \in {"arm", "enter", "work"} => ~stopped
    BY <2>1 DEF Balance
  <2>17. ~FailsToReconnect
    BY DEF FailsToReconnect
  <2>4. CASE /\ UNCHANGED <<stopped, armed, ready, todo, log, handler>>
             /\ at'["caller"] = at["caller"]
    BY <2>2, <2>4 DEF OwnOnly, OwnWaits, NothingWaits, Own, Left
  <2>5. CASE Connects \/ Destroys \/ Breaks \/ UNCHANGED vars
    <3>1. UNCHANGED <<stopped, armed, ready, todo, log, handler>>
      BY <2>5 DEF Connects, Destroys, Breaks, vars, contextVars
    <3>2. CASE at'["caller"] = at["caller"]
      BY <2>4, <3>1, <3>2
    <3>3. CASE at["caller"] = "idle" /\ at'["caller"] = "gone"
      BY <2>2, <3>1, <3>3 DEF OwnOnly, NothingWaits, Left
    <3> QED
      BY <2>3, <2>5, <3>2, <3>3 DEF Connects, Destroys, Breaks, vars
  <2>6. CASE Resets
    <3>1. /\ at["caller"] = "reset" /\ at'["caller"] = "arm"
          /\ UNCHANGED <<armed, ready, todo, log, handler>>
      BY <2>6 DEF Resets
    <3> QED
      BY <2>2, <3>1 DEF OwnOnly, NothingWaits, Left
  <2>7. CASE Arms
    <3>1. /\ at["caller"] = "arm" /\ at'["caller"] = "enter"
          /\ UNCHANGED <<ready, todo, log, handler>>
      BY <2>7 DEF Arms
    <3>2. armed["write"] = << >> /\ ready = << >>
      BY <2>2, <3>1 DEF OwnOnly, NothingWaits
    <3>3. armed'["write"] = <<Own>>
      <4>1. armed'["write"] = Append(armed["write"], Own)
        BY <2>7 DEF Arms, WaitsFor, Directions, Own
      <4> QED
        BY <3>2, <4>1, OneElement
    <3>4. OwnWaits'
      BY <3>1, <3>2, <3>3 DEF OwnWaits, Own
    <3> QED
      BY <2>2, <3>1, <3>4 DEF OwnOnly, Left
  <2>8. ASSUME NEW ds \in SUBSET Directions, SocketReady(ds)
        PROVE  OwnOnly'
    <3>1. /\ at["caller"] = "run" /\ ~stopped
          /\ UNCHANGED <<at, todo, log, handler, stopped>>
      BY <2>3, <2>8 DEF SocketReady
    <3>2. OwnWaits
      BY <2>2, <3>1 DEF OwnOnly
    <3>3. "read" \notin ds
      BY <2>8 DEF SocketReady
    <3>4. "write" \in ds /\ armed["write"] # << >>
      BY <2>8, <3>3 DEF SocketReady, Directions
    <3>5. armed["write"] = <<Own>> /\ ready = << >>
      BY <3>2, <3>4 DEF OwnWaits
    <3>6. ready' = << >> \o <<Own>> \o << >> /\ armed'["write"] = << >>
      BY <2>8, <3>3, <3>4, <3>5 DEF SocketReady, Directions
    <3>7. ready' = <<Own>>
      BY <3>6
    <3>8. OwnWaits'
      BY <3>1, <3>6, <3>7 DEF OwnWaits, Own
    <3> QED
      BY <2>2, <3>1, <3>8 DEF OwnOnly, Left
  <2>9. ASSUME NEW t \in Threads, Enters(t)
        PROVE  OwnOnly'
    <3>1. t = "caller" /\ at["caller"] = "enter" /\ ~stopped
      BY <2>3, <2>9 DEF Enters
    <3>2. OwnWaits
      BY <2>2, <3>1 DEF OwnOnly
    <3>3. ~OutOfWork
      BY <3>2, OwnIsWork
    <3>4. /\ at'["caller"] = "run" /\ ~stopped'
          /\ UNCHANGED <<armed, ready, todo, log, handler>>
      BY <2>9, <3>1, <3>3 DEF Enters
    <3>5. OwnWaits'
      BY <3>2, <3>4 DEF OwnWaits, Own
    <3> QED
      BY <2>2, <3>1, <3>4, <3>5 DEF OwnOnly, Left
  <2>10. ASSUME NEW t \in Threads, Takes(t)
         PROVE  OwnOnly'
    <3>1. t = "caller" /\ at["caller"] = "run" /\ ~stopped
      BY <2>3, <2>10 DEF Takes
    <3>2. OwnWaits /\ ready # << >>
      BY <2>2, <2>10, <3>1 DEF OwnOnly, Takes
    <3>3. armed["write"] = << >> /\ ready = <<Own>>
      BY <3>2 DEF OwnWaits
    <3>4. Head(<<Own>>) = Own /\ Tail(<<Own>>) = << >>
      OBVIOUS
    <3>5. /\ at'["caller"] = "work"
          /\ UNCHANGED <<armed, todo, log, stopped>>
          /\ ready' = << >> /\ handler'["caller"] = Own
      BY <2>10, <3>1, <3>3, <3>4 DEF Takes
    <3>6. Own' = Own /\ Left' = Left
      BY <3>1, <3>5 DEF Own, Left
    <3> QED
      BY <2>2, <3>3, <3>5, <3>6 DEF OwnOnly, NothingWaits
  <2>11. ASSUME NEW t \in Threads, Drops(t)
         PROVE  OwnOnly'
    BY <2>3, <2>11 DEF Drops
  <2>12. ASSUME NEW t \in Threads, WorkDone(t)
         PROVE  OwnOnly'
    <3>1. t = "caller" /\ at["caller"] = "work" /\ todo # << >>
      BY <2>3, <2>12 DEF WorkDone, Under
    <3>2. NothingWaits /\ handler["caller"] = Own
      BY <2>2, <3>1 DEF OwnOnly
    <3>3. handler["caller"].work = Head(todo)
      BY <3>2 DEF Own, Handler
    <3>4. /\ at'["caller"] = "run" /\ stopped' = TRUE
          /\ UNCHANGED <<armed, ready, todo>>
          /\ log' = Append(log, Head(todo))
      BY <2>12, <3>1, <3>3 DEF WorkDone, StoppedByWork
    <3>5. Left = todo /\ Left' = Tail(todo)
      BY <3>1, <3>4 DEF Left
    <3>6. log' \o Left' = log \o Left
      <4>1. todo \in Seq(Works) /\ log \in Seq(Works)
        BY TodoHeads
      <4>2. Append(log, Head(todo)) \o Tail(todo) = log \o todo
        BY ONLY <3>1, <4>1
      <4> QED
        BY <3>4, <3>5, <4>2
    <3> QED
      BY <2>2, <3>1, <3>2, <3>4, <3>6 DEF OwnOnly, NothingWaits
  <2>13. ASSUME NEW t \in Threads, StillWorking(t)
         PROVE  OwnOnly'
    <3>1. t = "caller" /\ at["caller"] = "work" /\ ~stopped
      BY <2>3, <2>13 DEF StillWorking
    <3>2. /\ armed["write"] = << >> /\ ready = << >>
          /\ handler["caller"] = Own
      BY <2>2, <3>1 DEF OwnOnly, NothingWaits
    <3>3. handler["caller"].dir = "write"
      BY <3>2 DEF Own, Handler
    <3>4. /\ at'["caller"] = "run"
          /\ UNCHANGED <<todo, log, stopped, ready, handler>>
          /\ armed'["write"] = <<Own>>
      <4>1. /\ at'["caller"] = "run"
            /\ UNCHANGED <<todo, log, stopped, ready, handler>>
            /\ armed' = [armed EXCEPT !["write"] = Append(armed["write"], Own)]
        BY <2>13, <3>1, <3>2, <3>3 DEF StillWorking
      <4> QED
        BY <3>2, <4>1, OneElement DEF Directions
    <3>5. OwnWaits'
      BY <3>2, <3>4 DEF OwnWaits, Own
    <3> QED
      BY <2>2, <3>1, <3>4, <3>5 DEF OwnOnly, Left
  <2>14. ASSUME NEW t \in Threads, Throws(t)
         PROVE  OwnOnly'
    <3>1. t = "caller" /\ at["caller"] = "work"
      BY <2>3, <2>14 DEF Throws
    <3>2. /\ at'["caller"] = "idle" /\ todo' = << >>
          /\ UNCHANGED <<armed, ready>>
      BY <2>14, <3>1 DEF Throws, contextVars
    <3> QED
      BY <2>2, <3>1, <3>2 DEF OwnOnly, NothingWaits
  <2>15. CASE IoLeaves
    BY <2>3, <2>15 DEF IoLeaves
  <2>16. CASE PhaseEnds
    <3>1. at["caller"] = "run" /\ todo # << >>
      BY <2>16 DEF PhaseEnds, Under
    <3>2. stopped
      <4> SUFFICES ASSUME ~stopped
                   PROVE  FALSE
        OBVIOUS
      <4>1. OwnWaits
        BY <2>2, <3>1 DEF OwnOnly
      <4> QED
        BY <2>16, <4>1, OwnIsWork DEF PhaseEnds
    <3>3. /\ at'["caller"] \in {"idle", "reset"}
          /\ todo' = Tail(todo)
          /\ UNCHANGED <<armed, ready, log, handler>>
      BY <2>16 DEF PhaseEnds
    <3>4. Left = Tail(todo) /\ Left' = Tail(todo)
      BY <3>1, <3>2, <3>3 DEF Left
    <3> QED
      BY <2>2, <3>1, <3>2, <3>3, <3>4 DEF OwnOnly, NothingWaits
  <2> QED
    BY <1>3, <2>5, <2>6, <2>7, <2>8, <2>9, <2>10, <2>11, <2>12, <2>13, <2>14, <2>15,
       <2>16, <2>17 DEF Next, Caller, CallsCommand, CallsForwarding, Run
<1> QED
  <2>1. CASE CallsCommand
    BY <1>1, <2>1 DEF CallsCommand
  <2>2. CASE CallsForwarding
    BY <1>1, <1>2, <2>2 DEF CallsForwarding
  <2>3. CASE ~CallsCommand /\ ~CallsForwarding
    <3>1. ~Calls
      BY <2>3, OnlyCallsCall
    <3> QED
      BY <1>3, <3>1
  <2> QED
    BY <2>1, <2>2, <2>3

(* With threadIo out of the way and a socket that is not readable, the     *)
(* works of every call are done in order, each once, whatever the earlier  *)
(* calls have left waiting.                                                *)
THEOREM InOrder == Spec => []PhasesInOrder
<1>1. ASSUME Types, BeforeCalls, Undisturbed, todo # << >>, ~late, ~surprised
      PROVE  log \o Left \in {Phases, Listening}
  <2>1. calls > 0
    BY <1>1 DEF BeforeCalls, Types
  <2> QED
    BY <1>1, <2>1 DEF Undisturbed, OwnOnly
<1>2. Types /\ BeforeCalls /\ Undisturbed => PhasesInOrder
  BY <1>1 DEF PhasesInOrder
<1> QED
  BY <1>2, BalanceAlways, InitUndisturbed, NextUndisturbed, PTL DEF Spec
===============================================================================
