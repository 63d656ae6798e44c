------------------------------- MODULE Client -------------------------------
(***************************************************************************)
(* ClientImpl::connect, command and forwarding (src/core/Client.cpp) over  *)
(* the io_context of the client.                                           *)
(*                                                                         *)
(* command goes through four phases.  Each resets the io_context, waits    *)
(* for the socket twice, once to be readable and once to be writable, with *)
(* the work of the phase as the handler of both (LoopAsync), and runs the  *)
(* io_context until a work is done and stops it.  The handler that was not *)
(* called stays: in the queue of the socket, if its wait is not over, or   *)
(* in the queue of the io_context, and runs in a later phase.              *)
(*                                                                         *)
(* threadIo, which connect starts, runs the same io_context: it returns at *)
(* once if it finds no work, but it may be late.                           *)
(*                                                                         *)
(* connect, command and forwarding are called by one thread, the caller.   *)
(***************************************************************************)
EXTENDS Naturals, Sequences, SequencesExt

CONSTANTS
  MaxCalls    \* bound: how many times command and forwarding are called

ASSUME ClientAssumption == MaxCalls \in Nat

Phases == <<"create", "exec", "read", "close">>   \* of command
Listening == <<"listen">>                         \* of forwarding
Works == ToSet(Phases) \union ToSet(Listening)

Directions == {"read", "write"}
Threads == {"caller", "io"}

VARIABLES
  alive,     \* the process has not terminated
  connected, \* connect has returned 0
  blocking,  \* the session is in blocking mode
  broken,    \* the SSH connection is lost
  at,        \* where each thread is
  todo,      \* the phases left of the call under way, the current one first
  armed,     \* the handlers waiting for the socket, for each direction
  ready,     \* the handlers whose wait is over, in the io_context
  stopped,   \* the io_context is stopped
  handler,   \* the handler each thread is in
  channels,  \* for each channel opened, whether a command was executed on it
  channel,   \* commandChannel, a position in channels; 0 is nullptr
  calls,     \* how many calls have been made
  log,       \* history: the works done in this call
  late,      \* history: threadIo had not returned when a call began
  surprised  \* history: the socket was readable while a phase waited, or
             \* was closed under the handlers left behind

sessionVars == <<alive, connected, blocking, broken, calls, late>>
contextVars == <<armed, ready, stopped>>
channelVars == <<channels, channel>>
vars == <<at, todo, handler, log, surprised,
          sessionVars, contextVars, channelVars>>

Handlers == [work : Works, dir : Directions]
Handler(w, d) == [work |-> w, dir |-> d]
NoHandler == Handler("create", "read")

Init ==
  /\ alive = TRUE /\ connected = FALSE /\ blocking = TRUE /\ broken = FALSE
  /\ at = [caller |-> "idle", io |-> "none"]
  /\ todo = << >>
  /\ armed = [d \in Directions |-> << >>] /\ ready = << >> /\ stopped = FALSE
  /\ handler = [t \in Threads |-> NoHandler]
  /\ channels = << >> /\ channel = 0
  /\ calls = 0
  /\ log = << >> /\ late = FALSE /\ surprised = FALSE

-----------------------------------------------------------------------------
(* The calls.                                                              *)

(* The handshake is over and threadIo starts; authentication succeeds or   *)
(* not.  A second connect that comes as far replaces a thread that nobody  *)
(* joined, which ends the process.  A first one that fails before threadIo *)
(* starts leaves no trace, and neither does one whose resolver throws.     *)
Connects ==
  /\ at["caller"] = "idle"
  /\ IF at["io"] = "none"
     THEN /\ at' = [at EXCEPT !["io"] = "enter"]
          /\ connected' \in BOOLEAN
          /\ UNCHANGED alive
     ELSE alive' = FALSE /\ UNCHANGED <<connected, at>>
  /\ UNCHANGED <<blocking, broken, calls, late, todo, handler, log, surprised,
                 contextVars, channelVars>>

(* A second connect fails after the resolver and before it comes to        *)
(* threadIo: boost::asio::connect has closed the socket, which ends the    *)
(* waits of the handlers left behind, and the session, the old one or one  *)
(* that has not shaken hands, has no connection.                           *)
FailsToReconnect ==
  /\ at["caller"] = "idle" /\ at["io"] # "none"
  /\ broken' = TRUE /\ blocking' \in {blocking, TRUE}
  /\ ready' = ready \o armed["read"] \o armed["write"]
  /\ armed' = [d \in Directions |-> << >>]
  /\ surprised' = TRUE
  /\ UNCHANGED <<alive, connected, calls, late, at, todo, handler, log, stopped,
                 channelVars>>

Calls ==
  /\ at["caller"] = "idle" /\ connected /\ calls < MaxCalls
  /\ calls' = calls + 1
  /\ log' = << >>
  /\ late' = (late \/ at["io"] # "done")
  /\ UNCHANGED <<alive, connected, broken, handler, surprised, contextVars,
                 channelVars>>

(* command begins with its first phase.                                    *)
CallsCommand ==
  /\ Calls
  /\ todo' = Phases
  /\ at' = [at EXCEPT !["caller"] = "reset"]
  /\ UNCHANGED blocking

(* forwarding listens and accepts, blocking, then leaves blocking mode.  A *)
(* failure of the two ends the call.                                       *)
CallsForwarding ==
  /\ Calls
  /\ \/ /\ ~broken
        /\ todo' = Listening
        /\ at' = [at EXCEPT !["caller"] = "reset"]
        /\ blocking' = FALSE
     \/ blocking' = TRUE /\ UNCHANGED <<at, todo>>

(* The destructor.  Destroying threadIo, which nobody joined, ends the     *)
(* process; a client that never got that far goes away quietly.            *)
Destroys ==
  /\ at["caller"] = "idle"
  /\ IF at["io"] = "none"
     THEN at' = [at EXCEPT !["caller"] = "gone"] /\ UNCHANGED alive
     ELSE alive' = FALSE /\ UNCHANGED at
  /\ channel' = 0
  /\ UNCHANGED <<connected, blocking, broken, calls, late, todo, handler, log,
                 surprised, contextVars, channels>>

-----------------------------------------------------------------------------
(* The phases.                                                             *)

(* Mutant: the io_context is not reset before it is run again.             *)
StoppedAfterNoReset == stopped

(* ioContext.reset()                                                       *)
StoppedAfterReset == FALSE

Resets ==
  /\ at["caller"] = "reset"
  /\ stopped' = StoppedAfterReset
  /\ at' = [at EXCEPT !["caller"] = "arm"]
  /\ UNCHANGED <<todo, handler, log, surprised, sessionVars, armed, ready,
                 channelVars>>

(* Mutant: a phase waits only until the socket is readable.                *)
WaitsForReading(w) ==
  [armed EXCEPT !["read"] = Append(@, Handler(w, "read"))]

(* async_read_some and async_write_some with the work of the phase.        *)
WaitsFor(w) == [d \in Directions |-> Append(armed[d], Handler(w, d))]

Arms ==
  /\ at["caller"] = "arm"
  /\ armed' = WaitsFor(Head(todo))
  /\ at' = [at EXCEPT !["caller"] = "enter"]
  /\ UNCHANGED <<todo, handler, log, surprised, sessionVars, ready, stopped,
                 channelVars>>

(* Nothing waits, is ready or runs.                                        *)
OutOfWork ==
  /\ \A d \in Directions : armed[d] = << >>
  /\ ready = << >>
  /\ \A t \in Threads : at[t] # "work"

(* A thread enters ioContext.run(), which stops an io_context without work.*)
Enters(t) ==
  /\ at[t] = "enter"
  /\ at' = [at EXCEPT ![t] = "run"]
  /\ stopped' = (stopped \/ OutOfWork)
  /\ UNCHANGED <<todo, handler, log, surprised, sessionVars, armed, ready,
                 channelVars>>

(* The socket is ready in the directions ds, as a thread in run() learns.  *)
SocketReady(ds) ==
  /\ ~stopped /\ \E t \in Threads : at[t] = "run"
  /\ \E d \in ds : armed[d] # << >>
  /\ ready' = ready \o (IF "write" \in ds THEN armed["write"] ELSE << >>)
                    \o (IF "read" \in ds THEN armed["read"] ELSE << >>)
  /\ armed' = [d \in Directions |-> IF d \in ds THEN << >> ELSE armed[d]]
  /\ surprised' = (surprised \/ "read" \in ds)
  /\ UNCHANGED <<at, todo, handler, log, sessionVars, stopped, channelVars>>

(* A thread takes the first handler, a call of LoopAsync.                  *)
Takes(t) ==
  /\ at[t] = "run" /\ ~stopped /\ ready # << >>
  /\ handler' = [handler EXCEPT ![t] = Head(ready)]
  /\ ready' = Tail(ready)
  /\ at' = [at EXCEPT ![t] = "work"]
  /\ UNCHANGED <<todo, log, surprised, sessionVars, armed, stopped, channelVars>>

(* LoopAsync returns if the other thread has stopped the io_context.       *)
Drops(t) ==
  /\ at[t] = "work" /\ stopped
  /\ at' = [at EXCEPT ![t] = "run"]
  /\ UNCHANGED <<todo, handler, log, surprised, sessionVars, contextVars,
                 channelVars>>

(* What stands in the way of a work: a lost connection, a channel that is  *)
(* not there, a second command on one channel.                             *)
Refused(w) ==
  \/ broken
  \/ w \in {"exec", "close"} /\ channel = 0
  \/ w = "exec" /\ channel # 0 /\ channels[channel]

(* A channel without a command has nothing to read: the read blocks, or    *)
(* is tried again.                                                         *)
Silent(w) == w = "read" /\ (channel = 0 \/ ~channels[channel])

(* Mutant: commandChannel is one further than the channel opened.          *)
BeyondOpened == Len(channels) + 2

(* The next channel libssh2 opens.                                         *)
Opened == Len(channels) + 1

(* A failure to open a channel leaves commandChannel null.                 *)
FailsToPerform(w) ==
  /\ channel' = IF w = "create" THEN 0 ELSE channel
  /\ UNCHANGED channels

(* What a work that is done has done.                                      *)
Performs(w) ==
  /\ channels' = CASE w = "create" -> Append(channels, FALSE)
                   [] w = "exec"   -> [channels EXCEPT ![channel] = TRUE]
                   [] OTHER        -> channels
  /\ channel' = IF w = "create" THEN Opened ELSE channel

(* Mutant: the io_context is not stopped when a work is done.              *)
StoppedByNothing == stopped

(* ioContext.stop()                                                        *)
StoppedByWork == TRUE

(* The work of a thread is done, and LoopAsync stops the io_context.       *)
WorkDone(t) ==
  LET w == handler[t].work IN
  /\ at[t] = "work" /\ ~Refused(w) /\ ~Silent(w)
  /\ Performs(w)
  /\ log' = Append(log, w)
  /\ stopped' = StoppedByWork
  /\ at' = [at EXCEPT ![t] = "run"]
  /\ UNCHANGED <<todo, handler, surprised, sessionVars, armed, ready>>

(* Mutant: LoopAsync does not wait again.                                  *)
ForgetsToWait(t) ==
  /\ at[t] = "work"
  /\ \/ ~blocking /\ ~broken
     \/ handler[t].work = "read" /\ (broken \/ channel = 0)
  /\ FailsToPerform(handler[t].work)
  /\ at' = [at EXCEPT ![t] = "run"]
  /\ UNCHANGED <<todo, handler, log, surprised, sessionVars, contextVars>>

(* STILL_WORKING, out of blocking mode or because readCommandChannel takes *)
(* any error for it: LoopAsync waits again.                                *)
StillWorking(t) ==
  LET h == handler[t] IN
  /\ at[t] = "work"
  /\ \/ ~blocking /\ ~broken
     \/ h.work = "read" /\ (broken \/ channel = 0)
  /\ armed' = [armed EXCEPT ![h.dir] = Append(@, h)]
  /\ FailsToPerform(h.work)
  /\ at' = [at EXCEPT ![t] = "run"]
  /\ UNCHANGED <<todo, handler, log, surprised, sessionVars, ready, stopped>>

(* Any other work that fails throws: out of run() and of the call, or, in  *)
(* threadIo, out of the thread, which ends the process.                    *)
Throws(t) ==
  /\ at[t] = "work" /\ handler[t].work # "read"
  /\ FailsToPerform(handler[t].work)
  /\ IF t = "caller"
     THEN /\ at' = [at EXCEPT ![t] = "idle"]
          /\ todo' = << >>
          /\ UNCHANGED alive
     ELSE alive' = FALSE /\ UNCHANGED <<at, todo>>
  /\ UNCHANGED <<connected, blocking, broken, calls, late, handler, log,
                 surprised, contextVars>>

(* run() of threadIo returns.                                              *)
IoLeaves ==
  /\ at["io"] = "run" /\ (stopped \/ OutOfWork)
  /\ at' = [at EXCEPT !["io"] = "done"]
  /\ stopped' = TRUE
  /\ UNCHANGED <<todo, handler, log, surprised, sessionVars, armed, ready,
                 channelVars>>

(* run() of the caller returns: the next phase begins, or, after the last  *)
(* of command, Cleanup frees commandChannel and the call is over.          *)
PhaseEnds ==
  /\ at["caller"] = "run" /\ (stopped \/ OutOfWork)
  /\ stopped' = TRUE
  /\ todo' = Tail(todo)
  /\ at' = [at EXCEPT !["caller"] = IF Len(todo) = 1 THEN "idle" ELSE "reset"]
  /\ channel' = IF todo = <<"close">> THEN 0 ELSE channel
  /\ UNCHANGED <<handler, log, surprised, sessionVars, armed, ready, channels>>

-----------------------------------------------------------------------------
Breaks ==
  /\ ~broken
  /\ broken' = TRUE
  /\ UNCHANGED <<alive, connected, blocking, calls, late, at, todo, handler, log,
                 surprised, contextVars, channelVars>>

Run(t) ==
  \/ Enters(t) \/ Takes(t) \/ Drops(t)
  \/ WorkDone(t) \/ StillWorking(t) \/ Throws(t)

Caller ==
  Connects \/ FailsToReconnect \/ CallsCommand \/ CallsForwarding \/ Destroys

Next ==
  /\ alive
  /\ \/ Caller \/ Resets \/ Arms \/ PhaseEnds \/ IoLeaves \/ Breaks
     \/ \E t \in Threads : Run(t)
     \/ \E ds \in SUBSET Directions : SocketReady(ds)

Spec == Init /\ [][Next]_vars

(* A thread goes on, and a call of libssh2 that has an answer gives it;    *)
(* the socket can be written to; a work tried again and again is done at   *)
(* last.                                                                   *)
FairSpec ==
  /\ Spec
  /\ WF_vars(Resets \/ Arms \/ PhaseEnds)
  /\ WF_vars(SocketReady({"write"}))
  /\ \A t \in Threads : WF_vars(Run(t)) /\ SF_vars(WorkDone(t))

-----------------------------------------------------------------------------
(* What may be left of a call.                                             *)
Todos == {Phases, <<"exec", "read", "close">>, <<"read", "close">>, <<"close">>,
          Listening, << >>}

(* Types; commandChannel is a channel that was opened.                     *)
TypeOK ==
  /\ alive \in BOOLEAN /\ connected \in BOOLEAN
  /\ blocking \in BOOLEAN /\ broken \in BOOLEAN
  /\ at["caller"] \in {"idle", "reset", "arm", "enter", "run", "work", "gone"}
  /\ at["io"] \in {"none", "enter", "run", "work", "done"}
  /\ todo \in Todos
  /\ armed \in [Directions -> Seq(Handlers)] /\ ready \in Seq(Handlers)
  /\ stopped \in BOOLEAN
  /\ handler \in [Threads -> Handlers]
  /\ channels \in Seq(BOOLEAN) /\ channel \in 0..Len(channels)
  /\ calls \in 0..MaxCalls
  /\ log \in Seq(Works) /\ late \in BOOLEAN /\ surprised \in BOOLEAN

(* The phases of the call under way whose work is still to be done.        *)
Left == IF at["caller"] = "run" /\ stopped THEN Tail(todo) ELSE todo

(* As long as threadIo is not late and the socket is never readable while  *)
(* a phase waits, command and forwarding do their works in order, each     *)
(* once, although handlers of earlier phases are still waiting.            *)
PhasesInOrder ==
  todo # << >> /\ ~late /\ ~surprised
    => log \o Left \in {Phases, Listening}

(* Even when the socket is readable, one run of the io_context does one    *)
(* work, its own or one left over: a handler left over takes the turn of   *)
(* the phase.                                                              *)
OnePerPhase ==
  todo # << >> /\ ~late
    => Len(log) + Len(Left) \in {Len(Phases), Len(Listening)}

(* Each phase leaves one of its handlers behind, so that the next call     *)
(* begins with at least as many as this call did works: they are never     *)
(* cancelled.                                                              *)
LeavesHandlers ==
  at["caller"] = "idle" /\ ~late
    => Len(armed["read"]) + Len(armed["write"]) + Len(ready) >= Len(log)

(* A thread has a handler in its hands.                                    *)
InHand(t) == IF at[t] = "work" THEN 1 ELSE 0

(* The run() of a phase never returns for want of work, late threadIo or   *)
(* not: until a work is done, or threadIo stops the io_context, there are  *)
(* two handlers at least, whatever was tried again, taken by threadIo or   *)
(* dropped.                                                                *)
NeverStarves ==
  ~stopped /\ at["caller"] \in {"enter", "run", "work"} =>
    Len(armed["read"]) + Len(armed["write"]) + Len(ready)
      + InHand("caller") + InHand("io") >= 2

(* command and forwarding return or throw, handlers left over or not,      *)
(* unless the connection is lost under them or they read a channel on      *)
(* which no command was executed.                                          *)
Returns ==
  at["caller"] = "reset" ~>
    \/ at["caller"] = "idle" \/ ~alive \/ broken
    \/ \E t \in Threads : at[t] = "work" /\ Silent(handler[t].work)

(* What the comment in LoopAsync says, "OTHERWISE, WORK IS OVER": a work   *)
(* that is done is over.  So command executes its command once.            *)
ExecutesOnce ==
  ~late => \A i, j \in 1..Len(log) : log[i] = "exec" /\ log[j] = "exec" => i = j
=============================================================================
