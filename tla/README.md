# BookFiler SSH module: verification project

TLA+ models of the first-party code of the BookFiler SSH module, the TLC
configurations that check them and TLAPS proofs about them. Paths are those of
the repository; `core/` is short for `src/core/`.

Check everything from this directory:

    tlc -workers 4 -config Connection.cfg MCTunnelConnection   # one run
    tlapm TunnelConnectionProofs.tla                          # one module of proofs

`PROJECT.json` lists every run, the lines each definition translates, the
mutants, the findings, the hazards and the theorems.

## 1. The system

The module is a shared library loaded at run time. Its main feature is an SSH
tunnel: a TCP server on the local machine that forwards each connection through
an SSH session to a remote service, MySQL in the README of the repository. It
also has a plain TCP forwarder and an SSH client that runs commands. The
repository has no tests; its documentation is two README files and the comments.

    application --> TunnelServer (listener, pool of threads)
                      per connection: runPull, runPush --> ClientImpl --> sshd --> service
    application --> ForwardingServer (listener, pool of threads)
                      per connection: run, run2 --> service
    main program --> loader --> ModuleManager --> ModuleExport (factories, wait, notify)
                        |                            |
                        +--> SettingsManager <-- registerSettings, callbacks

| Component | State | Operations | What is hard |
| --- | --- | --- | --- |
| SSH tunnel connection (`core/TunnelServerConnection`) | `srcSocket`, `src_read_buffer`, `sshClient` | `runPull`, `runPush`, `setId`, `setSshClient` | two coroutines on two strands, partial reads and writes, half-closed ends, errors that are not passed on |
| SSH tunnel server (`core/TunnelServer`, `core/TunnelServerListener`, `core/TunnelServerState`) | `ioContext`, `threadList`, `connectionList`, the addresses | constructor, `run`, destructor, `ListenerImpl::run` | blocking calls inside coroutines, a pool of threads that fills up, failures half way through opening a connection |
| SSH client (`core/Client`, `core/ClientState`) | libssh2 session, channels and listener, socket, `ioContext`, `threadIo`, `commandStr`, `commandChannelReadStr` and their lengths | `connect`, `tunnel`, `send`, `read`, `command`, `forwarding`, destructor | an io_context that is run, stopped and reset; handlers that outlive their phase; a thread nobody joins |
| Port forwarding connection (`core/PortForwardingServerConnection`) | `srcSocket`, `destSocket`, two read buffers, two queues of write buffers | `run`, `run2`, the two write handlers | two coroutines sharing two sockets, buffers that must be freed once |
| Port forwarding server (`core/PortForwardingServer`, `...Listener`, `...State`) | as the tunnel server | constructor, `run`, destructor, `ListenerImpl::run` | the destination is connected before the source is accepted |
| Module export (`src/Module`) | `settingsDoc`, `accountsDoc`, `conditionVariableMap` | factories, setters, `wait`, `notify` | waiting without a predicate, a map read without its lock |
| Loader (`include/BookFilerModuleSshLoader.hpp`) | the two managers | `loadModule` | order of signals, lifetime of the documents |
| Module manager (`third_party/Module-Manager`) | `interfaceMap`, `modulesLoadedNum`, signals | `addModule`, `loadModules`, `getModule` | counting what is loaded |
| Settings manager (`third_party/Settings-Manager`) | master document, `masterCallbackMap` | `merge`, `deploy`, `deployFile` | moved values, name and handle collisions |
| Logging helpers, examples, rapidjson | none of interest | | |

What makes each correct:

* a **connection** (tunnel or forwarding) is two byte pipes: no byte lost,
  repeated or reordered, bytes already read survive the half-close of the other
  side, and each coroutine ends when its stream does;
* the **server** keeps every accepted connection, runs each coroutine on at most
  one thread, serves connections independently of each other, and survives the
  failure of one of them;
* the **client** does each phase of a command once, and can be destroyed at any
  point;
* the **module** wakes whoever waits, and delivers to each module its own
  settings, once everything is loaded and not before.

## 2. Modules

| Module | What it is |
| --- | --- |
| `Streams` | bytes as positions in a stream, `Chunk(k, n)` |
| `BytePipe` | abstract specification: one direction of a connection |
| `TunnelConnection` | `runPush`, `runPull`, with `send`, `read`, `writeCommandChannel`, `readCommandChannel` |
| `MCTunnelConnection` | constants of its runs |
| `StreamLemmas` | lemmas about `Chunk`, concatenation and `SubSeq` |
| `TunnelConnectionProofs` | theorems about `TunnelConnection` |
| `AcceptQueue` | abstract specification: what a listener promises those who connect |
| `TunnelServer` | `TunnelServerImpl::run`, the pool, the listener, `connect` and `tunnel`, the scheduling of the connections |
| `MCTunnelServer` | constants of its runs |
| `PortForwardingConnection` | `run`, `run2` and the write handlers |
| `PortForwardingConnectionProofs` | theorems about `PortForwardingConnection` |
| `PortForwardingServer` | `ForwardingServerImpl::run` and its listener |
| `Client` | `connect`, `command`, `forwarding`, the destructor, and `LoopAsync` over the io_context of a client |
| `Options` | the constructors of the servers and of the client, from options to addresses and ports |
| `Application` | the examples, the loader with its managers, `ModuleExport`, the start and the destruction of a server |
| `MCApplication` | the options of the examples and their variants |
| `TunnelServerProgress` | theorems about how far `TunnelServer` gets |
| `PortForwardingServerProofs`, `TunnelServerProofs`, `ClientProofs`, `ApplicationProofs` | theorems about the module each is named after |

### BytePipe

Two variables, `sent` (how many bytes went in) and `got` (the bytes that came
out). A byte is the number of its position, so `got` being `<<1, ..., n>>` says
at once that nothing is lost in the middle, repeated, reordered or invented. It
has no fairness: a pipe may break, and a broken one loses an end of the stream.
The detailed modules implement it by `INSTANCE BytePipe WITH sent <- ..., got <- ...`,
once for each direction.

### AcceptQueue

Two sequences, `waiting` and `taken`, the set of callers that `came`, and two
actions: a caller that did not come before arrives, and the listener takes the one
that has waited longest. Both listeners implement it (`TakenInTurn`), with their
backlog as `waiting`: the tunnel server takes into `connectionList` and the
connection it is opening, with the clients that connected as `came`, the forwarding
server into what it has accepted. Neither promises more: a listener may stop.

### TunnelConnection

One connection after it is opened. `push` and `pull` are the program counters
of the two coroutines; a step is what a coroutine does between two points at
which the other one, the ends or the network may act: a socket operation that
completes, or one libssh2 call.

| Definition | Code |
| --- | --- |
| `PushStarts` | the listener spawns `runPush`, after the spawn of `runPull` has returned |
| `PushReads`, `PushReadFails` | `async_read_some` of `runPush` completes with data, with an error |
| `SendStarts` | `ClientImpl::send` takes the command over |
| `PushWrites`, `PushWriteFails` | one turn of the loop of `writeCommandChannel`; its error return, which `send` hides |
| `PullReads`, `PullReadsNothing` | `ClientImpl::read` with data; with none, after which `runPull` turns its loop |
| `PullWrites`, `PullWriteFails` | `async_write` of `runPull` passes on some bytes; fails |
| `ClientSends`, `ClientLeaves`, `RemoteSends`, `RemoteEnds`, `ChannelFails` | the two ends and the SSH connection (not under `src/`) |

`Windows` is the room a `libssh2_channel_write` may find. `cutShort` is a history
variable: it becomes true when a write takes less than it was offered, after
which the code no longer sends the right bytes. `Conservation` and the refinement
of `runPush` hold up to that point; what comes after it is the matter of
`ShortWritesBounded`, with `starved`, a history variable that counts the writes
that found no room: each may cost one buffer, and a write that takes a part makes
the loop repeat bytes, fewer than were read. The session is in blocking mode (`CreateSSHSession`), so
`LIBSSH2_ERROR_EAGAIN` does not occur. A libssh2 call is one atomic step,
although the code calls one session from two threads without a lock: what
libssh2 does then is not known from this repository.

`runPush` does not exist at first (`push` is `"none"`): `boost::asio::spawn` runs
`runPull` in the thread of the listener until it suspends, and its first read
blocks, so the listener spawns `runPush` only when the remote end has said
something. A service that waits to be asked never is (`WaitsForFirstWord` in
`TunnelServer`), and every property that promises something of `runPush` says
that it does so once the remote end has spoken (`Delivers`) or `runPull` has read
(`PushDrains`).

### TunnelServer

What runs, where. A coroutine is suspended, in the run queue of the io_context,
or running, and what runs holds a thread of the pool. Only blocking calls take
time: `resolve`/`connect`, handshake, authentication and opening the channel in
the listener, `libssh2_channel_read` in `runPull`, `libssh2_channel_write` in
`runPush`; the rest of a coroutine up to its next suspension is one step. A
connection carries the messages of one exchange (a greeting if the service
speaks first, a request, a reply) in place of bytes, which `TunnelConnection`
has.

The Boost the code names in its headers (1.72) starts a coroutine by dispatching
it: `boost::asio::spawn`, called from a thread of the pool, runs the new
coroutine until it suspends. `runPull` begins with a blocking read, so `spawn`
does not return to the listener before the service has said something, and
`runPush` is spawned after that (state `"spawn"` of `listener`). From Boost 1.80
on the coroutine would be posted to the run queue instead; that is not modelled.

`Faults` is the set of what may go wrong. `alive` becomes false when the process
terminates: an exception of `ConnectSocket` leaves a thread of the pool, or a
`ClientImpl` is destroyed while its `threadIo` is joinable. `OthersUnharmed` says
that these are the only ways (its part `SurvivesHandshake`), and `Answered`
promises nothing once the process has ended. A request is `"carried"` when
`runPush` has it in its buffer, and `"received"` when the remote end has it. An
error of `async_accept` is the listener's `continue`, which changes nothing.

### PortForwardingConnection

`run` and `run2` are the same code with the sockets exchanged; the model has one
set of actions, indexed by the end a coroutine reads. `Greets` is the write of
zero bytes at the start, `Reads` the read, copy, push onto the queue and start
of the write, `Writes` the progress of the write with, at its end, the handler
(`FreesBuffer`), `Fails` the error returns.

An end receives a greeting from one coroutine and data from the other over one
socket. The model counts the zeros and leaves out where among the data they
fall: `Intact` and `BothArePipes` are about the data, and only `ForwardsOnlyData`,
which the code violates, is about the zeros among them.

### PortForwardingServer

`listener` is where `ListenerImpl::run` is: `"connect"` before it has a
destination, `"accept"` while it holds one and waits for a source. `fresh` says
whether the destination still keeps that connection; `Accepts` records it with
the source, since the code hands it over without looking. A source is in
`backlog` as soon as it connects, which needs the acceptor to listen and not the
listener to accept. A failed `async_connect` begins the loop again and changes
nothing, so there is no action for it. `run` is called once: `Init` is the state it
leaves, with as many threads as `hardware_concurrency` says, 0 included.

### Client

One thread calls `connect`, `command`, `forwarding` and the destructor; `threadIo`
is the other thread that runs the io_context. `todo` holds the phases left of a
call (`create`, `exec`, `read`, `close` of `command`, `listen` of `forwarding`).

| Definition | Code |
| --- | --- |
| `Resets`, `Arms`, `Enters`, `PhaseEnds` | `ioContext.reset()`; the two waits; `ioContext.run()`, entered and left, with `Cleanup` after the last phase |
| `SocketReady` | the reactor moves what waits for the socket to the queue of the io_context, writes first |
| `Takes`, `Drops` | a handler begins; it finds the io_context stopped |
| `WorkDone`, `StillWorking`, `Throws` | `LoopAsync` with the three ways a work ends |
| `Breaks` | the SSH connection is lost |
| `Connects`, `FailsToReconnect` | `connect`; a second one that fails in `boost::asio::connect` or the handshake, so that the socket has been closed under the handlers left behind |

A channel is a position in `channels`, which says whether a command was executed
on it; `channel` is `commandChannel`, 0 for null. What a command prints is left
out. `late` becomes true when a call begins before `threadIo` has returned: then
`reset` is called while the io_context runs and libssh2 is entered by two
threads, for which neither library promises anything. The model goes on with
atomic steps, but the safety properties, `NeverStarves` excepted, speak of the
behaviours before that.
`surprised` becomes true when the socket is readable while a phase waits, as it
is when output of the command comes after `exec` has returned, or when a second
`connect` closed the socket.

### Options

Options are a function from keys to `std::variant`s. A constructor is an operator
whose value is the set of states it may produce: a key that is missing or of
another type leaves an integer uninitialized, which is any member of `Garbage`.
Narrowing to a port is modulo 2^16. `ClientOptions` is the second set of options,
which the listener of the tunnel server makes for each client, so that an option
goes through two constructors. Texts are not parsed: `IPv4` says which of them
`address_v4::from_string` accepts.

### Application

The main thread from `main` to its end, and the threads of the server it starts.

| Definition | Code |
| --- | --- |
| `LoadsLibrary`, `SkipsFile`, `ThrowsNoDirectory` | one turn of `ModuleManager::loadModules`, with `registerSettings` and `SettingsManager::merge` in the signal of the loader |
| `DeploysFile` | the signal that everything is loaded: `deployFile`, `deploy`, `setAccounts`, `setSettings` |
| `StartsServer` | `allModulesLoaded` of the examples: the factory, the constructor, `run` |
| `Waits`, `FallsAsleep`, `Notifies`, `WakesSpuriously` | `wait` and `notify` of `ModuleExport`, and its condition variable |
| `JoinsAll` | the server goes out of scope; its destructor |
| `Enters`, `RunsListener`, `Leaves` | `runIoContext` of each thread, the coroutine of the listener up to its first suspension, and the end of an io_context without work |

`notify` takes no lock, so it comes between any two steps of `wait`: whoever is
not asleep is not woken. The listener is one of three: spawned and not yet run,
waiting for connections (from then on it is `TunnelServer` or
`PortForwardingServer`), or ended because it could not listen.

## 3. Runs

| Run | Bounds | What it shows |
| --- | --- | --- |
| `connection` (`TypeOK`, `Conservation`, `ShortWritesBounded`, `BothArePipes`, `Settles`, `Delivers`, `PushDrains`, `EndMeansSpinning`) | ReadBufferLength 2, ChannelBuffer 2, Windows AllWindows, MaxBytes 3 | However reads and writes are cut and however the ends and the channel fail: runPull is a pipe, runPush, which is not spawned before runPull's first read has returned, is one up to the first short write; what the short and empty writes of a send repeat and lose is bounded; once the remote end has said something, every byte arrives unless an end, the channel or a short write stops it; the connection comes to rest in a bounded number of steps, but after the end of the channel runPull spins for ever. |
| `connection_short` (`PushInOrder`) | ReadBufferLength 2, ChannelBuffer 2, Windows OpenWindows, MaxBytes 3 | *Violated:* A write one byte short makes writeCommandChannel send the beginning of the command again. |
| `tunnel_server` (`TypeOK`, `PoolSound`, `TakenInTurn`, `TunnelBeforeUse`, `WaitsForFirstWord`, `ExhaustedForGood`, `Progress`) | Conns ThreeConns, Threads 2, GreetsFirst FirstTwo, Faults AllFaults | With every fault, three connections and two threads: the run queue and the pool are sound, no connection is lost and they are taken in turn, no coroutine runs without its tunnel and nothing runs for an application whose opening failed, runPush waits for the first word of the remote service, which starves a service that waits to be asked, a pool used up by connections that have ended never recovers, and every step brings the server nearer to its end. |
| `tunnel_server_live` (`OthersUnharmed`, `Answered`) | Conns TwoConns, Threads 3, GreetsFirst FirstTwo, Faults OwnFaults | With more threads than connections, services that greet first and every other fault, the server never comes to rest with an exchange unfinished, and every application has its own unless the process ends: which happens only in an opening, when ConnectSocket throws or something fails after threadIo has started, and never when a handshake fails, an application leaves or a channel ends. |
| `tunnel_server_full` (`Answered`) | Conns TwoConns, Threads 2, GreetsFirst FirstTwo, Faults NoFaults | *Violated:* With as many connections as threads and nothing going wrong, every thread ends up in a blocking read and no request reaches the remote end. |
| `forward` (`TypeOK`, `Intact`, `BufferPerWrite`, `BothArePipes`, `Settles`, `Delivers`, `Returns`) | Greeting 2, ReadBufferLength 2, MaxBytes 2 | Whatever the two ends do and however reads and writes are cut, no byte is lost, repeated or reordered in either direction, each buffer is freed once, every byte is delivered while both ends are there, the connection comes to rest in a bounded number of steps, and each coroutine returns once its end has finished. |
| `forward_zeros` (`ForwardsOnlyData`) | Greeting 2, ReadBufferLength 2, MaxBytes 2 | *Violated:* Both ends receive the zero bytes each coroutine writes before it reads. |
| `client` (`TypeOK`, `PhasesInOrder`, `OnePerPhase`, `LeavesHandlers`, `NeverStarves`, `Returns`) | MaxCalls 1 | With threadIo returned and nothing unexpected to read, a command does its phases in order, each once, although each leaves a handler behind; whatever is readable, one run of the io_context does one work and never returns for want of a handler; a call ends unless its connection is lost or it reads a channel without a command. |
| `client_twice` (`ExecutesOnce`) | MaxCalls 1 | *Violated:* The socket becomes readable after a phase is over: the handlers it left behind open a second channel and execute the command on it again. |
| `application` (`TypeOK`, `SettingsFirst`, `StartsOnce`, `OptionsReach`, `JoinsForGood`, `ListensOrEnds`) | Texts {"", "127.0.0.1", "10.0.0.1", "0.0.0.0", "SERVER", "USER", "PASS"}, IPv4 {"127.0.0.1", "10.0.0.1", "0.0.0.0"}, Garbage {0, 32767}, Directories SomeDirectories, HardwareThreads {0, 1, 2}, Programs AllPrograms, MaxNotifies 2 | Whatever the directory, the settings file, the options and the hardware: the program starts one server, with the settings of the file and the addresses and ports asked for; a server that has a thread comes to listen unless it cannot, one that listens is never joined, and any other is. |
| `application_ends` (`Ends`) | Texts {"", "127.0.0.1", "10.0.0.1", "0.0.0.0", "SERVER", "USER", "PASS"}, IPv4 {"127.0.0.1", "10.0.0.1", "0.0.0.0"}, Garbage {0, 32767}, Directories OneLibrary, HardwareThreads {2}, Programs Examples, MaxNotifies 1 | *Violated:* The example is woken and destroys its server, whose listener is waiting for a connection: it never ends. |
| `forward_server` (`TypeOK`, `TakenInTurn`, `OneSourcePerDeath`, `AcceptsAll`) | Sources {s1, s2, s3}, HardwareThreads {0, 2}, MaxDeaths 2 | Whatever fails, no source is lost, taken twice or overtaken; a connection the destination closes while the listener waits costs one source and no more; every source is accepted as long as the destination keeps coming back. |

**Bounds.** A tunnel connection has buffers of two bytes and streams of three: a
stream longer than a buffer, full and partial buffers, and every way of cutting
a buffer in two writes occur. Windows of 0, 1 and 2 bytes are a full channel,
one short of a byte, and one with room. The server has three connections on two
threads, two whose service speaks first and one whose service waits to be asked
(more connections than threads, so that the pool fills up with one to spare), or
two connections on three threads or on two. A forwarding connection has a
greeting, buffers and streams of two bytes: whole and partial reads and writes
of each. The forwarding server has three sources, and two closed connections to
the destination, so that deaths can follow each other and still leave a source
that is served well. A client makes one call: four phases are enough for the
handlers of one to meet every later one; a second call begins with what
`LeavesHandlers` says, and the theorems are about any number. The application
has every directory of up to two entries, so that a second copy of the library
is loaded, 0, 1 or 2 threads, and two notifications, one of which may be lost.
Its options are those of the examples and all that differ in one key: missing,
of another type, a host name, a negative port and one above 65535.

**Fairness.** `TunnelConnection!FairSpec` is weakly fair to each coroutine: a
thread of the pool runs it when it can go on, and the listener, once the spawn of
`runPull` has returned, spawns `runPush`; that it returns is not assumed, as it
takes a byte of the remote end. It owes nothing to the ends. That
a thread is free is not true of every server: this is what `TunnelServer`
models, with weak fairness of `Step` (the io_context runs what is ready when a
thread is free; SSH servers and services answer). Every behaviour of
`TunnelServer` is finite up to stuttering, which `NothingTwice` proves, so weak
fairness of the whole step is fairness to each part. `PortForwardingConnection!FairSpec` is weakly fair to
each coroutine: neither blocks a thread.
`Client!FairSpec` is weakly fair to the caller and to each thread in the
io_context (threads are scheduled, and a libssh2 call that has an answer gives
it), and to the socket becoming writable, which is the usual state of a socket.
It is strongly fair to `WorkDone`: a work that returns `LIBSSH2_ERROR_EAGAIN` is
not refused for ever by a peer that answers. It owes nothing to the socket
becoming readable.
`PortForwardingServer!FairSpec` is strongly fair to `Connects` and `Accepts`: an
operation that fails is tried again at once and for ever, so one that may
succeed again and again does.
`Application!FairSpec` is weakly fair to the main thread and to the pool:
threads are scheduled. Nobody has to call `notify`, and nothing has to wake up
by itself.

**Deadlock** is checked except in the runs of `TunnelServer`, where the system
rests when every application has had its exchange, in
`client`, where the caller may stop calling, a blocking read of a channel without
a command never returns, and the process may have terminated, and in
`application`, where the program ends, or sleeps or joins for good.

**Mutants.** Definitions commented "Mutant" are not part of any specification.
Each is a version of a definition with a bug such code might have, and
`PROJECT.json` pairs it with the property that catches it.

## 4. What the checks found

* `connection_short`, `src/src/core/Client.cpp:324`: writeCommandChannel calls libssh2_channel_write(commandChannel, commandStr.data(), commandStrLen) on every turn of its loop, so after a short write it sends the beginning of the command again, and drops as many bytes of its end; src/README.md:2 says "The main feature is the SSH tunnel, which will allow mysql to be connected to through an SSH connection." The run shows the remote end receiving bytes 1, 1 of an application that sent 1, 2.
* `tunnel_server_full`, `src/src/core/TunnelServerConnection.cpp:43`: Each runPull blocks a thread of the pool in libssh2_channel_read for the whole life of its connection, and TunnelServerImpl::run starts hardware_concurrency() threads (src/src/core/TunnelServer.cpp:92): with as many open connections as threads nothing runs any more; src/README.md:2 says "The main feature is the SSH tunnel, which will allow mysql to be connected to through an SSH connection." The run shows two connections on two threads, whose requests never reach the remote end.
* `forward_zeros`, `src/src/core/PortForwardingServerConnection.cpp:39`: run writes 512 zero bytes to the source and run2 512 to the destination before either reads; the log line above the write says "boost::asio::async_write nothing" (src/src/core/PortForwardingServerConnection.cpp:36-37) and the file says "Port fowarding utilities. Initially this utility was made to forward mysql traffic through a secure ssh connection." (src/src/core/PortForwardingServerConnection.cpp:14-15). The run shows the source receiving a zero byte the destination never sent.
* `client_twice`, `src/src/core/Client.cpp:134`: command waits on the socket for reading and for writing with the work of each phase; only the handler that comes first is used up, and LoopAsync stops the io_context under the comment "// OTHERWISE, WORK IS OVER" (src/src/core/Client.cpp:244). The other handler stays and runs in a later phase, after the io_context is reset: the run shows a phase's work done again, a second channel opened and the command executed twice.
* `application_ends`, `src/src/core/TunnelServer.cpp:53`: The destructor of the server joins threads that run an io_context nobody stops, while the listener of the server waits for a connection: when wait returns, allModulesLoaded prints "Application Shutting Done" (src/src_example/ssh-tunnel/main.cpp:45) and never comes back from destroying the server, so that main never prints its "END" (src/src_example/ssh-tunnel/main.cpp:23).

## 5. Proofs

`TunnelConnectionProofs` proves, for every buffer size, every number of bytes
and every interleaving, from `ConnectionAssumption` alone (buffers are not
empty; windows are natural numbers, and there is one):

* `TypeCorrect`: the types, which include that no buffer is overrun and no
  coroutine reads more than was sent;
* `Conserved`, from `PullConserved` and `PushConserved`. The first needs the
  inductive invariant `IPull`: `PullConservation` itself says nothing once the
  application has gone, so it is strengthened with the fact that what the
  application has is a beginning of the stream, of at most the bytes read, and
  that nothing is held between two writes. The second needs `IPush`: until a
  write is cut short, nothing of a send under way has been written. Without this
  condition it is false (run `connection_short`);
* `ImplementsPipes`, that the connection is two `BytePipe`s: under `IPull` and
  `IPush` each step maps to a step of the pipe or to a stutter;
* `ShortWritesCost`, by `IResend`: the loop goes on only while it has written
  less than the command, so it has handed over fewer than twice its bytes, and it
  stops short of it only when a write has found no room;
* `ComesToRest`: after at most `7 * MaxBytes + 9` steps that change anything, the
  connection is at rest, and has held nothing back. `StepsLeft` adds up what each
  end may still do, what `runPush` has still to read and to write (a byte that
  is handed over again was paid for when it was read, which is what `IResend`
  is needed for) and what `runPull` has still to pass on. `IWaits` says that a
  coroutine with nothing left to do has passed on all it read.

`StreamLemmas` proves what these need of sequences: consecutive chunks join, a
concatenation that is a chunk splits into two, moving a prefix from one sequence
to another keeps their concatenation, and the end of an end is an end.

`PortForwardingConnectionProofs` proves, from `ForwardingAssumption` alone, what
the run `forward` checks of the safety of a forwarding connection. Both
coroutines are one set of actions indexed by an end, and so is the proof:

* `TypeCorrect`, `OneGreeting` and `OneBuffer`, by the inductive invariant
  `IForward`: the types need that a write in progress has its buffer in the
  queue and that a greeting has what it has not sent left, so the three hold
  each other up;
* `Conserved`, by `IStream`, which adds to `Conservation` what an end that has
  gone received before it went; with `OneGreeting` it is `StaysIntact`;
* `ImplementsPipes`: `NextStream` shows that a step is, for any one end, a step of
  a pipe or none, whatever the other direction does;
* `ComesToRest`: at most `2 * Greeting + 6 * MaxBytes + 6` steps, and nothing held
  back when neither coroutine can go on. `EndLowers` and `CoroutineLowers` show
  that a step takes from one term of `StepsLeft` and adds to none; `IGoes`, that a
  coroutine has returned only if an end has gone or the one it reads has stopped
  and been read to its end.

`PortForwardingServerProofs` proves `TakenInTurn`, the refinement of
`AcceptQueue` (with the types, `EachInTurn` is inductive), and
`OneSourcePerDeath`, by counting: the stale connections handed over, and the one
the listener may hold, are at most the deaths there have been.

`TunnelServerProofs` proves every safety property of the runs `tunnel_server`
and `tunnel_server_live` for any number of connections and threads and every set
of faults, from `ServerAssumption`. None is inductive by itself:

* `TakenInTurn` needs `ConnectionsKept`, which needs `HoldsSocket`, that the
  listener has exactly the socket it took from the backlog while it opens it; a
  step then maps to a step of `AcceptQueue` or to a stutter;
* `TunnelBeforeUse` and `SurvivesHandshake` need `Openings`: how far the
  listener is with a connection says how far its remote end and its coroutines
  are, and a connection it has left is open or was refused. That nothing runs for
  one that was refused (`LeftAlone`) needs `Unserved` besides: a coroutine that
  has not started has read and written nothing;
* `TypeOK` needs `Messages`: what is unread, held and written of a connection adds
  up to what its service has said, at most two;
* `WaitsForFirstWord` needs `Openings` and, for the services that wait to be
  asked, `Silent`: such a service has said nothing, so its `runPull` is in its
  first read, inside `spawn`;
* `PoolSound` needs `QueueSound`, that the run queue is, without repetition,
  the set of the coroutines that are ready, and `Bounded`, that no more run than
  there are threads. `ExhaustedForGood` is an action property from these.

`TunnelServerProgress` proves how far the server gets:

* `NothingTwice`: `LeftOf`, what one connection has left to do, falls or stays in
  every step, and each step lowers it for some connection or ends the process or
  the set-up. It is 30 at the start (`LeftAtFirst`), so n connections and any
  number of threads make at most 30 n + 2 steps. The proof needs `Messages` (what
  `runPush` sends is a request that was carried) and `ConnectionsKept` (whoever is
  accepted was not in `connectionList`);
* `StaysUnharmed`: `NoLockup`, with `SurvivesHandshake`, which says exactly in
  which openings the process may end and that no failure of an opening but that
  of the handshake is survived. A server with one thread
  more than there are connections, whose services greet first, is never at rest
  with an exchange unfinished that could be finished. At rest each thread in use
  is with the `runPull` of a connection of its own (`OneThreadEach`), so one is
  free and nothing is ready; `Heard` (a greeting is unread, held or written until
  a write fails) shows that the listener is not in `spawn`; `Reached` and
  `Halts` say where a connection may be left, and only the end is possible.
  `tunnel_server_full` is what happens with one thread less.

`ClientProofs` proves the safety of `Client` for any number of calls: the runs
make one, the theorems as many as `MaxCalls` says.

* `OnePerPhase` and `LeavesHandlers` are about a number of handlers, and follow
  from `Balance`: a phase arms two handlers and runs one before it ends, so the
  handlers that wait are at least the works done, and two more while a phase
  is armed; what is left of the call is what the log lacks;
* `NeverStarves` (`PhasesKeepWork`) counts too, the handlers in the hands of the
  two threads included, and is inductive with the types. It is the one property
  of `Client` that also speaks of a `late` `threadIo`;
* `PhasesInOrder` follows from `Undisturbed`: as long as `threadIo` is not late
  and the socket is not readable early, the only handler that can run is the one
  the phase itself has armed for writing, and earlier ones wait behind it in the
  queue for reading.

`ApplicationProofs` proves the safety of `Application` for every directory,
settings file, set of options and number of threads, from `OptionsAssumption`
and `ApplicationAssumption`:

* `StartsOnce` with `Counted` (where the main thread is after a load);
* `SettingsFirst` from `Registered`, that the settings manager knows, as a set,
  what one copy of the library asks for, and `Delivered`;
* `OptionsReach` is no matter of steps: the server's state is one of
  `NewState(program)` by the types, and `TunnelReaches` and `ForwardingReaches`
  follow an option through the constructors;
* `JoinsForGood` needs `Accepting`: a listener that waits keeps a thread in
  `run`, so the destructor cannot have joined them all.

Every invariant, every action property and every refinement that the passing
runs check is proved.

**What stays with TLC.** Liveness (`Delivers`, `PushDrains`, `EndMeansSpinning`,
`Answered`, `Returns`, `AcceptsAll`, `ListensOrEnds`): the provers do not do
fairness or `ENABLED`. For the two kinds of connection and the tunnel server the
half of it that is safety is proved for all values of the constants: the number
of steps is bounded, and a state in which nothing can be done has nothing left
to do. With weak fairness, that a coroutine which can go on does, `Delivers` and,
with enough threads, `Answered` follow from the two; this last inference, and
that `PushCanGo`, `PullCanGo`, `CanGo` and `Quiet` say what `ENABLED` says, is not
machine-checked. The client and the forwarding server have no such measure: a
work that is refused and a connection that fails are tried again any number of
times.

Nothing is proved about `Streams`, `Options` and `BytePipe` beyond what the
theorems about the modules that use them need.

## 6. Plan

The order of the work was the most important behaviour first:

1. `TunnelConnection`, refining `BytePipe`.
2. `TunnelServer`: scheduling, starvation, failures while a connection is opened.
3. `PortForwardingConnection`, refining `BytePipe` in each direction.
4. `Client`: the phases of `command` and `forwarding` over an io_context that is
   armed, run, stopped and reset; connect again, destroy.
5. `PortForwardingServer`: the listener and its destinations.
6. `Options` and `Application`: from `main` to the destruction of the server.
7. The proofs of each: the invariants, the refinements, then how far each
   connection and the tunnel server get.

What would come next, and what it needs:

* a client that calls `command` again, model-checked with what the first call
  left behind (the theorems cover it, liveness does not): `MaxCalls` 2 needs a
  specification without the `late` behaviours to stay small;
* `deploy` for settings with objects in objects, once a module registers some:
  its recursion would be a recursive function over a small tree;
* where a client may come to rest: `NeverStarves` says that a phase does not run
  out of handlers; that what is left of a call can always be done, unless the
  connection is lost, is only in `Returns`;
* the tunnel server with fewer threads: how many exchanges are finished when the
  pool locks up;
* several threads that `wait` for one handle, once a program does.

## 7. Not modelled

* Logging and wording; rapidjson, Boost and libssh2 except as the code uses them.
* Parsing: a settings file can be read or not, a library imported or not, a text
  is an address or not.
* What libssh2 does when two threads enter one session (`runPull` and `runPush`,
  or a `late` `threadIo`), and what an io_context does that is reset or destroyed
  under its threads (`run` called twice on a server): neither library promises
  anything there, so the models have atomic calls and one `run`.
* `LoopTimer` and `getModule`, which nothing calls; `newSshClient` and
  `newSshGlobal`, which no program of the repository calls (the client that the
  first makes is `Client`, its options are in `Options`).
* What `command` prints, and the second buffer of output it does not read.
* The recursion of `deploy` into objects, which this module does not register.
