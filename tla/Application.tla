----------------------------- MODULE Application -----------------------------
(***************************************************************************)
(* A program that uses the module, from main to the end: the examples      *)
(* (src_example/ssh-tunnel and port-forwarding), the loader                *)
(* (BookFilerModuleSshLoader.hpp) with the module and settings managers it *)
(* connects, ModuleExport (src/Module.cpp), and the start and destruction  *)
(* of the server (TunnelServer.cpp, PortForwardingServer.cpp).             *)
(*                                                                         *)
(* loadModule visits a directory.  The first library that exports the      *)
(* module makes the loader deploy the settings and call back the program,  *)
(* which starts a server, waits for "exit", and returns; returning         *)
(* destroys the server, which joins its threads.  Then the visit goes on.  *)
(*                                                                         *)
(* notify is called by any other thread of the program at any time.  It    *)
(* takes no lock, so it can come between any two steps of wait.            *)
(***************************************************************************)
EXTENDS Options, Naturals, Sequences, SequencesExt

CONSTANTS
  Directories,      \* what "modules" may hold, in the order it is visited
  HardwareThreads,  \* what hardware_concurrency() may return
  Programs,         \* a server to start: its kind and its options
  MaxNotifies       \* bound: how many times notify("exit") is called

Entries == {"library",    \* a library that exports bookfilerSshModule
            "file",       \* another file; if named like one, importing it throws
            "missing"}    \* there is no directory: visiting it throws

ASSUME ApplicationAssumption ==
  /\ Directories \subseteq Seq(Entries)
  /\ HardwareThreads \subseteq Nat
  /\ \A p \in Programs : p.kind \in {"tunnel", "forwarding"}
  /\ MaxNotifies \in Nat

VARIABLES
  main,              \* where the main thread is
  program,           \* the server the program starts
  entries,           \* what is left of the directory
  modulesLoadedNum,  \* ModuleManager::modulesLoadedNum
  master,            \* SettingsManager::master, an object: names and handles
  callbacks,         \* SettingsManager::masterCallbackMap
  file,              \* the members of "settings.json", {} if it cannot be read
  docs,              \* accountsDoc and settingsDoc: the member each is from
  server,            \* ServerState, as a set of one or no state
  serverDoc,         \* settingsDoc of the server
  handles,           \* the keys of conditionVariableMap
  pool,              \* threadList: where each thread is
  listener,          \* where ListenerImpl::run is
  notifies,          \* how many times notify has been called
  started            \* history: how many servers have been started

loadVars == <<entries, modulesLoadedNum, master, callbacks, file, program>>
serverVars == <<server, serverDoc, started>>
poolVars == <<pool, listener>>
waitVars == <<handles, notifies>>
vars == <<main, loadVars, docs, serverVars, poolVars, waitVars>>

Names == {"HTTP_accounts", "HTTP_settings"}
Null == "nullptr"

Init ==
  /\ main = "visit"
  /\ program \in Programs
  /\ entries \in Directories /\ modulesLoadedNum = 0
  /\ master = << >> /\ callbacks = << >>
  /\ file \in SUBSET Names
  /\ docs = [setAccounts |-> Null, setSettings |-> Null]
  /\ server = {} /\ serverDoc = Null /\ started = 0
  /\ handles = {} /\ notifies = 0
  /\ pool = << >> /\ listener = "none"

-----------------------------------------------------------------------------
(* Loading.                                                                *)

(* registerSettings: the names this module wants to hear of, the handles   *)
(* of its callbacks, and the callbacks.                                    *)
ModuleRequest ==
  <<[name |-> "HTTP_accounts", handle |-> "HTTP_accountsCB"],
    [name |-> "HTTP_settings", handle |-> "HTTP_settingsCB"]>>

(* Mutant: the two callbacks change places.                                *)
ModuleCallbackMapSwapped ==
  [handle \in {"HTTP_accountsCB", "HTTP_settingsCB"} |->
     IF handle = "HTTP_settingsCB" THEN "setAccounts" ELSE "setSettings"]

ModuleCallbackMap ==
  [handle \in {"HTTP_accountsCB", "HTTP_settingsCB"} |->
     IF handle = "HTTP_accountsCB" THEN "setAccounts" ELSE "setSettings"]

(* SettingsManager::merge.  insert keeps the callback a handle has.        *)
Merge(request, callbackMap) ==
  /\ master' = master \o request
  /\ callbacks' =
       [h \in DOMAIN callbacks \union DOMAIN callbackMap |->
          IF h \in DOMAIN callbacks THEN callbacks[h] ELSE callbackMap[h]]

(* Mutant: every load that leaves no module out calls the program back.    *)
EverythingLoadedAtLeast(num) == num >= 1

(* The program registers one interface with the module manager.            *)
EverythingLoaded(num) == num = 1

(* A library is imported, and its module initialized and asked for its     *)
(* settings.                                                               *)
LoadsLibrary ==
  /\ main = "visit" /\ entries # << >> /\ Head(entries) = "library"
  /\ entries' = Tail(entries)
  /\ Merge(ModuleRequest, ModuleCallbackMap)
  /\ modulesLoadedNum' = modulesLoadedNum + 1
  /\ main' = IF EverythingLoaded(modulesLoadedNum') THEN "deploy" ELSE "visit"
  /\ UNCHANGED <<file, program, docs, serverVars, poolVars, waitVars>>

SkipsFile ==
  /\ main = "visit" /\ entries # << >> /\ Head(entries) = "file"
  /\ entries' = Tail(entries)
  /\ UNCHANGED <<main, modulesLoadedNum, master, callbacks, file, program,
                 docs, serverVars, poolVars, waitVars>>

(* Nothing catches the exception of the directory iterator.                *)
ThrowsNoDirectory ==
  /\ main = "visit" /\ entries # << >> /\ Head(entries) = "missing"
  /\ main' = "terminated"
  /\ UNCHANGED <<loadVars, docs, serverVars, poolVars, waitVars>>

(* What deploy gives a callback: members of the file under names           *)
(* registered with its handle.                                             *)
DeliveredTo(callback) ==
  {m.name : m \in {r \in ToSet(master) :
     /\ r.name \in file
     /\ r.handle \in DOMAIN callbacks /\ callbacks[r.handle] = callback}}

(* setAccounts and setSettings keep what they get.                         *)
Received(callback) ==
  IF DeliveredTo(callback) = {} THEN docs[callback]
  ELSE CHOOSE name \in DeliveredTo(callback) : TRUE

(* deployFile: without a file it can read, nothing is delivered.           *)
DeploysFile ==
  /\ main = "deploy"
  /\ docs' = [callback \in DOMAIN docs |-> Received(callback)]
  /\ main' = "callback"
  /\ UNCHANGED <<loadVars, serverVars, poolVars, waitVars>>

(* loadModule returns to main, which returns.                              *)
MainEnds ==
  /\ main = "visit" /\ entries = << >>
  /\ main' = "ended"
  /\ UNCHANGED <<loadVars, docs, serverVars, poolVars, waitVars>>

-----------------------------------------------------------------------------
(* The program's allModulesLoaded.                                         *)

(* newTunnelServer or newPortForwarding.                                   *)
NewState(p) ==
  IF p.kind = "tunnel" THEN TunnelServerState(p.options)
  ELSE ForwardingServerState(p.options)

(* Mutant: the loop that starts the threads is one step too long.          *)
ThreadsFromZero(n) == [t \in 0..n |-> "new"]

Threads(n) == [t \in 1..n |-> "new"]

(* The server is made, gets the settings the module has, and is run: the   *)
(* listener is spawned, and the threads are started, as many as the        *)
(* hardware has, whatever ServerState says.                                *)
StartsServer ==
  /\ main = "callback"
  /\ server' \in {{state} : state \in NewState(program)}
  /\ serverDoc' = docs.setSettings
  /\ started' = started + 1
  /\ listener' = "spawned"
  /\ pool' \in {Threads(n) : n \in HardwareThreads}
  /\ main' = "wait"
  /\ UNCHANGED <<loadVars, docs, waitVars>>

(* wait: the condition variable of the handle is there, and the main       *)
(* thread, which holds the mutex that notify does not take, goes to sleep. *)
Waits ==
  /\ main = "wait"
  /\ handles' = handles \union {"exit"}
  /\ main' = "falling asleep"
  /\ UNCHANGED <<loadVars, docs, serverVars, poolVars, notifies>>

FallsAsleep ==
  /\ main = "falling asleep"
  /\ main' = "asleep"
  /\ UNCHANGED <<loadVars, docs, serverVars, poolVars, waitVars>>

(* notify("exit"): who is not asleep is not notified.                      *)
Notifies ==
  /\ modulesLoadedNum > 0 /\ main \notin {"ended", "terminated"}
  /\ notifies < MaxNotifies
  /\ notifies' = notifies + 1
  /\ main' = IF "exit" \in handles /\ main = "asleep" THEN "joining" ELSE main
  /\ UNCHANGED <<loadVars, docs, serverVars, poolVars, handles>>

(* A condition variable may wake up by itself, and wait looks at nothing   *)
(* else.                                                                   *)
WakesSpuriously ==
  /\ main = "asleep"
  /\ main' = "joining"
  /\ UNCHANGED <<loadVars, docs, serverVars, poolVars, waitVars>>

AllJoined == \A t \in DOMAIN pool : pool[t] = "done"

(* "Application Shutting Done": the server goes out of scope, and its      *)
(* destructor joins each thread.  Back in loadModules, the visit goes on.  *)
JoinsAll ==
  /\ main = "joining"
  /\ AllJoined
  /\ server' = {} /\ serverDoc' = Null
  /\ main' = "visit"
  /\ UNCHANGED <<loadVars, docs, started, poolVars, waitVars>>

-----------------------------------------------------------------------------
(* The threads of the server.                                              *)

(* Mutant: the destructor stops the io_context.                            *)
OutOfWorkOrStopped == listener = "ended" \/ main = "joining"

(* The coroutine of the listener is the work of the io_context.            *)
OutOfWork == listener = "ended"

(* Mutant: the threads are started before the listener is spawned.         *)
EntersEarly(t) ==
  /\ pool[t] = "new"
  /\ pool' \in {[pool EXCEPT ![t] = s] : s \in {"run", "done"}}
  /\ UNCHANGED <<main, loadVars, docs, serverVars, listener, waitVars>>

(* runIoContext calls run of the io_context.                               *)
Enters(t) ==
  /\ pool[t] = "new"
  /\ pool' = [pool EXCEPT ![t] = "run"]
  /\ UNCHANGED <<main, loadVars, docs, serverVars, listener, waitVars>>

(* One of them runs the listener, which waits for connections from now on, *)
(* or ends because it cannot listen.                                       *)
RunsListener(t) ==
  /\ pool[t] = "run" /\ listener = "spawned"
  /\ listener' \in {"accepting", "ended"}
  /\ UNCHANGED <<main, loadVars, docs, serverVars, pool, waitVars>>

(* run returns when the io_context has no work left.                       *)
Leaves(t) ==
  /\ pool[t] = "run" /\ OutOfWork
  /\ pool' = [pool EXCEPT ![t] = "done"]
  /\ UNCHANGED <<main, loadVars, docs, serverVars, listener, waitVars>>

Main ==
  \/ LoadsLibrary \/ SkipsFile \/ ThrowsNoDirectory \/ DeploysFile \/ MainEnds
  \/ StartsServer \/ Waits \/ FallsAsleep \/ JoinsAll

Pool(t) == Enters(t) \/ RunsListener(t) \/ Leaves(t)

Next ==
  \/ Main \/ Notifies \/ WakesSpuriously
  \/ \E t \in DOMAIN pool : Pool(t)

Spec == Init /\ [][Next]_vars

(* Threads go on.  Nobody has to call notify.                              *)
FairSpec ==
  Spec /\ WF_vars(Main) /\ WF_vars(\E t \in DOMAIN pool : Pool(t))

-----------------------------------------------------------------------------
TypeOK ==
  /\ main \in {"visit", "deploy", "callback", "wait", "falling asleep", "asleep",
               "joining", "ended", "terminated"}
  /\ program \in Programs
  /\ entries \in Seq(Entries) /\ modulesLoadedNum \in Nat
  /\ master \in Seq([name : Names, handle : DOMAIN ModuleCallbackMap])
  /\ callbacks \in {<< >>, ModuleCallbackMap}
  /\ file \subseteq Names
  /\ docs \in [{"setAccounts", "setSettings"} -> Names \union {Null}]
  /\ server \in {{}} \union {{state} : state \in NewState(program)}
  /\ serverDoc \in Names \union {Null} /\ started \in Nat
  /\ handles \subseteq {"exit"} /\ notifies \in 0..MaxNotifies
  /\ pool \in UNION {[1..n -> {"new", "run", "done"}] : n \in HardwareThreads \union {0}}
  /\ listener \in {"none", "spawned", "accepting", "ended"}

(* The settings are there before the server: it gets the HTTP_settings of  *)
(* the file and the module the HTTP_accounts, each if the file has them,   *)
(* whatever else is in the directory and the file.                         *)
SettingsFirst ==
  started > 0 =>
    /\ docs.setAccounts = IF "HTTP_accounts" \in file THEN "HTTP_accounts" ELSE Null
    /\ docs.setSettings = IF "HTTP_settings" \in file THEN "HTTP_settings" ELSE Null
    /\ server # {} => serverDoc = docs.setSettings

(* The manager counts loads, not modules.  Still the program is called     *)
(* back for the first library and for no other: copies of the library that *)
(* are visited after it only register its settings again.                  *)
StartsOnce ==
  started = IF modulesLoadedNum = 0 \/ main \in {"deploy", "callback"} THEN 0 ELSE 1

(* What was asked for is what is used, through two constructors for the    *)
(* tunnel: ports modulo 2^16, whatever the client has for defaults, and of *)
(* the addresses a server itself turns into numbers, the source's and the  *)
(* destination's of a forwarding server, only one in dotted decimal.       *)
OptionsReach ==
  \A state \in server :
    LET options == program.options
        Given(key) == Has(options, key, "int")
        InDecimal(key) ==
          LET text == TextOr(options, key, Empty)
          IN IF text \in IPv4 THEN text ELSE AnyAddress
    IN /\ Given("sourcePort") =>
            state.sourcePort = options["sourcePort"].int % 65536
       /\ state.sourceAddress = InDecimal("sourceAddress")
       /\ program.kind = "forwarding" =>
            /\ Given("destPort") =>
                 state.destPort = options["destPort"].int % 65536
            /\ state.destAddress = InDecimal("destAddress")
       /\ program.kind = "tunnel" =>
            \A client \in ClientState(ClientOptions(state)) :
              /\ Given("destPort") =>
                   client.port = options["destPort"].int % 65536
              /\ Given("remotePort") =>
                   client.remotePort = options["remotePort"].int
              /\ client.hostName = TextOr(options, "destAddress", Empty)
              /\ client.remoteHostName = TextOr(options, "remoteAddress", Empty)
              /\ client.userName = TextOr(options, "userName", Empty)
              /\ client.password = TextOr(options, "password", Empty)
              /\ client.srcPort = state.sourcePort
              /\ client.srcHostName = state.sourceAddress

(* A server whose listener waits for connections is never joined: nobody   *)
(* stops its io_context, and the main thread is in the destructor for good.*)
JoinsForGood ==
  [][main = "joining" /\ listener = "accepting" => main' = "joining"]_vars

(* A server that is started comes to listen; unless it cannot, or run has  *)
(* returned 0 without a thread: then a main thread that has been woken is  *)
(* not held up by the destructor, and ends.                                *)
ListensOrEnds ==
  (listener = "spawned" \/ main = "joining") ~>
    \/ listener = "accepting"
    \/ (listener = "ended" \/ pool = << >>) /\ main \notin {"joining", "visit"}

(* What the example prints when it has been woken, "Application Shutting   *)
(* Done": it ends.                                                         *)
Ends == main = "joining" ~> main = "ended"
=============================================================================
