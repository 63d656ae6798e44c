-------------------------- MODULE ApplicationProofs --------------------------
(***************************************************************************)
(* What is proved of Application: for every directory, settings file,      *)
(* number of threads, option and number of notifications.                  *)
(***************************************************************************)
EXTENDS Application, SequenceTheorems, TLAPS

(* The step of some thread.                                                *)
PoolStep == \E t \in DOMAIN pool : Pool(t)

-----------------------------------------------------------------------------
(* The types.                                                              *)

Places == {"visit", "deploy", "callback", "wait", "falling asleep", "asleep",
           "joining", "ended", "terminated"}
Requests == [name : Names, handle : DOMAIN ModuleCallbackMap]
Pools == UNION {[1..n -> {"new", "run", "done"}] : n \in HardwareThreads \union {0}}

LEMMA CallbackMap ==
  /\ DOMAIN ModuleCallbackMap = {"HTTP_accountsCB", "HTTP_settingsCB"}
  /\ ModuleCallbackMap["HTTP_accountsCB"] = "setAccounts"
  /\ ModuleCallbackMap["HTTP_settingsCB"] = "setSettings"
BY DEF ModuleCallbackMap

LEMMA Request ==
  /\ ModuleRequest \in Seq(Requests)
  /\ ToSet(ModuleRequest) =
       {[name |-> "HTTP_accounts", handle |-> "HTTP_accountsCB"],
        [name |-> "HTTP_settings", handle |-> "HTTP_settingsCB"]}
<1>1. [name |-> "HTTP_accounts", handle |-> "HTTP_accountsCB"] \in Requests
      /\ [name |-> "HTTP_settings", handle |-> "HTTP_settingsCB"] \in Requests
  BY CallbackMap DEF Requests, Names
<1>2. ModuleRequest \in Seq(Requests) /\ Len(ModuleRequest) = 2
      /\ DOMAIN ModuleRequest = 1..2
  BY <1>1 DEF ModuleRequest
<1>3. ToSet(ModuleRequest) = {ModuleRequest[1], ModuleRequest[2]}
  BY <1>2 DEF ToSet
<1> QED
  BY <1>2, <1>3 DEF ModuleRequest

(* Merging what a library asks for: the first time, and again.             *)
LEMMA Merged ==
  ASSUME Merge(ModuleRequest, ModuleCallbackMap),
         callbacks \in {<< >>, ModuleCallbackMap}
  PROVE  callbacks' = ModuleCallbackMap
<1>1. CASE callbacks = << >>
  BY <1>1, CallbackMap DEF Merge, ModuleCallbackMap
<1>2. CASE callbacks = ModuleCallbackMap
  BY <1>2, CallbackMap DEF Merge, ModuleCallbackMap
<1> QED
  BY <1>1, <1>2

(* A pool that is a pool stays one when a thread changes its state.        *)
LEMMA PoolChange ==
  ASSUME pool \in Pools, NEW t \in DOMAIN pool, NEW s \in {"new", "run", "done"},
         pool' = [pool EXCEPT ![t] = s]
  PROVE  pool' \in Pools
<1>1. PICK n \in HardwareThreads \union {0} : pool \in [1..n -> {"new", "run", "done"}]
  BY DEF Pools
<1>2. pool' \in [1..n -> {"new", "run", "done"}]
  BY <1>1
<1> QED
  BY <1>2 DEF Pools

LEMMA Started == ASSUME NEW n \in HardwareThreads PROVE Threads(n) \in Pools
<1>1. Threads(n) \in [1..n -> {"new", "run", "done"}]
  BY DEF Threads
<1> QED
  BY <1>1 DEF Pools

Types ==
  /\ main \in Places
  /\ program \in Programs
  /\ entries \in Seq(Entries) /\ modulesLoadedNum \in Nat
  /\ master \in Seq(Requests)
  /\ callbacks \in {<< >>, ModuleCallbackMap}
  /\ file \subseteq Names
  /\ docs \in [{"setAccounts", "setSettings"} -> Names \union {Null}]
  /\ server \in {{}} \union {{state} : state \in NewState(program)}
  /\ serverDoc \in Names \union {Null} /\ started \in Nat
  /\ handles \subseteq {"exit"} /\ notifies \in 0..MaxNotifies
  /\ pool \in Pools
  /\ listener \in {"none", "spawned", "accepting", "ended"}

LEMMA TypesTypeOK == Types <=> TypeOK
BY DEF Types, TypeOK, Places, Requests, Pools

(* What deploy gives a callback is a name or nothing.                      *)
LEMMA ReceivedType ==
  ASSUME Types, NEW callback \in {"setAccounts", "setSettings"}
  PROVE  Received(callback) \in Names \union {Null}
<1>1. DeliveredTo(callback) \subseteq Names
  BY DEF DeliveredTo, Types
<1>2. CASE DeliveredTo(callback) = {}
  BY <1>2 DEF Received, Types
<1>3. CASE DeliveredTo(callback) # {}
  <2>1. (CHOOSE name \in DeliveredTo(callback) : TRUE) \in DeliveredTo(callback)
    BY <1>3
  <2> QED
    BY <2>1, <1>1, <1>3 DEF Received
<1> QED
  BY <1>2, <1>3

LEMMA InitTypes == Init => Types
<1> SUFFICES ASSUME Init
             PROVE  Types
  OBVIOUS
<1>1. << >> \in Seq(Requests)
  BY EmptySeq
<1>2. pool \in Pools
  <2>1. << >> \in [1..0 -> {"new", "run", "done"}]
    OBVIOUS
  <2> QED
    BY <2>1 DEF Init, Pools
<1>3. docs \in [{"setAccounts", "setSettings"} -> Names \union {Null}]
  BY DEF Init
<1> QED
  BY <1>1, <1>2, <1>3, ApplicationAssumption DEF Init, Types, Places

LEMMA NextTypes == Types /\ [Next]_vars => Types'
<1> SUFFICES ASSUME Types, [Next]_vars
             PROVE  Types'
  OBVIOUS
<1>1. CASE LoadsLibrary
  <2>1. entries' \in Seq(Entries)
    BY <1>1, HeadTailProperties DEF LoadsLibrary, Types
  <2>2. master' \in Seq(Requests)
    BY <1>1, Request, ConcatProperties DEF LoadsLibrary, Merge, Types
  <2>3. callbacks' = ModuleCallbackMap
    BY <1>1, Merged DEF LoadsLibrary, Types
  <2>4. modulesLoadedNum' \in Nat /\ main' \in Places
    BY <1>1 DEF LoadsLibrary, Types, Places
  <2> QED
    BY <1>1, <2>1, <2>2, <2>3, <2>4
    DEF LoadsLibrary, Types, serverVars, poolVars, waitVars
<1>2. CASE SkipsFile
  <2>1. entries' \in Seq(Entries)
    BY <1>2, HeadTailProperties DEF SkipsFile, Types
  <2> QED
    BY <1>2, <2>1 DEF SkipsFile, Types, serverVars, poolVars, waitVars
<1>3. CASE ThrowsNoDirectory
  BY <1>3 DEF ThrowsNoDirectory, Types, Places, loadVars, serverVars, poolVars, waitVars
<1>4. CASE DeploysFile
  <2>1. docs' \in [{"setAccounts", "setSettings"} -> Names \union {Null}]
    BY <1>4, ReceivedType DEF DeploysFile, Types
  <2> QED
    BY <1>4, <2>1 DEF DeploysFile, Types, Places, loadVars, serverVars, poolVars, waitVars
<1>5. CASE MainEnds
  BY <1>5 DEF MainEnds, Types, Places, loadVars, serverVars, poolVars, waitVars
<1>6. CASE StartsServer
  <2>1. pool' \in Pools
    BY <1>6, Started DEF StartsServer
  <2>2. serverDoc' \in Names \union {Null} /\ started' \in Nat
    BY <1>6 DEF StartsServer, Types
  <2> QED
    BY <1>6, <2>1, <2>2 DEF StartsServer, Types, Places, loadVars, waitVars
<1>7. CASE Waits
  BY <1>7 DEF Waits, Types, Places, loadVars, serverVars, poolVars
<1>8. CASE FallsAsleep
  BY <1>8 DEF FallsAsleep, Types, Places, loadVars, serverVars, poolVars, waitVars
<1>9. CASE JoinsAll
  BY <1>9 DEF JoinsAll, Types, Places, loadVars, poolVars, waitVars
<1>10. CASE Notifies
  <2>1. notifies' \in 0..MaxNotifies
    BY <1>10, ApplicationAssumption DEF Notifies, Types
  <2> QED
    BY <1>10, <2>1 DEF Notifies, Types, Places, loadVars, serverVars, poolVars
<1>11. CASE WakesSpuriously
  BY <1>11 DEF WakesSpuriously, Types, Places, loadVars, serverVars, poolVars, waitVars
<1>12. CASE PoolStep
  <2>1. PICK t \in DOMAIN pool : Pool(t)
    BY <1>12 DEF PoolStep
  <2>2. pool' \in Pools
    BY <2>1, PoolChange DEF Pool, Enters, RunsListener, Leaves, Types
  <2>3. listener' \in {"none", "spawned", "accepting", "ended"}
    BY <2>1 DEF Pool, Enters, RunsListener, Leaves, Types
  <2> QED
    BY <2>1, <2>2, <2>3
    DEF Pool, Enters, RunsListener, Leaves, Types, loadVars, serverVars, waitVars
<1>13. CASE UNCHANGED vars
  BY <1>13 DEF vars, loadVars, serverVars, poolVars, waitVars, Types
<1> QED
  BY <1>1, <1>2, <1>3, <1>4, <1>5, <1>6, <1>7, <1>8, <1>9, <1>10, <1>11, <1>12, <1>13
  DEF Next, Main, PoolStep

(* Every variable keeps its type: above all, the pool has as many threads  *)
(* as the hardware.                                                        *)
THEOREM Typed == Spec => []TypeOK
<1>1. Init => TypeOK
  BY InitTypes, TypesTypeOK
<1>2. TypeOK /\ [Next]_vars => TypeOK'
  <2>1. Types' <=> TypeOK'
    BY DEF Types, TypeOK, Places, Requests, Pools
  <2> QED
    BY NextTypes, TypesTypeOK, <2>1
<1> QED
  BY <1>1, <1>2, PTL DEF Spec

-----------------------------------------------------------------------------
(* One server: it is started by the first library that is loaded, and the  *)
(* main thread is where it is because a library has been.                  *)
Counted ==
  /\ StartsOnce
  /\ main \in {"deploy", "callback", "wait", "falling asleep", "asleep", "joining"}
       => modulesLoadedNum # 0

LEMMA InitCounted == Init => Counted
BY DEF Init, Counted, StartsOnce

LEMMA NextCounted == Types /\ Counted /\ [Next]_vars => Counted'
<1> SUFFICES ASSUME Types, Counted, [Next]_vars
             PROVE  Counted'
  OBVIOUS
<1> USE DEF Counted, StartsOnce
<1>1. CASE LoadsLibrary
  <2>1. modulesLoadedNum \in Nat /\ modulesLoadedNum' = modulesLoadedNum + 1
        /\ started' = started /\ main = "visit"
        /\ main' = IF modulesLoadedNum = 0 THEN "deploy" ELSE "visit"
    BY <1>1 DEF LoadsLibrary, EverythingLoaded, Types, serverVars
  <2> QED
    BY <2>1
<1>2. CASE StartsServer
  BY <1>2 DEF StartsServer, Types, loadVars
<1>3. CASE JoinsAll
  BY <1>3 DEF JoinsAll, loadVars
<1>4. CASE PoolStep
  BY <1>4 DEF PoolStep, Pool, Enters, RunsListener, Leaves, loadVars, serverVars
<1>5. CASE SkipsFile
  BY <1>5 DEF SkipsFile, serverVars
<1>6. CASE Notifies
  BY <1>6 DEF Notifies, loadVars, serverVars
<1>7. CASE ThrowsNoDirectory \/ DeploysFile \/ MainEnds \/ Waits \/ FallsAsleep
           \/ WakesSpuriously \/ UNCHANGED vars
  BY <1>7 DEF ThrowsNoDirectory, DeploysFile, MainEnds, Waits, FallsAsleep,
              WakesSpuriously, vars, loadVars, serverVars
<1> QED
  BY <1>1, <1>2, <1>3, <1>4, <1>5, <1>6, <1>7 DEF Next, Main, PoolStep

(* The program is called back once, however many copies of the library are *)
(* loaded.                                                                 *)
THEOREM OneServer == Spec => []StartsOnce
<1>1. Counted => StartsOnce
  BY DEF Counted
<1> QED
  BY InitTypes, NextTypes, InitCounted, NextCounted, <1>1, PTL DEF Spec

-----------------------------------------------------------------------------
(* The settings.                                                           *)

LEMMA ToSetConcat ==
  ASSUME NEW S, NEW p \in Seq(S), NEW q \in Seq(S)
  PROVE  ToSet(p \o q) = ToSet(p) \union ToSet(q)
<1>1. ToSet(p \o q) \subseteq ToSet(p) \union ToSet(q)
  BY ConcatProperties DEF ToSet
<1>2. ToSet(p) \subseteq ToSet(p \o q)
  BY ConcatProperties DEF ToSet
<1>3. ToSet(q) \subseteq ToSet(p \o q)
  <2> SUFFICES ASSUME NEW i \in 1..Len(q)
               PROVE  q[i] \in ToSet(p \o q)
    BY SMTT(20) DEF ToSet
  <2>1. Len(p) \in Nat /\ Len(q) \in Nat /\ Len(p \o q) = Len(p) + Len(q)
        /\ DOMAIN (p \o q) = 1..Len(p \o q)
    BY ConcatProperties
  <2>2. Len(p) + i \in DOMAIN (p \o q)
    BY <2>1
  <2>3. (p \o q)[Len(p) + i] = q[i]
    BY <2>1, ConcatProperties
  <2> QED
    BY <2>2, <2>3 DEF ToSet
<1> QED
  BY <1>1, <1>2, <1>3

(* What the settings manager knows, once a library has been loaded, is     *)
(* what each of its copies has asked for.                                  *)
Registered ==
  IF modulesLoadedNum = 0 THEN master = << >> /\ callbacks = << >>
  ELSE ToSet(master) = ToSet(ModuleRequest) /\ callbacks = ModuleCallbackMap

(* Nothing is delivered before the first library; then what the file has,  *)
(* once and for all.                                                       *)
IfIn(name) == IF name \in file THEN name ELSE Null

Delivered ==
  /\ IF started = 0 /\ main # "callback"
     THEN docs.setAccounts = Null /\ docs.setSettings = Null
     ELSE docs.setAccounts = IfIn("HTTP_accounts")
          /\ docs.setSettings = IfIn("HTTP_settings")
  /\ server # {} => started # 0 /\ serverDoc = docs.setSettings

LEMMA InitSettings == Init => Registered /\ Delivered
BY DEF Init, Registered, Delivered

LEMMA NextRegistered == Types /\ Registered /\ [Next]_vars => Registered'
<1> SUFFICES ASSUME Types, Registered, [Next]_vars
             PROVE  Registered'
  OBVIOUS
<1>1. CASE LoadsLibrary
  <2>1. modulesLoadedNum' # 0
    BY <1>1 DEF LoadsLibrary, Types
  <2>2. callbacks' = ModuleCallbackMap
    BY <1>1, Merged DEF LoadsLibrary, Types
  <2>3. ToSet(master') = ToSet(master) \union ToSet(ModuleRequest)
    BY <1>1, Request, ToSetConcat DEF LoadsLibrary, Merge, Types
  <2>4. ToSet(<< >>) = {}
    BY DEF ToSet
  <2>5. ToSet(master') = ToSet(ModuleRequest)
    BY <2>3, <2>4 DEF Registered
  <2> QED
    BY <2>1, <2>2, <2>5 DEF Registered
<1>2. CASE UNCHANGED <<modulesLoadedNum, master, callbacks>>
  BY <1>2 DEF Registered
<1>3. CASE PoolStep
  BY <1>2, <1>3 DEF PoolStep, Pool, Enters, RunsListener, Leaves, loadVars
<1>4. CASE SkipsFile \/ ThrowsNoDirectory \/ DeploysFile \/ MainEnds \/ StartsServer
           \/ Waits \/ FallsAsleep \/ JoinsAll
  BY <1>2, <1>4 DEF SkipsFile, ThrowsNoDirectory, DeploysFile, MainEnds, StartsServer,
                    Waits, FallsAsleep, JoinsAll, loadVars
<1>5. CASE Notifies \/ WakesSpuriously \/ UNCHANGED vars
  BY <1>2, <1>5 DEF Notifies, WakesSpuriously, vars, loadVars
<1> QED
  BY <1>1, <1>3, <1>4, <1>5 DEF Next, Main, PoolStep

(* What deploy delivers to each callback of the module.                    *)
LEMMA Deliveries ==
  ASSUME Types, Registered, modulesLoadedNum # 0
  PROVE  /\ DeliveredTo("setAccounts") = {"HTTP_accounts"} \intersect file
         /\ DeliveredTo("setSettings") = {"HTTP_settings"} \intersect file
<1>1. callbacks = ModuleCallbackMap
      /\ ToSet(master) =
           {[name |-> "HTTP_accounts", handle |-> "HTTP_accountsCB"],
            [name |-> "HTTP_settings", handle |-> "HTTP_settingsCB"]}
  BY Request DEF Registered
<1> DEFINE accounts == [name |-> "HTTP_accounts", handle |-> "HTTP_accountsCB"]
           settings == [name |-> "HTTP_settings", handle |-> "HTTP_settingsCB"]
           To(callback) == {r \in ToSet(master) :
                              /\ r.name \in file
                              /\ r.handle \in DOMAIN callbacks
                              /\ callbacks[r.handle] = callback}
<1>2. \A r \in {accounts, settings} :
        r.handle \in DOMAIN ModuleCallbackMap
        /\ ModuleCallbackMap[r.handle] =
             IF r = accounts THEN "setAccounts" ELSE "setSettings"
  BY CallbackMap
<1>3. To("setAccounts") = {r \in {accounts} : r.name \in file}
  BY <1>1, <1>2
<1>4. To("setSettings") = {r \in {settings} : r.name \in file}
  BY <1>1, <1>2
<1>5. \A callback : DeliveredTo(callback) = {m.name : m \in To(callback)}
  BY DEF DeliveredTo
<1> HIDE DEF To
<1>6. {m.name : m \in To("setAccounts")} = {"HTTP_accounts"} \intersect file
  BY <1>3, accounts.name = "HTTP_accounts"
<1>7. {m.name : m \in To("setSettings")} = {"HTTP_settings"} \intersect file
  BY <1>4, settings.name = "HTTP_settings"
<1> QED
  BY <1>5, <1>6, <1>7

(* A callback that has nothing yet gets the one member it has asked for.   *)
LEMMA ReceivedIs ==
  ASSUME NEW callback, NEW name, docs[callback] = Null,
         DeliveredTo(callback) = {name} \intersect file
  PROVE  Received(callback) = IfIn(name)
<1>1. CASE name \in file
  <2>1. DeliveredTo(callback) = {name}
    BY <1>1
  <2>2. (CHOOSE n \in DeliveredTo(callback) : TRUE) = name
    BY <2>1
  <2> QED
    BY <1>1, <2>1, <2>2 DEF Received, IfIn
<1>2. CASE name \notin file
  <2>1. DeliveredTo(callback) = {}
    BY <1>2
  <2> QED
    BY <1>2, <2>1 DEF Received, IfIn
<1> QED
  BY <1>1, <1>2

LEMMA NextDelivered ==
  Types /\ Counted /\ Registered /\ Delivered /\ [Next]_vars => Delivered'
<1> SUFFICES ASSUME Types, Counted, Registered, Delivered, [Next]_vars
             PROVE  Delivered'
  OBVIOUS
<1>1. CASE DeploysFile
  <2>1. modulesLoadedNum # 0 /\ started = 0
    BY <1>1 DEF DeploysFile, Counted, StartsOnce
  <2>2. docs["setAccounts"] = Null /\ docs["setSettings"] = Null
    BY <1>1, <2>1 DEF DeploysFile, Delivered
  <2>3. Received("setAccounts") = IfIn("HTTP_accounts")
        /\ Received("setSettings") = IfIn("HTTP_settings")
    BY <2>1, <2>2, Deliveries, ReceivedIs
  <2>4. docs'.setAccounts = IfIn("HTTP_accounts")
        /\ docs'.setSettings = IfIn("HTTP_settings")
    BY <1>1, <2>3 DEF DeploysFile, Types
  <2>5. server = {} /\ server' = server /\ file' = file /\ main' = "callback"
    BY <1>1, <2>1 DEF DeploysFile, Delivered, loadVars, serverVars
  <2> QED
    BY <2>4, <2>5 DEF Delivered, IfIn
<1>2. CASE StartsServer
  <2>1. started' # 0 /\ main = "callback"
    BY <1>2 DEF StartsServer, Types
  <2>2. docs' = docs /\ file' = file /\ serverDoc' = docs.setSettings
    BY <1>2 DEF StartsServer, loadVars
  <2> QED
    BY <2>1, <2>2 DEF Delivered, IfIn
<1>3. CASE JoinsAll
  BY <1>3 DEF JoinsAll, Delivered, IfIn, loadVars
<1>4. ASSUME UNCHANGED <<docs, file, server, serverDoc, started>>,
             (main = "callback") <=> (main' = "callback")
      PROVE  Delivered'
  BY <1>4 DEF Delivered, IfIn
<1>5. CASE LoadsLibrary \/ SkipsFile \/ ThrowsNoDirectory \/ MainEnds
  BY <1>4, <1>5
  DEF LoadsLibrary, SkipsFile, ThrowsNoDirectory, MainEnds, loadVars, serverVars
<1>6. CASE Waits \/ FallsAsleep \/ Notifies \/ WakesSpuriously
  BY <1>4, <1>6 DEF Waits, FallsAsleep, Notifies, WakesSpuriously, loadVars, serverVars
<1>7. CASE PoolStep
  BY <1>4, <1>7 DEF PoolStep, Pool, Enters, RunsListener, Leaves, loadVars, serverVars
<1>8. CASE UNCHANGED vars
  BY <1>4, <1>8 DEF vars, loadVars, serverVars
<1> QED
  BY <1>1, <1>2, <1>3, <1>5, <1>6, <1>7, <1>8 DEF Next, Main, PoolStep

(* The settings of the file, and no others, are there before the server,   *)
(* and it has them.                                                        *)
THEOREM SettingsBeforeServer == Spec => []SettingsFirst
<1>1. Delivered => SettingsFirst
  BY DEF Delivered, SettingsFirst, IfIn
<1> QED
  BY InitTypes, NextTypes, InitCounted, NextCounted, InitSettings, NextRegistered,
     NextDelivered, <1>1, PTL DEF Spec

-----------------------------------------------------------------------------
(* The threads.                                                            *)

LEMMA PoolIsFunction ==
  ASSUME Types
  PROVE  \E n \in Nat : pool \in [1..n -> {"new", "run", "done"}]
BY ApplicationAssumption DEF Types, Pools

(* A listener that waits for connections keeps a thread in the io_context. *)
Accepting == listener = "accepting" => \E t \in DOMAIN pool : pool[t] = "run"

LEMMA NextAccepting == Types /\ Accepting /\ [Next]_vars => Accepting'
<1> SUFFICES ASSUME Types, Accepting, [Next]_vars
             PROVE  Accepting'
  OBVIOUS
<1>1. CASE StartsServer
  BY <1>1 DEF StartsServer, Accepting
<1>2. CASE PoolStep
  <2>1. PICK t \in DOMAIN pool : Pool(t)
    BY <1>2 DEF PoolStep
  <2>2. PICK n \in Nat : pool \in [1..n -> {"new", "run", "done"}]
    BY PoolIsFunction
  <2>3. CASE Enters(t)
    <3>1. \A u \in DOMAIN pool : pool[u] = "run" => pool'[u] = "run"
      BY <2>2, <2>3 DEF Enters
    <3>2. DOMAIN pool' = DOMAIN pool /\ listener' = listener
      BY <2>2, <2>3 DEF Enters
    <3> QED
      BY <3>1, <3>2 DEF Accepting
  <2>4. CASE RunsListener(t)
    BY <2>4 DEF RunsListener, Accepting
  <2>5. CASE Leaves(t)
    BY <2>5 DEF Leaves, OutOfWork, Accepting
  <2> QED
    BY <2>1, <2>3, <2>4, <2>5 DEF Pool
<1>3. CASE LoadsLibrary \/ SkipsFile \/ ThrowsNoDirectory \/ DeploysFile \/ MainEnds
           \/ JoinsAll
  BY <1>3 DEF LoadsLibrary, SkipsFile, ThrowsNoDirectory, DeploysFile, MainEnds,
              JoinsAll, poolVars, Accepting
<1>4. CASE Waits \/ FallsAsleep \/ Notifies \/ WakesSpuriously \/ UNCHANGED vars
  BY <1>4 DEF Waits, FallsAsleep, Notifies, WakesSpuriously, vars, poolVars, Accepting
<1> QED
  BY <1>1, <1>2, <1>3, <1>4 DEF Next, Main, PoolStep

(* Whatever wakes the program, the destructor of a server that listens     *)
(* does not return.                                                        *)
THEOREM NeverJoined == Spec => JoinsForGood
<1>1. Init => Accepting
  BY DEF Init, Accepting
<1>2. Accepting /\ [Next]_vars
        => [main = "joining" /\ listener = "accepting" => main' = "joining"]_vars
  <2> SUFFICES ASSUME Accepting, Next, main = "joining", listener = "accepting"
               PROVE  main' = "joining"
    BY DEF vars
  <2>1. ~ JoinsAll
    BY DEF Accepting, JoinsAll, AllJoined
  <2>2. CASE PoolStep
    BY <2>2 DEF PoolStep, Pool, Enters, RunsListener, Leaves
  <2>3. CASE Notifies
    BY <2>3 DEF Notifies
  <2>4. ~ Main /\ ~ WakesSpuriously
    BY <2>1 DEF Main, LoadsLibrary, SkipsFile, ThrowsNoDirectory, DeploysFile, MainEnds,
                StartsServer, Waits, FallsAsleep, WakesSpuriously
  <2> QED
    BY <2>2, <2>3, <2>4 DEF Next, PoolStep
<1> QED
  BY InitTypes, NextTypes, <1>1, NextAccepting, <1>2, PTL DEF Spec, JoinsForGood

-----------------------------------------------------------------------------
(* The options.                                                            *)

(* A key that is there with the type looked for is read.                   *)
LEMMA Given ==
  ASSUME NEW options, NEW key, Has(options, key, "int")
  PROVE  /\ Ints(options, key) = {options[key].int}
         /\ Shorts(options, key) = {options[key].int % 65536}
<1>1. Ints(options, key) = {options[key].int}
  BY DEF Ints
<1> QED
  BY <1>1 DEF Shorts

(* What the listener makes for a client has the type the client looks for. *)
LEMMA Passed ==
  ASSUME NEW state
  PROVE  LET options == ClientOptions(state) IN
         /\ Ints(options, "srcPort") = {state.sourcePort}
         /\ Shorts(options, "port") = {state.destPortInt % 65536}
         /\ Ints(options, "remotePort") = {state.remotePortInt}
         /\ \A default :
              /\ TextOr(options, "srcHostName", default) = state.sourceAddress
              /\ TextOr(options, "hostName", default) = state.destAddressStr
              /\ TextOr(options, "remoteHostName", default) = state.remoteAddressStr
              /\ TextOr(options, "userName", default) = state.userNameStr
              /\ TextOr(options, "password", default) = state.passwordStr
<1> DEFINE options == ClientOptions(state)
<1>1. /\ Has(options, "srcPort", "int") /\ options["srcPort"].int = state.sourcePort
      /\ Has(options, "port", "int") /\ options["port"].int = state.destPortInt
      /\ Has(options, "remotePort", "int")
      /\ options["remotePort"].int = state.remotePortInt
  BY DEF ClientOptions, Has, Integer, Text
<1>2. /\ Has(options, "srcHostName", "string")
      /\ options["srcHostName"].text = state.sourceAddress
      /\ Has(options, "hostName", "string")
      /\ options["hostName"].text = state.destAddressStr
      /\ Has(options, "remoteHostName", "string")
      /\ options["remoteHostName"].text = state.remoteAddressStr
  BY DEF ClientOptions, Has, Integer, Text
<1>3. /\ Has(options, "userName", "string")
      /\ options["userName"].text = state.userNameStr
      /\ Has(options, "password", "string")
      /\ options["password"].text = state.passwordStr
  BY DEF ClientOptions, Has, Integer, Text
<1> HIDE DEF options
<1>4. /\ Ints(options, "srcPort") = {state.sourcePort}
      /\ Shorts(options, "port") = {state.destPortInt % 65536}
      /\ Ints(options, "remotePort") = {state.remotePortInt}
  BY <1>1, Given
<1>5. \A default :
        /\ TextOr(options, "srcHostName", default) = state.sourceAddress
        /\ TextOr(options, "hostName", default) = state.destAddressStr
        /\ TextOr(options, "remoteHostName", default) = state.remoteAddressStr
        /\ TextOr(options, "userName", default) = state.userNameStr
        /\ TextOr(options, "password", default) = state.passwordStr
  BY <1>2, <1>3 DEF TextOr
<1> QED
  BY <1>4, <1>5 DEF options

(* What OptionsReach says of a state of the server that was made from      *)
(* options.                                                                *)
InDecimal(options, key) ==
  LET text == TextOr(options, key, Empty)
  IN IF text \in IPv4 THEN text ELSE AnyAddress

Source(options, state) ==
  /\ Has(options, "sourcePort", "int") =>
       state.sourcePort = options["sourcePort"].int % 65536
  /\ state.sourceAddress = InDecimal(options, "sourceAddress")

Forwarded(options, state) ==
  /\ Has(options, "destPort", "int") =>
       state.destPort = options["destPort"].int % 65536
  /\ state.destAddress = InDecimal(options, "destAddress")

Tunnelled(options, state) ==
  \A client \in ClientState(ClientOptions(state)) :
    /\ Has(options, "destPort", "int") =>
         client.port = options["destPort"].int % 65536
    /\ Has(options, "remotePort", "int") =>
         client.remotePort = options["remotePort"].int
    /\ client.hostName = TextOr(options, "destAddress", Empty)
    /\ client.remoteHostName = TextOr(options, "remoteAddress", Empty)
    /\ client.userName = TextOr(options, "userName", Empty)
    /\ client.password = TextOr(options, "password", Empty)
    /\ client.srcPort = state.sourcePort
    /\ client.srcHostName = state.sourceAddress

(* An address that is missing is as good as one that is no address.        *)
LEMMA AddressGiven ==
  ASSUME NEW options, NEW key
  PROVE  Address(options, key) = InDecimal(options, key)
BY OptionsAssumption DEF Address, TextOr, InDecimal

LEMMA ForwardingReaches ==
  ASSUME NEW options, NEW state \in ForwardingServerState(options)
  PROVE  Source(options, state) /\ Forwarded(options, state)
<1>1. /\ state.sourcePort \in Shorts(options, "sourcePort")
      /\ state.destPort \in Shorts(options, "destPort")
      /\ state.sourceAddress = Address(options, "sourceAddress")
      /\ state.destAddress = Address(options, "destAddress")
  BY DEF ForwardingServerState
<1> QED
  BY <1>1, Given, AddressGiven DEF Source, Forwarded

LEMMA TunnelReaches ==
  ASSUME NEW options, NEW state \in TunnelServerState(options)
  PROVE  Source(options, state) /\ Tunnelled(options, state)
<1>1. /\ state.sourcePort \in Shorts(options, "sourcePort")
      /\ state.destPortInt \in Ints(options, "destPort")
      /\ state.remotePortInt \in Ints(options, "remotePort")
      /\ state.sourceAddress = Address(options, "sourceAddress")
      /\ state.destAddressStr = TextOr(options, "destAddress", Empty)
      /\ state.remoteAddressStr = TextOr(options, "remoteAddress", Empty)
      /\ state.userNameStr = TextOr(options, "userName", Empty)
      /\ state.passwordStr = TextOr(options, "password", Empty)
  BY DEF TunnelServerState
<1>2. Source(options, state)
  BY <1>1, Given, AddressGiven DEF Source
<1>3. ASSUME NEW client \in ClientState(ClientOptions(state))
      PROVE  /\ client.srcPort = state.sourcePort
             /\ client.srcHostName = state.sourceAddress
             /\ client.port = state.destPortInt % 65536
             /\ client.remotePort = state.remotePortInt
             /\ client.hostName = state.destAddressStr
             /\ client.remoteHostName = state.remoteAddressStr
             /\ client.userName = state.userNameStr
             /\ client.password = state.passwordStr
  BY Passed DEF ClientState
<1>4. Tunnelled(options, state)
  BY <1>1, <1>3, Given DEF Tunnelled
<1> QED
  BY <1>2, <1>4

(* The addresses and ports the program asks for are the ones that are      *)
(* used, for every set of options.                                         *)
THEOREM OptionsUsed == Spec => []OptionsReach
<1>1. Types => OptionsReach
  <2> SUFFICES ASSUME Types, NEW state \in server
               PROVE  /\ Source(program.options, state)
                      /\ program.kind = "forwarding" => Forwarded(program.options, state)
                      /\ program.kind = "tunnel" => Tunnelled(program.options, state)
    BY DEF OptionsReach, Source, Forwarded, Tunnelled, InDecimal
  <2>1. state \in NewState(program) /\ program.kind \in {"tunnel", "forwarding"}
    BY ApplicationAssumption DEF Types
  <2>2. CASE program.kind = "tunnel"
    BY <2>1, <2>2, TunnelReaches DEF NewState
  <2>3. CASE program.kind = "forwarding"
    BY <2>1, <2>3, ForwardingReaches DEF NewState
  <2> QED
    BY <2>1, <2>2, <2>3
<1> QED
  BY InitTypes, NextTypes, <1>1, PTL DEF Spec
=============================================================================
