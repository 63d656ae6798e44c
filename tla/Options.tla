------------------------------- MODULE Options -------------------------------
(***************************************************************************)
(* The options a server is made from, on their way to the addresses and    *)
(* ports the program uses: the constructors of TunnelServerImpl,           *)
(* ForwardingServerImpl and ClientImpl, and the options the listener of    *)
(* the tunnel server makes for the client of each connection               *)
(* (src/core/TunnelServer.cpp, PortForwardingServer.cpp, Client.cpp,       *)
(* TunnelServerListener.cpp).                                              *)
(*                                                                         *)
(* Options are a function from keys to values of three types.  A key that  *)
(* is missing, or has a value of another type than the constructor looks   *)
(* for, leaves its field as it was: an integer uninitialized.  So the      *)
(* constructors are operators whose value is the set of the states that    *)
(* may come out.                                                           *)
(***************************************************************************)
EXTENDS Integers

CONSTANTS
  Texts,      \* the strings
  IPv4,       \* the strings that are an IPv4 address in dotted decimal
  Garbage     \* what an uninitialized integer may hold

AnyAddress == "0.0.0.0"  \* a default-constructed address
Empty == ""              \* a default-constructed string
LocalHost == "127.0.0.1" \* what ClientState begins with

ASSUME OptionsAssumption ==
  /\ IPv4 \subseteq Texts /\ Empty \notin IPv4
  /\ Garbage \subseteq Int /\ Garbage # {}

(* std::variant<int, double, std::string>                                  *)
Integer(n) == [type |-> "int", int |-> n, text |-> Empty]
Text(t) == [type |-> "string", int |-> 0, text |-> t]
Double == [type |-> "double", int |-> 0, text |-> Empty]

Has(options, key, type) == key \in DOMAIN options /\ options[key].type = type

(* What a field that takes an int, or its low 16 bits, may hold.           *)
Ints(options, key) ==
  IF Has(options, key, "int") THEN {options[key].int} ELSE Garbage
Shorts(options, key) == {n % 65536 : n \in Ints(options, key)}

TextOr(options, key, default) ==
  IF Has(options, key, "string") THEN options[key].text ELSE default

(* address_v4::from_string: a string that is no address is logged, and     *)
(* leaves the default address.                                             *)
Address(options, key) ==
  LET text == TextOr(options, key, AnyAddress) IN
  IF text \in IPv4 THEN text ELSE AnyAddress

(* Mutant: the source address is not taken over.                           *)
TunnelServerStateAnywhere(options) ==
  [sourceAddress : {AnyAddress},
   sourcePort : Shorts(options, "sourcePort"),
   destAddressStr : {TextOr(options, "destAddress", Empty)},
   destPortInt : Ints(options, "destPort"),
   remoteAddressStr : {TextOr(options, "remoteAddress", Empty)},
   remotePortInt : Ints(options, "remotePort"),
   userNameStr : {TextOr(options, "userName", Empty)},
   passwordStr : {TextOr(options, "password", Empty)}]

TunnelServerState(options) ==
  [sourceAddress : {Address(options, "sourceAddress")},
   sourcePort : Shorts(options, "sourcePort"),
   destAddressStr : {TextOr(options, "destAddress", Empty)},
   destPortInt : Ints(options, "destPort"),
   remoteAddressStr : {TextOr(options, "remoteAddress", Empty)},
   remotePortInt : Ints(options, "remotePort"),
   userNameStr : {TextOr(options, "userName", Empty)},
   passwordStr : {TextOr(options, "password", Empty)}]

(* Mutant: the destination is not narrowed to a port.                      *)
ForwardingServerStateWide(options) ==
  [sourceAddress : {Address(options, "sourceAddress")},
   sourcePort : Shorts(options, "sourcePort"),
   destAddress : {Address(options, "destAddress")},
   destPort : Ints(options, "destPort")]

ForwardingServerState(options) ==
  [sourceAddress : {Address(options, "sourceAddress")},
   sourcePort : Shorts(options, "sourcePort"),
   destAddress : {Address(options, "destAddress")},
   destPort : Shorts(options, "destPort")]

(* What the listener of the tunnel server gives each client.               *)
ClientOptions(state) ==
  [srcHostName |-> Text(state.sourceAddress), srcPort |-> Integer(state.sourcePort),
   hostName |-> Text(state.destAddressStr), port |-> Integer(state.destPortInt),
   remoteHostName |-> Text(state.remoteAddressStr),
   remotePort |-> Integer(state.remotePortInt),
   userName |-> Text(state.userNameStr), password |-> Text(state.passwordStr)]

ClientState(options) ==
  [srcHostName : {TextOr(options, "srcHostName", LocalHost)},
   srcPort : Ints(options, "srcPort"),
   hostName : {TextOr(options, "hostName", Empty)},
   port : Shorts(options, "port"),
   remoteHostName : {TextOr(options, "remoteHostName", LocalHost)},
   remotePort : Ints(options, "remotePort"),
   userName : {TextOr(options, "userName", Empty)},
   password : {TextOr(options, "password", Empty)}]
=============================================================================
