--------------------------- MODULE MCApplication ---------------------------
(* Values of the constants of Application for TLC: the options of the      *)
(* examples, and all that differ from them in one key.                     *)
EXTENDS Application

TunnelExample ==
  [sourceAddress |-> Text("127.0.0.1"), sourcePort |-> Integer(3306),
   destAddress |-> Text("SERVER"), destPort |-> Integer(21098),
   remoteAddress |-> Text("127.0.0.1"), remotePort |-> Integer(3306),
   userName |-> Text("USER"), password |-> Text("PASS")]
ForwardingExample ==
  [key \in {"sourceAddress", "sourcePort", "destAddress", "destPort"} |->
     TunnelExample[key]]

OtherValues ==
  {Text("10.0.0.1"), Text("SERVER"), Integer(-1), Integer(65558), Double}
Variants(example) ==
  {example} \union
  {[example EXCEPT ![key] = value] : key \in DOMAIN example, value \in OtherValues}
    \union {[k \in DOMAIN example \ {key} |-> example[k]] : key \in DOMAIN example}

AllPrograms ==
  [kind : {"tunnel"}, options : Variants(TunnelExample)]
    \union [kind : {"forwarding"}, options : Variants(ForwardingExample)]
Examples ==
  {[kind |-> "tunnel", options |-> TunnelExample],
   [kind |-> "forwarding", options |-> ForwardingExample]}

SomeDirectories ==
  {<<"missing">>} \union UNION {[1..n -> {"library", "file"}] : n \in 0..2}
OneLibrary == {<<"library">>}
=============================================================================
