---------------------------- MODULE BindingTable ----------------------------
(***************************************************************************)
(* What the NAT of the WireGuard exit promises, without its two maps, its  *)
(* allocator's cursor or its reassembly windows: one bounded table in      *)
(* which a conversation has one port and a port one conversation, which a  *)
(* packet in either direction keeps alive, and which silence or a reset    *)
(* ends.  Nat44 implements this specification.                             *)
(***************************************************************************)
EXTENDS Naturals, FiniteSets

CONSTANTS
  Keys,          \* the conversations
  Hosts, NoHost, \* their source addresses, and "none"
  Protos,
  Ports,         \* the range that ports are handed out from
  MAX_BINDINGS,
  Limit,         \* how long a conversation of a protocol may be silent
  Forwards, NoForward,
  Leased         \* does the forward come and go?

VARIABLES
  table,         \* the port and the age of every conversation that has one
  forward,
  out            \* what the last packet was made into

vars == <<table, forward, out>>

Told(dir, verdict, proto, addr, sport, port) ==
  [dir |-> dir, verdict |-> verdict, proto |-> proto,
   ep |-> [addr |-> addr, port |-> sport], port |-> port]

\* The forward owns its number in both of the protocols that have ports.
Forwarded(proto, port) ==
  proto \in {"tcp", "udp"} /\ forward # NoForward /\ port = forward.port
FromForward(k) == Forwarded(k.proto, k.sport) /\ k.src = forward.host

Free(proto) ==
  {p \in Ports : ~Forwarded(proto, p)} \
    {table[k].port : k \in {x \in DOMAIN table : x.proto = proto}}
Full == Cardinality(DOMAIN table) >= MAX_BINDINGS

Left(S) == [x \in DOMAIN table \ S |-> table[x]]
Renewed(k, port) ==
  [x \in DOMAIN table \cup {k} |-> IF x = k THEN [port |-> port, age |-> 0] ELSE table[x]]

\* A packet keeps conversation k alive at its port; a TCP reset ends it.
Goes(k, port) ==
  \/ table' = Renewed(k, port)
  \/ k.proto = "tcp" /\ table' = Left({k})

Init ==
  /\ table = <<>>
  /\ forward \in Forwards \cup {NoForward}
  /\ out = Told("none", "Drop", "icmp", NoHost, 0, 0)

\* A packet of conversation k leaves from the port that k has, or is given.
Leave(k, port) ==
  /\ out' = Told("out", "Translate", k.proto, k.src, k.sport, port)
  /\ ~FromForward(k)
  /\ IF k \in DOMAIN table THEN port = table[k].port ELSE ~Full /\ port \in Free(k.proto)
  /\ Goes(k, port)
  /\ UNCHANGED forward

\* A new conversation is refused only when there is nothing to give it.
Refuse(k) ==
  /\ out' = Told("out", "Exhausted", k.proto, NoHost, 0, 0)
  /\ ~FromForward(k) /\ k \notin DOMAIN table
  /\ Full \/ Free(k.proto) = {}
  /\ UNCHANGED <<table, forward>>

\* A packet for a port, or an error about one, reaches the conversation that has it.
Arrive(k, port) ==
  /\ out' = Told("in", "Translate", k.proto, k.src, k.sport, port)
  /\ ~Forwarded(k.proto, port)
  /\ k \in DOMAIN table /\ port = table[k].port
  /\ Goes(k, port)
  /\ UNCHANGED forward

\* Packets through the forward, and those without a port, leave the table alone.
Pass ==
  /\ \/ \E k \in Keys :
          FromForward(k) /\ out' = Told("out", "Translate", k.proto, k.src, k.sport, k.sport)
     \/ \E proto \in Protos :
          /\ Forwarded(proto, forward.port)
          /\ out' = Told("in", "Translate", proto, forward.host, forward.port, forward.port)
     \/ \E dir \in {"in", "out"} : out' = Told(dir, "Drop", "icmp", NoHost, 0, 0)
     \/ out' = Told("out", "Translate", "icmp", NoHost, 0, 0)
     \/ \E proto \in Protos, host \in Hosts : out' = Told("in", "Translate", proto, host, 0, 0)
  /\ UNCHANGED <<table, forward>>

Expire ==
  /\ table' = Left({k \in DOMAIN table : table[k].age >= Limit[k.proto]})
  /\ UNCHANGED <<forward, out>>

Tick ==
  /\ table' = [k \in DOMAIN table |->
                [table[k] EXCEPT !.age = IF @ < Limit[k.proto] THEN @ + 1 ELSE @]]
  /\ UNCHANGED <<forward, out>>

Lease ==
  /\ Leased
  /\ forward' \in Forwards \cup {NoForward}
  /\ UNCHANGED <<table, out>>

Next ==
  \/ \E k \in Keys, port \in Ports : Leave(k, port) \/ Arrive(k, port)
  \/ \E k \in Keys : Refuse(k)
  \/ Pass \/ Expire \/ Tick \/ Lease

Spec == Init /\ [][Next]_vars
=============================================================================
