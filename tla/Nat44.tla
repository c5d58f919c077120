-------------------------------- MODULE Nat44 --------------------------------
(***************************************************************************)
(* The NAT44 of the WireGuard exit: struct Nat of src/src/wg.rs.           *)
(*                                                                         *)
(* Two hash maps are kept in step: fwd sends a host conversation to the    *)
(* external port it leaves from, rev sends (protocol, external port) back  *)
(* to the conversation.  A rotating cursor hands ports out.  One port may  *)
(* be forwarded by the provider: it is reserved by the allocator, accepts  *)
(* every peer, and the host's own packets from it keep their port.         *)
(*                                                                         *)
(* An Instant is modelled by its age: Tick ages every entry, and the age   *)
(* saturates at the idle limit, which is all that the code compares it     *)
(* with.  Byte-level rewriting and checksums are not in this module.       *)
(***************************************************************************)
EXTENDS Naturals, FiniteSets, Functions

CONSTANTS
  Keys,          \* the conversations the host may hold: a set of FwdKey
  Hosts,         \* source addresses behind the NAT
  Peers,         \* routable remote addresses
  LocalPorts,    \* port numbers and echo identifiers the host uses
  NoHost,        \* stands for "no endpoint"
  NoForward,     \* Option::None of Nat.forward
  PORT_LO, PORT_HI,
  MAX_BINDINGS,
  TCP_IDLE, UDP_IDLE, ICMP_IDLE, FRAG_IDLE,
  IpIds,         \* IP identification values
  ForwardHost,   \* the host of the ForwardPlan
  ForwardPorts,  \* port numbers the provider may forward
  Plan,          \* "none", "fixed" or "leased"
  CounterMax     \* where forwarded_in saturates (u64::MAX in the code)

Protos == {"tcp", "udp", "icmp"}
PortProtos == {"tcp", "udp"}
Ports == PORT_LO .. PORT_HI
AllPorts == Ports \cup ForwardPorts \cup LocalPorts

FwdKey == [proto : Protos, src : Hosts, sport : LocalPorts,
           dst : Peers, dport : Nat]
RevKey == [proto : Protos, port : AllPorts]
FragKey == [src : Peers, ip_id : IpIds, proto : Protos]
Binding == [src : Hosts, sport : LocalPorts, dst : Peers, dport : Nat, age : Nat]
Endpoint == [addr : Hosts \cup {NoHost}, port : AllPorts \cup {0}]
Forward == [host : Hosts, port : ForwardPorts]
Verdicts == {"Translate", "Drop", "Exhausted"}
Window == [host : Hosts, age : Nat]
Outcome == [dir : {"none", "out", "in"}, verdict : Verdicts, proto : Protos,
            ep : Endpoint, port : AllPorts \cup {0}]
MapOK(m, K, V) == DOMAIN m \subseteq K /\ m \in [DOMAIN m -> V]

ASSUME KeysAssumption == Keys \subseteq FwdKey
ASSUME PortAssumption ==
  /\ PORT_LO \in Nat \ {0} /\ PORT_HI \in Nat /\ PORT_LO <= PORT_HI
  /\ ForwardPorts \subseteq Nat \ {0} /\ LocalPorts \subseteq Nat
ASSUME BoundAssumption ==
  /\ MAX_BINDINGS \in Nat \ {0} /\ CounterMax \in Nat \ {0}
  /\ {TCP_IDLE, UDP_IDLE, ICMP_IDLE, FRAG_IDLE} \subseteq Nat \ {0}
ASSUME HostAssumption ==
  /\ ForwardHost \in Hosts /\ NoHost \notin Hosts
  /\ NoForward \notin Forward
  /\ Plan \in {"none", "fixed", "leased"}
  /\ Plan # "none" => ForwardPorts # {}

VARIABLES
  fwd,           \* HashMap<FwdKey, u16>
  rev,           \* HashMap<RevKey, Binding>
  frag,          \* HashMap<FragKey, (Ipv4Addr, Instant)>
  next_port,     \* the rotating allocation cursor
  forward,       \* Option<Forward>
  forwarded_in,  \* packets accepted through the forward
  out,           \* what the last call returned, and the packet it rewrote
  via            \* history: the endpoint that last left through each RevKey

vars == <<fwd, rev, frag, next_port, forward, forwarded_in, out, via>>

-----------------------------------------------------------------------------
(* Maps.                                                                   *)

Insert(m, k, v) == [x \in DOMAIN m \cup {k} |-> IF x = k THEN v ELSE m[x]]
Without(m, S) == Restrict(m, DOMAIN m \ S)

RK(proto, port) == [proto |-> proto, port |-> port]
NoEndpoint == [addr |-> NoHost, port |-> 0]
EndpointOf(b) == [addr |-> b.src, port |-> b.sport]

\* The FwdKey that close and expire rebuild from a binding.
KeyOf(rk, b) == [proto |-> rk.proto, src |-> b.src, sport |-> b.sport,
                 dst |-> b.dst, dport |-> b.dport]
BindingFor(k) == [src |-> k.src, sport |-> k.sport,
                  dst |-> k.dst, dport |-> k.dport, age |-> 0]

\* Mutant of Refreshed: packets do not keep a binding alive.
RefreshedNever(b) == b

\* b.last = now
Refreshed(b) == [b EXCEPT !.age = 0]

\* Mutant: close forgets the forward map.
ClosedFwdForgets(f, r, rk) == f

\* close: what is left of the forward map once rk's binding is taken out of r.
ClosedFwd(f, r, rk) ==
  IF rk \in DOMAIN r THEN Without(f, {KeyOf(rk, r[rk])}) ELSE f

Result(dir, verdict, proto, ep, port) ==
  [dir |-> dir, verdict |-> verdict, proto |-> proto, ep |-> ep, port |-> port]
Dropped(dir) == Result(dir, "Drop", "icmp", NoEndpoint, 0)

Idle(proto) == CASE proto = "tcp" -> TCP_IDLE
                 [] proto = "udp" -> UDP_IDLE
                 [] OTHER -> ICMP_IDLE

-----------------------------------------------------------------------------
(* Initial state: Nat::new, then the fixed plan's set_forward before the   *)
(* driver moves its first packet.                                          *)

Init ==
  /\ fwd = <<>> /\ rev = <<>> /\ frag = <<>>
  /\ next_port = PORT_LO
  /\ forward \in IF Plan = "fixed"
                 THEN [host : {ForwardHost}, port : ForwardPorts]
                 ELSE {NoForward}
  /\ forwarded_in = 0
  /\ out = Dropped("none")
  /\ via = [k \in RevKey |-> NoEndpoint]

-----------------------------------------------------------------------------
(* The allocator.                                                          *)

\* Mutants of Reserved: not reserved at all; reserved for TCP only.
ReservedNever(proto, p) == FALSE
ReservedTcpOnly(proto, p) ==
  proto = "tcp" /\ forward # NoForward /\ forward.port = p

\* The provider-forwarded port is never handed out for TCP or UDP.
Reserved(proto, p) ==
  proto \in PortProtos /\ forward # NoForward /\ forward.port = p

AtCeiling == Cardinality(DOMAIN rev) >= MAX_BINDINGS

\* Mutant of FreePorts: the reverse map is not consulted.
FreePortsUnchecked(proto) == {p \in Ports : ~Reserved(proto, p)}

FreePorts(proto) ==
  {p \in Ports : ~Reserved(proto, p) /\ RK(proto, p) \notin DOMAIN rev}

\* How many ports the scan steps over before it looks at p.
Hops(p) ==
  IF p >= next_port THEN p - next_port ELSE (p + (PORT_HI - PORT_LO) + 1) - next_port

\* Mutant of Advance: the cursor runs past the end of the range.
AdvanceNoWrap(p) == p + 1

\* The cursor after the scan has looked at p.
Advance(p) == IF p >= PORT_HI THEN PORT_LO ELSE p + 1

\* alloc_port returns Some(p).
Allocates(proto, p) ==
  /\ ~AtCeiling
  /\ p \in FreePorts(proto)
  /\ \A q \in FreePorts(proto) : Hops(p) <= Hops(q)
  /\ next_port' = Advance(p)

\* alloc_port returns None; a scan of the whole range ends where it began.
AllocFails(proto) ==
  /\ AtCeiling \/ FreePorts(proto) = {}
  /\ UNCHANGED next_port

-----------------------------------------------------------------------------
(* translate_out: host to peer.                                            *)

\* The packet is from the forwarded port itself: a cone mapping, no binding.
Cone(k) ==
  /\ forward # NoForward
  /\ k.proto \in PortProtos /\ k.src = forward.host /\ k.sport = forward.port

\* The end of translate_out: rewrite, then a TCP RST closes the binding.
\* f and r are the maps with the binding present and refreshed.
Emit(k, p, f, r, rst) ==
  LET rk == RK(k.proto, p) IN
  /\ fwd' = IF rst THEN ClosedFwd(f, r, rk) ELSE f
  /\ rev' = IF rst THEN Without(r, {rk}) ELSE r
  /\ out' = Result("out", "Translate", k.proto, [addr |-> k.src, port |-> k.sport], p)
  /\ via' = [via EXCEPT ![rk] = [addr |-> k.src, port |-> k.sport]]

\* A packet of a conversation that already has a port.
OutKnown(k, rst) ==
  /\ ~Cone(k)
  /\ k \in DOMAIN fwd
  /\ LET rk == RK(k.proto, fwd[k])
         r == IF rk \in DOMAIN rev THEN Insert(rev, rk, Refreshed(rev[rk]))
                                   ELSE rev
     IN  Emit(k, fwd[k], fwd, r, rst)
  /\ UNCHANGED <<frag, next_port, forward, forwarded_in>>

\* The first packet of a conversation.
OutNew(k, rst) ==
  /\ ~Cone(k)
  /\ k \notin DOMAIN fwd
  /\ \E p \in Ports :
       /\ Allocates(k.proto, p)
       /\ Emit(k, p, Insert(fwd, k, p), Insert(rev, RK(k.proto, p), BindingFor(k)), rst)
  /\ UNCHANGED <<frag, forward, forwarded_in>>

\* The first packet of a conversation when no port is left: Verdict::Exhausted.
OutExhausted(k) ==
  /\ ~Cone(k)
  /\ k \notin DOMAIN fwd
  /\ AllocFails(k.proto)
  /\ out' = Result("out", "Exhausted", k.proto, NoEndpoint, 0)
  /\ UNCHANGED <<fwd, rev, frag, forward, forwarded_in, via>>

\* The host's own packet from the forwarded port.
OutCone(k) ==
  /\ Cone(k)
  /\ out' = Result("out", "Translate", k.proto, [addr |-> k.src, port |-> k.sport], k.sport)
  /\ via' = [via EXCEPT ![RK(k.proto, k.sport)] = [addr |-> k.src, port |-> k.sport]]
  /\ UNCHANGED <<fwd, rev, frag, next_port, forward, forwarded_in>>

\* Later fragments, ICMP other than echo, and protocols without ports need
\* only the address rewritten; unparsable, unroutable and truncated packets
\* are dropped.  Neither touches the tables.
OutStateless ==
  /\ out' \in {Dropped("out"), Result("out", "Translate", "icmp", NoEndpoint, 0)}
  /\ UNCHANGED <<fwd, rev, frag, next_port, forward, forwarded_in, via>>

-----------------------------------------------------------------------------
(* translate_in: peer to host.                                             *)

\* The inbound packet (or ICMP quote) is for the forwarded port.
ForForward(proto, port) ==
  proto \in PortProtos /\ forward # NoForward /\ port = forward.port

\* A first fragment opens the reassembly window for the later ones.
NoteFragment(peer, id, proto, more, host) ==
  frag' = IF more
          THEN Insert(frag, [src |-> peer, ip_id |-> id, proto |-> proto],
                      [host |-> host, age |-> 0])
          ELSE frag

InForward(peer, id, proto, port, more) ==
  /\ ForForward(proto, port)
  /\ NoteFragment(peer, id, proto, more, forward.host)
  /\ forwarded_in' = IF forwarded_in < CounterMax THEN forwarded_in + 1 ELSE forwarded_in
  /\ out' = Result("in", "Translate", proto, [addr |-> forward.host, port |-> port], port)
  /\ UNCHANGED <<fwd, rev, next_port, forward, via>>

InBinding(peer, id, proto, port, more, rst) ==
  LET rk == RK(proto, port) IN
  /\ ~ForForward(proto, port)
  /\ rk \in DOMAIN rev
  /\ NoteFragment(peer, id, proto, more, rev[rk].src)
  /\ rev' = IF rst THEN Without(rev, {rk}) ELSE Insert(rev, rk, Refreshed(rev[rk]))
  /\ fwd' = IF rst THEN ClosedFwd(fwd, rev, rk) ELSE fwd
  /\ out' = Result("in", "Translate", proto, EndpointOf(rev[rk]), port)
  /\ UNCHANGED <<next_port, forward, forwarded_in, via>>

\* A fragment after the first, matched on the sender's identification.
InLaterFragment(peer, id, proto) ==
  LET fk == [src |-> peer, ip_id |-> id, proto |-> proto] IN
  /\ fk \in DOMAIN frag
  /\ out' = Result("in", "Translate", proto, [addr |-> frag[fk].host, port |-> 0], 0)
  /\ UNCHANGED <<fwd, rev, frag, next_port, forward, forwarded_in, via>>

\* translate_icmp_error: the quoted packet names the mapping.
InIcmpError(proto, port) ==
  LET rk == RK(proto, port) IN
  \/ /\ ForForward(proto, port)
     /\ out' = Result("in", "Translate", proto, [addr |-> forward.host, port |-> port], port)
     /\ UNCHANGED <<fwd, rev, frag, next_port, forward, forwarded_in, via>>
  \/ /\ ~ForForward(proto, port)
     /\ rk \in DOMAIN rev
     /\ rev' = Insert(rev, rk, Refreshed(rev[rk]))
     /\ out' = Result("in", "Translate", proto, EndpointOf(rev[rk]), port)
     /\ UNCHANGED <<fwd, frag, next_port, forward, forwarded_in, via>>

\* Anything inbound that matches neither the forward, a binding nor a window.
InDrop ==
  /\ out' = Dropped("in")
  /\ UNCHANGED <<fwd, rev, frag, next_port, forward, forwarded_in, via>>

-----------------------------------------------------------------------------
(* Housekeeping, the forward, and time.                                    *)

Stale(rk) == rev[rk].age >= Idle(rk.proto)

\* retain over both maps, given the bindings to drop.
DropBindings(dead) ==
  /\ rev' = Without(rev, dead)
  /\ fwd' = Without(fwd, {KeyOf(rk, rev[rk]) : rk \in dead})
  /\ frag' = Without(frag, {fk \in DOMAIN frag : frag[fk].age >= FRAG_IDLE})
  /\ UNCHANGED <<next_port, forward, forwarded_in, out, via>>

\* Mutants of Expire: a binding goes one unit early; ICMP bindings never go.
ExpireEarly == DropBindings({rk \in DOMAIN rev : rev[rk].age + 1 >= Idle(rk.proto)})
ExpireSkipsIcmp == DropBindings({rk \in DOMAIN rev : Stale(rk) /\ rk.proto # "icmp"})

Expire == DropBindings({rk \in DOMAIN rev : Stale(rk)})

SetForward(port) ==
  /\ Plan = "leased"
  /\ forward' = [host |-> ForwardHost, port |-> port]
  /\ UNCHANGED <<fwd, rev, frag, next_port, forwarded_in, out, via>>

ClearForward ==
  /\ Plan = "leased"
  /\ forward' = NoForward
  /\ UNCHANGED <<fwd, rev, frag, next_port, forwarded_in, out, via>>

Older(e, limit) == [e EXCEPT !.age = IF @ < limit THEN @ + 1 ELSE @]

Tick ==
  /\ rev' = [rk \in DOMAIN rev |-> Older(rev[rk], Idle(rk.proto))]
  /\ frag' = [fk \in DOMAIN frag |-> Older(frag[fk], FRAG_IDLE)]
  /\ UNCHANGED <<fwd, next_port, forward, forwarded_in, out, via>>

-----------------------------------------------------------------------------

TranslateOut ==
  \/ \E k \in Keys, rst \in BOOLEAN :
       (rst => k.proto = "tcp") /\ (OutKnown(k, rst) \/ OutNew(k, rst))
  \/ \E k \in Keys : OutExhausted(k) \/ OutCone(k)
  \/ OutStateless

TranslateIn ==
  \/ \E peer \in Peers, id \in IpIds, proto \in Protos, port \in AllPorts, more \in BOOLEAN :
       \/ InForward(peer, id, proto, port, more)
       \/ \E rst \in BOOLEAN :
            (rst => proto = "tcp") /\ InBinding(peer, id, proto, port, more, rst)
  \/ \E peer \in Peers, id \in IpIds, proto \in Protos : InLaterFragment(peer, id, proto)
  \/ \E proto \in Protos, port \in AllPorts : InIcmpError(proto, port)
  \/ InDrop

Next ==
  \/ TranslateOut
  \/ TranslateIn
  \/ Expire
  \/ \E port \in ForwardPorts : SetForward(port)
  \/ ClearForward
  \/ Tick

Spec == Init /\ [][Next]_vars

\* Fairness: the driver's 10 s housekeeping interval and the passage of time.
FairSpec == Spec /\ WF_vars(Expire) /\ WF_vars(Tick)

-----------------------------------------------------------------------------
(* Properties.                                                             *)

\* Every variable of the NAT has its type.
TypeOK ==
  /\ MapOK(fwd, Keys, Ports)
  /\ MapOK(rev, RevKey, Binding)
  /\ MapOK(frag, FragKey, Window)
  /\ next_port \in Ports
  /\ forward \in Forward \cup {NoForward}
  /\ forwarded_in \in 0 .. CounterMax
  /\ out \in Outcome
  /\ via \in [RevKey -> Endpoint]

\* The two maps are inverse to each other (translate_out, close and expire
\* each change both): every conversation's port leads back to it, and every
\* external port belongs to one conversation.
FwdLeadsBack ==
  \A k \in DOMAIN fwd :
    LET rk == RK(k.proto, fwd[k]) IN rk \in DOMAIN rev /\ KeyOf(rk, rev[rk]) = k

RevLeadsBack ==
  \A rk \in DOMAIN rev :
    LET k == KeyOf(rk, rev[rk]) IN k \in DOMAIN fwd /\ fwd[k] = rk.port

MapsInverse == FwdLeadsBack /\ RevLeadsBack

\* alloc_port's ceiling holds over the whole table: what BindingTable makes of it.
TableBounded == IsFiniteSet(DOMAIN rev) /\ Cardinality(DOMAIN rev) <= MAX_BINDINGS

\* While a port is forwarded no TCP or UDP binding sits on its number: the
\* comment in translate_in (wg.rs 463-467) rests on the allocator reserving it.
NoShadowing ==
  forward # NoForward =>
    \A proto \in PortProtos : RK(proto, forward.port) \notin DOMAIN rev

\* A packet let in on an external port goes to the endpoint that last left
\* through that port: late packets of a dead conversation, ICMP quotes and the
\* forwarded port included.
ReplyReachesSender ==
  (out.dir = "in" /\ out.port # 0) =>
    LET owner == via[RK(out.proto, out.port)] IN owner # NoEndpoint => out.ep = owner

\* "The same local port to two different servers gets two bindings and neither
\* has to be renumbered when the other closes" (wg.rs 153-155): no step moves a
\* live conversation to another port or a bound port to another conversation.
NotRenumbered ==
  [][/\ \A k \in DOMAIN fwd \cap DOMAIN fwd' : fwd'[k] = fwd[k]
     /\ \A rk \in DOMAIN rev \cap DOMAIN rev' : KeyOf(rk, rev'[rk]) = KeyOf(rk, rev[rk])]_vars

\* A binding goes only when it has been idle for its protocol's limit, or on a
\* TCP packet of its own (a RST): no other conversation's packet, lease event or
\* housekeeping pass takes it away early.
NoEarlyReclaim ==
  [][\A rk \in DOMAIN rev \ DOMAIN rev' :
        \/ Stale(rk)
        \/ rk.proto = "tcp" /\ out'.proto = "tcp" /\ out'.port = rk.port]_vars

\* Both maps as one: fwd gives a conversation its port, and rev its age.
Table == [k \in DOMAIN fwd |-> [port |-> fwd[k], age |-> rev[RK(k.proto, fwd[k])].age]]

OneTable == INSTANCE BindingTable WITH
  table <- Table,
  Limit <- [proto \in Protos |-> Idle(proto)],
  Forwards <- [host : {ForwardHost}, port : ForwardPorts],
  Leased <- Plan = "leased"

\* The two maps, changed by translate_out, translate_in, close and expire, behave as
\* one bounded table, in which a conversation keeps its port as long as its packets
\* come, and is refused one only when there is none to give.
TableImplemented == OneTable!Spec

\* No binding and no reassembly window is kept for ever in silence: each is,
\* again and again, either gone or just refreshed by a packet.
NothingLeaks ==
  /\ \A rk \in RevKey : []<>(rk \notin DOMAIN rev \/ rev[rk].age = 0)
  /\ \A fk \in FragKey : []<>(fk \notin DOMAIN frag \/ frag[fk].age = 0)
=============================================================================
