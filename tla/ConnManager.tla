----------------------------- MODULE ConnManager -----------------------------
(***************************************************************************)
(* The direct exit's flow table: ConnManager of src/src/conn.rs.           *)
(*                                                                         *)
(* A captured packet may open a TCP or UDP flow, if the protocol's budget  *)
(* admits it.  Opening charges the budget, files a deadline in the heap    *)
(* and a socket in smoltcp's SocketSet, and spawns an egress task.         *)
(* Dispatch first retires the flows whose deadlines have arrived, then     *)
(* services the flows in the ready queue.  A 4-tuple can be used again as  *)
(* soon as it closes, so the heap and the ready queue may hold entries     *)
(* that an earlier flow filed.                                             *)
(*                                                                         *)
(* The engine's loop owns the manager: phase says where it is.  smoltcp    *)
(* (socket states, demultiplexing) and the tokio tasks are external and    *)
(* modelled from how conn.rs uses them.  Flow I/O is abstracted to the     *)
(* socket state and to whether the egress leg has reached its end.         *)
(*                                                                         *)
(* A flow leaves the table without stopping its egress task: dropping the  *)
(* channels ends the writing half, and the reading half ends only when the *)
(* far side next sends something or closes.  Such tasks are the orphans.   *)
(***************************************************************************)
EXTENDS Naturals, FiniteSets, Functions

CONSTANTS
  TcpKeys, UdpKeys,            \* 4-tuples: sets of [src, dst] records
  TCP_FLOW_COST, UDP_FLOW_COST,
  TCP_MEM_BUDGET, UDP_MEM_BUDGET,
  MAX_TCP_FLOWS, MAX_UDP_FLOWS,
  TCP_HANDSHAKE_TIMEOUT, UDP_IDLE,
  NoSource,                    \* app_src: None
  Slots,                       \* indices of the SocketSet
  MaxTime,                     \* bound on the clock
  OrphanMax                    \* bound on the count of orphans

ASSUME CostAssumption ==
  /\ {TCP_FLOW_COST, UDP_FLOW_COST, TCP_HANDSHAKE_TIMEOUT, UDP_IDLE} \subseteq Nat \ {0}
  /\ {TCP_MEM_BUDGET, UDP_MEM_BUDGET, MAX_TCP_FLOWS, MAX_UDP_FLOWS, MaxTime, OrphanMax} \subseteq Nat
ASSUME SlotAssumption == Slots \subseteq Nat
ASSUME SourceAssumption == \A k \in UdpKeys : k.src # NoSource

VARIABLES
  tcp,       \* HashMap<FourTuple, TcpConn>
  udp,       \* HashMap<FourTuple, UdpConn>
  charged,   \* Budget.charged of each protocol
  orphans,   \* how many egress tasks outlive their flow
  deadlines, \* the heap: a set of [at, id]; equal entries act as one
  ready,     \* the ids in the ready queue
  batch,     \* the ids that this dispatch took from it
  phase,     \* "recv", "expire" or "service"
  now

vars == <<tcp, udp, charged, orphans, deadlines, ready, batch, phase, now>>

Tcp(k) == [proto |-> "tcp", key |-> k]
Udp(k) == [proto |-> "udp", key |-> k]
FlowIds == {Tcp(k) : k \in TcpKeys} \cup {Udp(k) : k \in UdpKeys}
Open(id) == id.key \in (IF id.proto = "tcp" THEN DOMAIN tcp ELSE DOMAIN udp)
Sources == {k.src : k \in UdpKeys}

\* Closing: both FIN-WAIT and LAST-ACK, where our side has been closed.
SockStates == {"Listen", "SynReceived", "Established", "CloseWait", "Closing", "Closed"}

Insert(m, k, v) == [x \in DOMAIN m \cup {k} |-> IF x = k THEN v ELSE m[x]]
Without(m, k) == Restrict(m, DOMAIN m \ {k})

-----------------------------------------------------------------------------
(* Admission: struct Budget.                                               *)

Cost(proto) == IF proto = "tcp" THEN TCP_FLOW_COST ELSE UDP_FLOW_COST
MaxFlows(proto) == IF proto = "tcp" THEN MAX_TCP_FLOWS ELSE MAX_UDP_FLOWS
MaxBytes(proto) == IF proto = "tcp" THEN TCP_MEM_BUDGET ELSE UDP_MEM_BUDGET
Live(proto) == IF proto = "tcp" THEN Cardinality(DOMAIN tcp) ELSE Cardinality(DOMAIN udp)

Admits(proto) ==
  /\ Live(proto) < MaxFlows(proto)
  /\ charged[proto] + Cost(proto) <= MaxBytes(proto)

Charged(proto) == [charged EXCEPT ![proto] = @ + Cost(proto)]

\* Mutant of Refunded: one protocol's cost is refunded for the other's flow.
RefundedTcpCost(proto) ==
  [charged EXCEPT ![proto] = IF @ >= TCP_FLOW_COST THEN @ - TCP_FLOW_COST ELSE 0]

\* saturating_sub
Refunded(proto) ==
  [charged EXCEPT ![proto] = IF @ >= Cost(proto) THEN @ - Cost(proto) ELSE 0]

\* The reading half of a removed flow's task, unless it has already ended.
Orphaned(proto, ended) ==
  IF ended \/ orphans[proto] = OrphanMax THEN orphans
  ELSE [orphans EXCEPT ![proto] = @ + 1]

-----------------------------------------------------------------------------
(* The SocketSet (external): add takes the first empty slot.               *)

UsedSlots == {tcp[k].handle : k \in DOMAIN tcp} \cup {udp[k].handle : k \in DOMAIN udp}
FreshSlot(s) == s \in Slots \ UsedSlots /\ \A t \in Slots \ UsedSlots : s <= t

-----------------------------------------------------------------------------
(* on_packet.                                                              *)

NewTcp(s) == [handle |-> s, sock |-> "Listen", established |-> FALSE,
              out_eof |-> FALSE, deadline |-> now + TCP_HANDSHAKE_TIMEOUT]
NewUdp(s) == [handle |-> s, rx |-> {}, app_src |-> NoSource, out_eof |-> FALSE,
              last |-> now, deadline |-> now + UDP_IDLE]

\* Mutant of Filed: an entry that an earlier flow left behind is made to do.
FiledOnce(id, at) ==
  deadlines \cup (IF \E d \in deadlines : d.id = id THEN {} ELSE {[at |-> at, id |-> id]})

Filed(id, at) == deadlines \cup {[at |-> at, id |-> id]}

\* A bare SYN of a 4-tuple with no flow: open_tcp.
OpenTcp(k) ==
  /\ phase = "recv"
  /\ k \notin DOMAIN tcp
  /\ Admits("tcp")
  /\ \E s \in Slots : FreshSlot(s) /\ tcp' = Insert(tcp, k, NewTcp(s))
  /\ charged' = Charged("tcp")
  /\ deadlines' = Filed(Tcp(k), now + TCP_HANDSHAKE_TIMEOUT)
  /\ ready' = ready \cup {Tcp(k)}
  /\ UNCHANGED <<udp, orphans, batch, phase, now>>

\* A datagram of a 4-tuple with no flow: open_udp.  smoltcp then processes the
\* datagram (UdpArrives), or discards it (a bad checksum).
OpenUdp(k) ==
  /\ phase = "recv"
  /\ k \notin DOMAIN udp
  /\ Admits("udp")
  /\ \E s \in Slots : FreshSlot(s) /\ udp' = Insert(udp, k, NewUdp(s))
  /\ charged' = Charged("udp")
  /\ deadlines' = Filed(Udp(k), now + UDP_IDLE)
  /\ ready' = ready \cup {Udp(k)}
  /\ UNCHANGED <<tcp, orphans, batch, phase, now>>

-----------------------------------------------------------------------------
(* smoltcp and the egress tasks (external).                                *)

\* What one packet or timer can make of a TCP socket's state.
SockStep(st) ==
  CASE st = "Listen" -> {"SynReceived"}
    [] st = "SynReceived" -> {"Established", "CloseWait", "Listen", "Closed"}
    [] st = "Established" -> {"CloseWait", "Closed"}
    [] st = "Closed" -> {}
    [] OTHER -> {"Closed"}

\* The socket moves, and its waker files the flow.
TcpSocketMoves(k) ==
  /\ phase = "recv"
  /\ k \in DOMAIN tcp
  /\ \E st \in SockStep(tcp[k].sock) : tcp' = [tcp EXCEPT ![k].sock = st]
  /\ ready' = ready \cup {Tcp(k)}
  /\ UNCHANGED <<udp, charged, orphans, deadlines, batch, phase, now>>

\* smoltcp hands a datagram to the first socket bound to its destination,
\* whatever its source.
Demux(k) ==
  CHOOSE j \in DOMAIN udp :
    /\ j.dst = k.dst
    /\ \A i \in DOMAIN udp : i.dst = k.dst => udp[j].handle <= udp[i].handle

\* A datagram of k is processed after on_packet has seen it, which is injected
\* whether its flow was there, was opened or was shed.
UdpArrives(k) ==
  /\ phase = "recv"
  /\ k \in DOMAIN udp \/ ~Admits("udp")
  /\ \E j \in DOMAIN udp : j.dst = k.dst
  /\ udp' = [udp EXCEPT ![Demux(k)].rx = @ \cup {k.src}]
  /\ ready' = ready \cup {Udp(Demux(k))}
  /\ UNCHANGED <<tcp, charged, orphans, deadlines, batch, phase, now>>

\* A task files its flow after moving a chunk or a datagram either way.
TaskMarks(id) ==
  /\ Open(id) \/ orphans[id.proto] > 0
  /\ ready' = ready \cup {id}
  /\ UNCHANGED <<tcp, udp, charged, orphans, deadlines, batch, phase, now>>

\* A flow's reading half ends, or its connect or bind failed: fail_flow.
TaskEnds(id) ==
  /\ Open(id)
  /\ \/ /\ id.proto = "tcp" /\ ~tcp[id.key].out_eof
        /\ tcp' = [tcp EXCEPT ![id.key].out_eof = TRUE]
        /\ UNCHANGED udp
     \/ /\ id.proto = "udp" /\ ~udp[id.key].out_eof
        /\ udp' = [udp EXCEPT ![id.key].out_eof = TRUE]
        /\ UNCHANGED tcp
  /\ ready' = ready \cup {id}
  /\ UNCHANGED <<charged, orphans, deadlines, batch, phase, now>>

\* The far side sends or closes: an orphan finds its channel gone, and ends.
OrphanEnds(id) ==
  /\ orphans[id.proto] > 0
  /\ orphans' = [orphans EXCEPT ![id.proto] = @ - 1]
  /\ ready' = ready \cup {id}
  /\ UNCHANGED <<tcp, udp, charged, deadlines, batch, phase, now>>

Tick ==
  /\ phase = "recv" /\ now < MaxTime
  /\ now' = now + 1
  /\ UNCHANGED <<tcp, udp, charged, orphans, deadlines, ready, batch, phase>>

-----------------------------------------------------------------------------
(* dispatch: expire, take, service.  Its "now" is read once, on entry.     *)

Dispatch ==
  /\ phase = "recv"
  /\ phase' = "expire"
  /\ UNCHANGED <<tcp, udp, charged, orphans, deadlines, ready, batch, now>>

\* The earliest entry of the heap, when it is due.
Due(e) == e.at <= now /\ \A d \in deadlines : e.at <= d.at
Entry(id, at) == [at |-> at, id |-> id]

RemoveTcp(k) ==
  /\ tcp' = Without(tcp, k)
  /\ charged' = Refunded("tcp")
  /\ orphans' = Orphaned("tcp", tcp[k].out_eof)

RemoveUdp(k) ==
  /\ udp' = Without(udp, k)
  /\ charged' = Refunded("udp")
  /\ orphans' = Orphaned("udp", udp[k].out_eof)

\* Mutant of OwnsHandshake: the entry's own instant is not compared.
OwnsHandshakeAny(k, at) == k \in DOMAIN tcp /\ ~tcp[k].established

\* A handshake deadline that is still the flow's.
OwnsHandshake(k, at) ==
  k \in DOMAIN tcp /\ ~tcp[k].established /\ tcp[k].deadline = at

PopTcp(k, at) ==
  /\ deadlines' = deadlines \ {Entry(Tcp(k), at)}
  /\ \/ OwnsHandshake(k, at) /\ RemoveTcp(k)
     \/ ~OwnsHandshake(k, at) /\ UNCHANGED <<tcp, charged, orphans>>
  /\ UNCHANGED udp

\* Mutant of Rearmed: the entry of a flow that is still live is not filed again.
RearmedNever(k, at) == deadlines \ {Entry(Udp(k), at)}

Rearmed(k, at) ==
  (deadlines \ {Entry(Udp(k), at)}) \cup {Entry(Udp(k), udp[k].last + UDP_IDLE)}

OwnsIdle(k, at) == k \in DOMAIN udp /\ udp[k].deadline = at

PopUdp(k, at) ==
  /\ \/ /\ ~OwnsIdle(k, at)
        /\ deadlines' = deadlines \ {Entry(Udp(k), at)}
        /\ UNCHANGED <<udp, charged, orphans>>
     \/ /\ OwnsIdle(k, at) /\ now < udp[k].last + UDP_IDLE
        /\ deadlines' = Rearmed(k, at)
        /\ udp' = [udp EXCEPT ![k].deadline = udp[k].last + UDP_IDLE]
        /\ UNCHANGED <<charged, orphans>>
     \/ /\ OwnsIdle(k, at) /\ now >= udp[k].last + UDP_IDLE
        /\ deadlines' = deadlines \ {Entry(Udp(k), at)}
        /\ RemoveUdp(k)
  /\ UNCHANGED tcp

Expire ==
  /\ phase = "expire"
  /\ \E e \in deadlines :
       /\ Due(e)
       /\ \/ e.id.proto = "tcp" /\ PopTcp(e.id.key, e.at)
          \/ e.id.proto = "udp" /\ PopUdp(e.id.key, e.at)
  /\ UNCHANGED <<ready, batch, phase, now>>

Take ==
  /\ phase = "expire"
  /\ \A e \in deadlines : e.at > now
  /\ batch' = ready
  /\ ready' = {}
  /\ phase' = "service"
  /\ UNCHANGED <<tcp, udp, charged, orphans, deadlines, now>>

\* sock.close() (external)
CloseSocket(st) ==
  CASE st = "Listen" -> "Closed"
    [] st = "Closed" -> "Closed"
    [] OTHER -> "Closing"

\* service_tcp: note the handshake, close our side once the egress has ended
\* and everything is flushed, and drop the flow once the socket is closed.
ServiceTcp(k) ==
  \E flushed \in BOOLEAN :
    LET c == tcp[k]
        st == IF c.out_eof /\ flushed THEN CloseSocket(c.sock) ELSE c.sock
    IN  \/ st = "Closed" /\ RemoveTcp(k)
        \/ /\ st # "Closed"
           /\ tcp' = [tcp EXCEPT ![k].sock = st,
                                 ![k].established = @ \/ c.sock = "Established"]
           /\ UNCHANGED <<charged, orphans>>

\* service_udp: forward what the channel has room for, learning the source of
\* each datagram, and pass replies to the source once there is one.
ServiceUdp(k) ==
  \E got \in SUBSET udp[k].rx, src \in Sources \cup {NoSource}, last \in {udp[k].last, now} :
    /\ IF got = {} THEN src = udp[k].app_src ELSE src \in got /\ last = now
    /\ src = NoSource => last = udp[k].last
    /\ udp' = [udp EXCEPT ![k].app_src = src, ![k].last = last, ![k].rx = @ \ got]

Service(id) ==
  /\ phase = "service" /\ id \in batch
  /\ batch' = batch \ {id}
  /\ \/ Open(id) /\ id.proto = "tcp" /\ ServiceTcp(id.key) /\ UNCHANGED udp
     \/ /\ Open(id) /\ id.proto = "udp" /\ ServiceUdp(id.key)
        /\ UNCHANGED <<tcp, charged, orphans>>
     \/ ~Open(id) /\ UNCHANGED <<tcp, udp, charged, orphans>>
  /\ UNCHANGED <<deadlines, ready, phase, now>>

\* Mutant of Return: flows taken from the ready queue are left unserviced.
ReturnEarly ==
  /\ phase = "service"
  /\ phase' = "recv"
  /\ UNCHANGED <<tcp, udp, charged, orphans, deadlines, ready, batch, now>>

Return ==
  /\ phase = "service" /\ batch = {}
  /\ phase' = "recv"
  /\ UNCHANGED <<tcp, udp, charged, orphans, deadlines, ready, batch, now>>

-----------------------------------------------------------------------------

Init ==
  /\ tcp = <<>> /\ udp = <<>>
  /\ charged = [proto \in {"tcp", "udp"} |-> 0]
  /\ orphans = [proto \in {"tcp", "udp"} |-> 0]
  /\ deadlines = {} /\ ready = {} /\ batch = {}
  /\ phase = "recv" /\ now = 0

Next ==
  \/ \E k \in TcpKeys : OpenTcp(k) \/ TcpSocketMoves(k)
  \/ \E k \in UdpKeys : OpenUdp(k) \/ UdpArrives(k)
  \/ \E id \in FlowIds : TaskMarks(id) \/ TaskEnds(id) \/ OrphanEnds(id) \/ Service(id)
  \/ Tick \/ Dispatch \/ Expire \/ Take \/ Return

Spec == Init /\ [][Next]_vars

\* The loop at its usual pace: it sleeps at most MAX_IDLE, less if a flow is
\* ready or a deadline is near, so a tick of the clock finds no work waiting.
Prompt == now' # now => ready = {} /\ \A e \in deadlines : e.at > now
PromptSpec == Init /\ [][Next /\ Prompt]_vars

-----------------------------------------------------------------------------
(* Properties.                                                             *)

TcpConn == [handle : Slots, sock : SockStates, established : BOOLEAN,
            out_eof : BOOLEAN, deadline : Nat]
UdpConn == [handle : Slots, rx : SUBSET Sources, app_src : Sources \cup {NoSource},
            out_eof : BOOLEAN, last : Nat, deadline : Nat]

\* Type invariant of ConnManager's fields; ids taken by a dispatch do not
\* outlive it.
TypeOK ==
  /\ DOMAIN tcp \subseteq TcpKeys /\ tcp \in [DOMAIN tcp -> TcpConn]
  /\ DOMAIN udp \subseteq UdpKeys /\ udp \in [DOMAIN udp -> UdpConn]
  /\ charged \in [{"tcp", "udp"} -> Nat]
  /\ orphans \in [{"tcp", "udp"} -> Nat]
  /\ deadlines \subseteq [at : Nat, id : FlowIds]
  /\ ready \subseteq FlowIds /\ batch \subseteq FlowIds
  /\ phase \in {"recv", "expire", "service"} /\ (phase = "service" \/ batch = {})
  /\ now \in Nat

\* The budget is exact, whichever of open_*, service_tcp and expire moved it
\* last: each protocol's charge is the sum of the costs of its open flows, and
\* admission holds both to the byte budget and the hard count.
BudgetExact ==
  \A proto \in {"tcp", "udp"} :
    /\ charged[proto] = Live(proto) * Cost(proto)
    /\ charged[proto] <= MaxBytes(proto) /\ Live(proto) <= MaxFlows(proto)

\* Every flow that may have to be retired has its own deadline in the heap, also
\* on a 4-tuple used before: a TCP flow until service_tcp has seen it established,
\* and a UDP flow always, by "exactly one entry per flow": the heap's UDP entries
\* are the present deadlines of the open flows, no more and no fewer.
FlowsTimed ==
  /\ \A k \in DOMAIN tcp :
       tcp[k].established \/ Entry(Tcp(k), tcp[k].deadline) \in deadlines
  /\ {d \in deadlines : d.id.proto = "udp"}
       = {Entry(Udp(k), udp[k].deadline) : k \in DOMAIN udp}

\* When expire is through, no half-open TCP flow is past its handshake window
\* and no UDP flow has been idle for UDP_IDLE.
NoneOverdue ==
  phase = "service" =>
    /\ \A k \in DOMAIN tcp : tcp[k].established \/ tcp[k].deadline > now
    /\ \A k \in DOMAIN udp : udp[k].last + UDP_IDLE > now

\* expire retires a flow only at its own deadline: never on an entry that an
\* earlier flow filed for the same 4-tuple, never while it is established
\* (TCP) or has moved within UDP_IDLE (UDP).
RetiresOwnDeadline ==
  [][phase = "expire" =>
       /\ \A k \in DOMAIN tcp \ DOMAIN tcp' : ~tcp[k].established /\ tcp[k].deadline <= now
       /\ \A k \in DOMAIN udp \ DOMAIN udp' : udp[k].last + UDP_IDLE <= now]_vars

\* "The app-side endpoint to send replies to": a UDP flow's replies go to the
\* source of its own 4-tuple.
RepliesToOwnSource ==
  \A k \in DOMAIN udp : udp[k].app_src \in {NoSource, k.src}
=============================================================================
