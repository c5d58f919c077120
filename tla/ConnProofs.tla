----------------------------- MODULE ConnProofs -----------------------------
(* What the flow table keeps, for every set of 4-tuples, every cost, budget *)
(* and timeout, and any number of flows.                                    *)
EXTENDS ConnManager, Induction, FiniteSetTheorems, TLAPS

Protos == {"tcp", "udp"}

-----------------------------------------------------------------------------
(* The operators.                                                           *)

\* Every flow costs something, and every limit is a number.
LEMMA CostsAreNumbers ==
  ASSUME NEW proto \in Protos
  PROVE  /\ Cost(proto) \in Nat /\ Cost(proto) > 0
         /\ MaxBytes(proto) \in Nat /\ MaxFlows(proto) \in Nat
BY CostAssumption DEF Protos, Cost, MaxBytes, MaxFlows

\* Opening a flow adds one entry to its table.
LEMMA InsertIs ==
  ASSUME NEW m, NEW T, m \in [DOMAIN m -> T], NEW k, NEW v \in T
  PROVE  /\ DOMAIN Insert(m, k, v) = DOMAIN m \cup {k}
         /\ Insert(m, k, v) \in [DOMAIN Insert(m, k, v) -> T]
         /\ Insert(m, k, v)[k] = v
         /\ \A x \in DOMAIN m \ {k} : Insert(m, k, v)[x] = m[x]
BY DEF Insert

\* Retiring a flow takes its entry away and leaves the others.
LEMMA WithoutIs ==
  ASSUME NEW m, NEW T, m \in [DOMAIN m -> T], NEW k
  PROVE  /\ DOMAIN Without(m, k) = DOMAIN m \ {k}
         /\ Without(m, k) \in [DOMAIN Without(m, k) -> T]
         /\ \A x \in DOMAIN m \ {k} : Without(m, k)[x] = m[x]
BY DEF Without, Restrict

\* The numbers that Budget and the orphan count move by stay numbers.
LEMMA ChargesAreNumbers ==
  ASSUME NEW proto \in Protos, charged \in [Protos -> Nat], orphans \in [Protos -> Nat],
         NEW ended \in BOOLEAN
  PROVE  /\ Charged(proto) \in [Protos -> Nat]
         /\ Refunded(proto) \in [Protos -> Nat]
         /\ Orphaned(proto, ended) \in [Protos -> Nat]
<1>1. Cost(proto) \in Nat
  BY CostsAreNumbers
<1>2. Charged(proto) \in [Protos -> Nat]
  BY <1>1 DEF Charged
<1>3. Refunded(proto) \in [Protos -> Nat]
  BY <1>1 DEF Refunded
<1>4. Orphaned(proto, ended) \in [Protos -> Nat]
  BY DEF Orphaned
<1> QED
  BY <1>2, <1>3, <1>4

\* smoltcp finds a socket for a datagram to whose destination one is bound, and it
\* is one of these.
LEMMA DemuxFinds ==
  ASSUME TypeOK, NEW k, \E j \in DOMAIN udp : j.dst = k.dst
  PROVE  Demux(k) \in DOMAIN udp /\ Demux(k).dst = k.dst
<1> DEFINE bound == {j \in DOMAIN udp : j.dst = k.dst}
           handles == {udp[j].handle : j \in bound}
<1>1. \A j \in DOMAIN udp : udp[j].handle \in Nat
  BY SlotAssumption DEF TypeOK, UdpConn
<1>2. handles \in SUBSET Nat /\ handles # {}
  BY <1>1
<1>3. PICK s \in handles : \A t \in handles : s <= t
  BY <1>2, LeastExists
<1>4. PICK j \in bound : udp[j].handle = s
  BY <1>3
<1>5. j \in DOMAIN udp /\ j.dst = k.dst
      /\ \A i \in DOMAIN udp : i.dst = k.dst => udp[j].handle <= udp[i].handle
  BY <1>3, <1>4
<1> QED
  BY <1>5 DEF Demux

-----------------------------------------------------------------------------
(* Types.                                                                   *)

\* What the types say of each table, in the form the steps below use.
LEMMA Tables ==
  ASSUME TypeOK
  PROVE  /\ tcp \in [DOMAIN tcp -> TcpConn] /\ udp \in [DOMAIN udp -> UdpConn]
         /\ DOMAIN tcp \subseteq TcpKeys /\ DOMAIN udp \subseteq UdpKeys
         /\ charged \in [Protos -> Nat] /\ orphans \in [Protos -> Nat]
         /\ now \in Nat
         /\ TCP_HANDSHAKE_TIMEOUT \in Nat /\ UDP_IDLE \in Nat
BY CostAssumption DEF TypeOK, Protos

\* Opening a TCP flow or moving its socket keeps the types.
LEMMA TcpStepsTyped ==
  ASSUME TypeOK, NEW k \in TcpKeys, OpenTcp(k) \/ TcpSocketMoves(k)
  PROVE  TypeOK'
<1> USE Tables
<1>1. Tcp(k) \in FlowIds
  BY DEF FlowIds
<1>2. CASE OpenTcp(k)
  <2> PICK s \in Slots : tcp' = Insert(tcp, k, NewTcp(s))
    BY <1>2 DEF OpenTcp
  <2>1. NewTcp(s) \in TcpConn
    BY DEF NewTcp, TcpConn, SockStates
  <2> DEFINE new == NewTcp(s)
  <2> HIDE DEF new
  <2>2. DOMAIN tcp' \subseteq TcpKeys /\ tcp' \in [DOMAIN tcp' -> TcpConn]
    <3>1. new \in TcpConn /\ tcp' = Insert(tcp, k, new)
      BY <2>1 DEF new
    <3> QED
      BY <3>1 DEF Insert
  <2>3. charged' \in [Protos -> Nat]
    BY <1>2, ChargesAreNumbers DEF OpenTcp, Protos
  <2>4. deadlines' \subseteq [at : Nat, id : FlowIds] /\ ready' \subseteq FlowIds
    BY <1>1, <1>2 DEF OpenTcp, Filed, TypeOK
  <2> QED
    BY <1>2, <2>2, <2>3, <2>4 DEF OpenTcp, TypeOK, Protos
<1>3. CASE TcpSocketMoves(k)
  <2> PICK st \in SockStep(tcp[k].sock) : tcp' = [tcp EXCEPT ![k].sock = st]
    BY <1>3 DEF TcpSocketMoves
  <2>1. tcp[k] \in TcpConn
    BY <1>3 DEF TcpSocketMoves
  <2>2. st \in SockStates
    BY <2>1 DEF SockStep, SockStates, TcpConn
  <2>3. DOMAIN tcp' \subseteq TcpKeys /\ tcp' \in [DOMAIN tcp' -> TcpConn]
    BY <2>1, <2>2 DEF TcpConn
  <2> QED
    BY <1>1, <1>3, <2>3 DEF TcpSocketMoves, TypeOK
<1> QED
  BY <1>2, <1>3

\* Opening a UDP flow, or handing it a datagram, keeps the types.
LEMMA UdpStepsTyped ==
  ASSUME TypeOK, NEW k \in UdpKeys, OpenUdp(k) \/ UdpArrives(k)
  PROVE  TypeOK'
<1> USE Tables
<1>1. \A j \in UdpKeys : Udp(j) \in FlowIds
  BY DEF FlowIds
<1>2. CASE OpenUdp(k)
  <2> PICK s \in Slots : udp' = Insert(udp, k, NewUdp(s))
    BY <1>2 DEF OpenUdp
  <2>1. NewUdp(s) \in UdpConn
    BY DEF NewUdp, UdpConn
  <2> DEFINE new == NewUdp(s)
  <2> HIDE DEF new
  <2>2. DOMAIN udp' \subseteq UdpKeys /\ udp' \in [DOMAIN udp' -> UdpConn]
    <3>1. new \in UdpConn /\ udp' = Insert(udp, k, new)
      BY <2>1 DEF new
    <3> QED
      BY <3>1 DEF Insert
  <2>3. charged' \in [Protos -> Nat]
    BY <1>2, ChargesAreNumbers DEF OpenUdp, Protos
  <2>4. deadlines' \subseteq [at : Nat, id : FlowIds] /\ ready' \subseteq FlowIds
    BY <1>1, <1>2 DEF OpenUdp, Filed, TypeOK
  <2> QED
    BY <1>2, <2>2, <2>3, <2>4 DEF OpenUdp, TypeOK, Protos
<1>3. CASE UdpArrives(k)
  <2> DEFINE j == Demux(k)
  <2>1. j \in DOMAIN udp
    BY <1>3, DemuxFinds DEF UdpArrives
  <2> HIDE DEF j
  <2>2. udp' = [udp EXCEPT ![j].rx = @ \cup {k.src}] /\ ready' = ready \cup {Udp(j)}
    BY <1>3 DEF UdpArrives, j
  <2>3. udp[j] \in UdpConn /\ k.src \in Sources
    BY <2>1 DEF Sources
  <2>4. DOMAIN udp' \subseteq UdpKeys /\ udp' \in [DOMAIN udp' -> UdpConn]
    BY <2>1, <2>2, <2>3 DEF UdpConn
  <2> QED
    BY <1>1, <1>3, <2>1, <2>2, <2>4 DEF UdpArrives, TypeOK
<1> QED
  BY <1>2, <1>3

\* An egress task's end or a mark it leaves keeps the types.
LEMMA TaskStepsTyped ==
  ASSUME TypeOK, NEW id \in FlowIds, TaskMarks(id) \/ TaskEnds(id) \/ OrphanEnds(id)
  PROVE  TypeOK'
<1> USE Tables
<1>1. CASE TaskMarks(id)
  BY <1>1 DEF TaskMarks, TypeOK
<1>2. CASE TaskEnds(id)
  <2>1. DOMAIN tcp' = DOMAIN tcp /\ tcp' \in [DOMAIN tcp -> TcpConn]
    BY ZenonT(30), <1>2 DEF TaskEnds, TcpConn
  <2>2. DOMAIN udp' = DOMAIN udp /\ udp' \in [DOMAIN udp -> UdpConn]
    <3>1. CASE UNCHANGED udp
      BY <3>1
    <3>2. CASE udp' = [udp EXCEPT ![id.key].out_eof = TRUE] /\ id.key \in DOMAIN udp
      <4>1. udp[id.key] \in UdpConn
        BY <3>2
      <4>2. [udp[id.key] EXCEPT !.out_eof = TRUE] \in UdpConn
        BY <4>1 DEF UdpConn
      <4> QED
        BY <3>2, <4>2
    <3> QED
      BY <1>2, <3>1, <3>2 DEF TaskEnds, Open
  <2> QED
    BY <1>2, <2>1, <2>2 DEF TaskEnds, TypeOK
<1>3. CASE OrphanEnds(id)
  <2>1. id.proto \in Protos
    BY DEF FlowIds, Tcp, Udp, Protos
  <2>2. orphans' \in [Protos -> Nat]
    BY <1>3, <2>1 DEF OrphanEnds
  <2> QED
    BY <1>3, <2>2 DEF OrphanEnds, TypeOK, Protos
<1> QED
  BY <1>1, <1>2, <1>3

\* Removing a flow keeps its table, the charges and the orphan count typed.
LEMMA RemovalsTyped ==
  ASSUME TypeOK, NEW k
  PROVE  /\ k \in DOMAIN tcp /\ RemoveTcp(k) =>
              /\ DOMAIN tcp' = DOMAIN tcp \ {k} /\ tcp' \in [DOMAIN tcp' -> TcpConn]
              /\ charged' \in [Protos -> Nat] /\ orphans' \in [Protos -> Nat]
         /\ k \in DOMAIN udp /\ RemoveUdp(k) =>
              /\ DOMAIN udp' = DOMAIN udp \ {k} /\ udp' \in [DOMAIN udp' -> UdpConn]
              /\ charged' \in [Protos -> Nat] /\ orphans' \in [Protos -> Nat]
<1> USE Tables
<1>1. ASSUME k \in DOMAIN tcp, RemoveTcp(k)
      PROVE  /\ DOMAIN tcp' = DOMAIN tcp \ {k} /\ tcp' \in [DOMAIN tcp' -> TcpConn]
             /\ charged' \in [Protos -> Nat] /\ orphans' \in [Protos -> Nat]
  <2>1. DOMAIN tcp' = DOMAIN tcp \ {k} /\ tcp' \in [DOMAIN tcp' -> TcpConn]
    BY <1>1 DEF RemoveTcp, Without, Restrict
  <2>2. tcp[k].out_eof \in BOOLEAN
    BY <1>1 DEF TcpConn
  <2>3. charged' \in [Protos -> Nat] /\ orphans' \in [Protos -> Nat]
    BY <1>1, <2>2, ChargesAreNumbers DEF RemoveTcp, Protos
  <2> QED
    BY <2>1, <2>3
<1>2. ASSUME k \in DOMAIN udp, RemoveUdp(k)
      PROVE  /\ DOMAIN udp' = DOMAIN udp \ {k} /\ udp' \in [DOMAIN udp' -> UdpConn]
             /\ charged' \in [Protos -> Nat] /\ orphans' \in [Protos -> Nat]
  <2>1. DOMAIN udp' = DOMAIN udp \ {k} /\ udp' \in [DOMAIN udp' -> UdpConn]
    BY <1>2 DEF RemoveUdp, Without, Restrict
  <2>2. udp[k].out_eof \in BOOLEAN
    BY <1>2 DEF UdpConn
  <2>3. charged' \in [Protos -> Nat] /\ orphans' \in [Protos -> Nat]
    BY <1>2, <2>2, ChargesAreNumbers DEF RemoveUdp, Protos
  <2> QED
    BY <2>1, <2>3
<1> QED
  BY <1>1, <1>2

\* Popping an entry of the heap keeps the types.
LEMMA ExpireTyped ==
  ASSUME TypeOK, Expire
  PROVE  TypeOK'
<1> USE Tables
<1> PICK e \in deadlines : \/ e.id.proto = "tcp" /\ PopTcp(e.id.key, e.at)
                           \/ e.id.proto = "udp" /\ PopUdp(e.id.key, e.at)
  BY DEF Expire
<1> DEFINE k == e.id.key
<1>1. ready' = ready /\ batch' = batch /\ phase' = phase /\ now' = now
  BY DEF Expire
<1>2. e.at \in Nat /\ e.id \in FlowIds
  BY DEF TypeOK
<1>3. ASSUME PopTcp(k, e.at) PROVE TypeOK'
  <2>1. deadlines' \subseteq deadlines /\ udp' = udp
    BY <1>3 DEF PopTcp
  <2>2. \/ k \in DOMAIN tcp /\ RemoveTcp(k)
        \/ UNCHANGED <<tcp, charged, orphans>>
    BY <1>3 DEF PopTcp, OwnsHandshake
  <2> QED
    BY <1>1, <2>1, <2>2, RemovalsTyped DEF TypeOK, Protos
<1>4. ASSUME e.id.proto = "udp", PopUdp(k, e.at) PROVE TypeOK'
  <2>0. k \in UdpKeys /\ Udp(k) \in FlowIds
    BY <1>2, <1>4 DEF FlowIds, Tcp, Udp
  <2>1. CASE /\ deadlines' = deadlines \ {Entry(Udp(k), e.at)}
             /\ UNCHANGED <<tcp, udp, charged, orphans>>
    BY <1>1, <2>1 DEF TypeOK
  <2>2. CASE /\ k \in DOMAIN udp /\ deadlines' = Rearmed(k, e.at)
             /\ udp' = [udp EXCEPT ![k].deadline = udp[k].last + UDP_IDLE]
             /\ UNCHANGED <<tcp, charged, orphans>>
    <3>1. udp[k] \in UdpConn
      BY <2>2
    <3>2. udp[k].last + UDP_IDLE \in Nat
      BY <3>1 DEF UdpConn
    <3>3. [udp[k] EXCEPT !.deadline = udp[k].last + UDP_IDLE] \in UdpConn
      BY <3>1, <3>2 DEF UdpConn
    <3>4. DOMAIN udp' = DOMAIN udp /\ udp' \in [DOMAIN udp' -> UdpConn]
      BY <2>2, <3>3
    <3>5. Entry(Udp(k), udp[k].last + UDP_IDLE) \in [at : Nat, id : FlowIds]
      BY <2>0, <3>2 DEF Entry
    <3>6. deadlines' \subseteq [at : Nat, id : FlowIds]
      BY <2>2, <3>5 DEF Rearmed, TypeOK
    <3> QED
      BY <1>1, <2>2, <3>4, <3>6 DEF TypeOK
  <2>3. CASE /\ k \in DOMAIN udp /\ deadlines' = deadlines \ {Entry(Udp(k), e.at)}
             /\ RemoveUdp(k) /\ tcp' = tcp
    BY <1>1, <2>3, RemovalsTyped DEF TypeOK, Protos
  <2> QED
    BY <1>4, <2>1, <2>2, <2>3 DEF PopUdp, OwnsIdle
<1> QED
  BY <1>3, <1>4

\* Servicing a flow keeps the types.
LEMMA ServiceTyped ==
  ASSUME TypeOK, NEW id \in FlowIds, Service(id)
  PROVE  TypeOK'
<1> USE Tables
<1> DEFINE k == id.key
<1>1. /\ deadlines' = deadlines /\ ready' = ready /\ phase' = phase /\ now' = now
      /\ batch' \subseteq batch /\ phase = "service"
  BY DEF Service
<1>2. ASSUME Open(id), id.proto = "tcp", ServiceTcp(k), UNCHANGED udp PROVE TypeOK'
  <2>0. k \in DOMAIN tcp
    BY <1>2 DEF Open
  <2>1. tcp[k] \in TcpConn
    BY <2>0
  <2>2. PICK st \in SockStates :
          \/ RemoveTcp(k)
          \/ /\ tcp' = [tcp EXCEPT ![k].sock = st,
                                   ![k].established = @ \/ tcp[k].sock = "Established"]
             /\ UNCHANGED <<charged, orphans>>
    BY <1>2, <2>1 DEF ServiceTcp, CloseSocket, TcpConn, SockStates
  <2>3. CASE RemoveTcp(k)
    BY <1>1, <1>2, <2>0, <2>3, RemovalsTyped DEF TypeOK, Protos
  <2>4. CASE /\ tcp' = [tcp EXCEPT ![k].sock = st,
                                   ![k].established = @ \/ tcp[k].sock = "Established"]
             /\ UNCHANGED <<charged, orphans>>
    <3>1. DOMAIN tcp' = DOMAIN tcp /\ tcp' \in [DOMAIN tcp -> TcpConn]
      BY <2>0, <2>1, <2>4 DEF TcpConn
    <3> QED
      BY <1>1, <1>2, <2>4, <3>1 DEF TypeOK
  <2> QED
    BY <2>2, <2>3, <2>4
<1>3. ASSUME Open(id), id.proto = "udp", ServiceUdp(k), UNCHANGED <<tcp, charged, orphans>>
      PROVE  TypeOK'
  <2>0. k \in DOMAIN udp
    BY <1>3 DEF Open
  <2>1. udp[k] \in UdpConn
    BY <2>0
  <2>2. PICK got \in SUBSET udp[k].rx, src \in Sources \cup {NoSource},
             last \in {udp[k].last, now} :
          udp' = [udp EXCEPT ![k].app_src = src, ![k].last = last, ![k].rx = @ \ got]
    BY <1>3 DEF ServiceUdp
  <2>3. last \in Nat /\ udp[k].rx \ got \in SUBSET Sources
    BY <2>1 DEF UdpConn
  <2>4. [udp[k] EXCEPT !.app_src = src, !.last = last, !.rx = @ \ got] \in UdpConn
    BY <2>1, <2>3 DEF UdpConn
  <2>5. DOMAIN udp' = DOMAIN udp /\ udp' \in [DOMAIN udp -> UdpConn]
    BY <2>0, <2>2, <2>4
  <2> QED
    BY <1>1, <1>3, <2>5 DEF TypeOK
<1>4. ASSUME UNCHANGED <<tcp, udp, charged, orphans>> PROVE TypeOK'
  BY <1>1, <1>4 DEF TypeOK
<1> QED
  BY <1>2, <1>3, <1>4 DEF Service

\* Every step of the manager, the stack and the tasks keeps the types.
LEMMA TypesKept == TypeOK /\ [Next]_vars => TypeOK'
<1> SUFFICES ASSUME TypeOK, [Next]_vars PROVE TypeOK'
  OBVIOUS
<1>1. CASE Tick
  BY <1>1, Tables DEF Tick, TypeOK
<1>2. CASE Dispatch
  BY <1>2 DEF Dispatch, TypeOK
<1>3. CASE Take
  BY <1>3 DEF Take, TypeOK
<1>4. CASE Return
  BY <1>4 DEF Return, TypeOK
<1>5. CASE UNCHANGED vars
  BY <1>5 DEF vars, TypeOK
<1> QED
  BY <1>1, <1>2, <1>3, <1>4, <1>5, TcpStepsTyped, UdpStepsTyped, TaskStepsTyped,
     ExpireTyped, ServiceTyped DEF Next

\* An empty flow table is typed.
LEMMA TypesAtFirst == Init => TypeOK
BY DEF Init, TypeOK

\* The flow table, the heap, the ready queue and the budgets hold what their
\* types say, whatever smoltcp, the tasks and the clock do.
THEOREM TypeCorrect == Spec => []TypeOK
BY TypesAtFirst, TypesKept, PTL DEF Spec

-----------------------------------------------------------------------------
(* The inductive invariant.                                                 *)

\* The tables are finite, so that what they hold can be counted.
Finite == IsFiniteSet(DOMAIN tcp) /\ IsFiniteSet(DOMAIN udp)

\* A UDP flow's entry in the heap never comes later than its idle window ends:
\* expire puts the deadline back only as far as the last movement allows.
IdleBounded ==
  \A k \in DOMAIN udp : udp[k].last <= now /\ udp[k].deadline <= udp[k].last + UDP_IDLE

\* Once expire is through, and until dispatch returns, no entry is due.
HeapAhead == phase = "service" => \A e \in deadlines : e.at > now

\* FlowsTimed, flow by flow and entry by entry.
TcpTimed ==
  \A k \in DOMAIN tcp : tcp[k].established \/ Entry(Tcp(k), tcp[k].deadline) \in deadlines
UdpTimed ==
  /\ \A k \in DOMAIN udp : Entry(Udp(k), udp[k].deadline) \in deadlines
  /\ \A k \in UdpKeys, at \in Nat :
       Entry(Udp(k), at) \in deadlines => k \in DOMAIN udp /\ udp[k].deadline = at

ConnInv ==
  /\ TypeOK /\ Finite /\ BudgetExact
  /\ TcpTimed /\ UdpTimed /\ IdleBounded /\ HeapAhead

-----------------------------------------------------------------------------
(* The budget.                                                              *)

\* What a step can do to the tables and the charges: nothing, open one flow
\* that the budget admits, or retire one flow.
Opens(proto, table, table2) ==
  /\ \E k : k \notin table /\ table2 = table \cup {k}
  /\ Admits(proto) /\ charged' = Charged(proto)
Retires(proto, table, table2) ==
  /\ \E k \in table : table2 = table \ {k}
  /\ charged' = Refunded(proto)

\* Multiplying by one flow more or one flow less.
LEMMA OneMoreOneLess ==
  ASSUME NEW n \in Nat, NEW c \in Nat
  PROVE  /\ (n + 1) * c = n * c + c /\ n * c \in Nat
         /\ n > 0 => (n - 1) * c = n * c - c /\ n * c >= c
<1>1. (n + 1) * c = n * c + c /\ n * c \in Nat
  OBVIOUS
<1>2. ASSUME n > 0 PROVE (n - 1) * c = n * c - c /\ n * c >= c
  <2>1. n - 1 \in Nat
    BY <1>2
  <2>2. PICK m \in Nat : n = m + 1
    BY <2>1
  <2>3. (m + 1) * c = m * c + c /\ m * c \in Nat
    OBVIOUS
  <2> QED
    BY <2>2, <2>3
<1> QED
  BY <1>1, <1>2

\* Every step changes at most one table, and the charge with it.
LEMMA TablesMoveOneFlow ==
  ASSUME TypeOK, [Next]_vars
  PROVE  \/ UNCHANGED <<DOMAIN tcp, DOMAIN udp, charged>>
         \/ Opens("tcp", DOMAIN tcp, DOMAIN tcp') /\ UNCHANGED udp /\ phase = "recv"
         \/ Opens("udp", DOMAIN udp, DOMAIN udp') /\ UNCHANGED tcp /\ phase = "recv"
         \/ Retires("tcp", DOMAIN tcp, DOMAIN tcp') /\ UNCHANGED udp
         \/ Retires("udp", DOMAIN udp, DOMAIN udp') /\ UNCHANGED tcp
<1> DEFINE Same == UNCHANGED <<DOMAIN tcp, DOMAIN udp, charged>>
<1> USE Tables
<1>1. ASSUME NEW k \in TcpKeys, OpenTcp(k)
      PROVE  Opens("tcp", DOMAIN tcp, DOMAIN tcp') /\ UNCHANGED udp /\ phase = "recv"
  <2>1. DOMAIN tcp' = DOMAIN tcp \cup {k}
    BY <1>1 DEF OpenTcp, Insert
  <2> QED
    BY <1>1, <2>1 DEF OpenTcp, Opens
<1>2. ASSUME NEW k \in TcpKeys, TcpSocketMoves(k) PROVE Same
  BY <1>2 DEF TcpSocketMoves
<1>3. ASSUME NEW k \in UdpKeys, OpenUdp(k)
      PROVE  Opens("udp", DOMAIN udp, DOMAIN udp') /\ UNCHANGED tcp /\ phase = "recv"
  <2>1. DOMAIN udp' = DOMAIN udp \cup {k}
    BY <1>3 DEF OpenUdp, Insert
  <2> QED
    BY <1>3, <2>1 DEF OpenUdp, Opens
<1>4. ASSUME NEW k \in UdpKeys, UdpArrives(k) PROVE Same
  BY <1>4 DEF UdpArrives
<1>5. ASSUME NEW id \in FlowIds, TaskMarks(id) \/ TaskEnds(id) \/ OrphanEnds(id) PROVE Same
  BY <1>5 DEF TaskMarks, TaskEnds, OrphanEnds
<1>6. ASSUME NEW k \in DOMAIN tcp, RemoveTcp(k)
      PROVE  Retires("tcp", DOMAIN tcp, DOMAIN tcp')
  <2>1. DOMAIN tcp' = DOMAIN tcp \ {k}
    BY <1>6 DEF RemoveTcp, Without, Restrict
  <2> QED
    BY <1>6, <2>1 DEF RemoveTcp, Retires
<1>7. ASSUME NEW k \in DOMAIN udp, RemoveUdp(k)
      PROVE  Retires("udp", DOMAIN udp, DOMAIN udp')
  <2>1. DOMAIN udp' = DOMAIN udp \ {k}
    BY <1>7 DEF RemoveUdp, Without, Restrict
  <2> QED
    BY <1>7, <2>1 DEF RemoveUdp, Retires
<1>8. ASSUME Expire
      PROVE  \/ Same
             \/ Retires("tcp", DOMAIN tcp, DOMAIN tcp') /\ UNCHANGED udp
             \/ Retires("udp", DOMAIN udp, DOMAIN udp') /\ UNCHANGED tcp
  <2> PICK e \in deadlines : PopTcp(e.id.key, e.at) \/ PopUdp(e.id.key, e.at)
    BY <1>8 DEF Expire
  <2>1. CASE PopTcp(e.id.key, e.at)
    BY <2>1, <1>6 DEF PopTcp, OwnsHandshake
  <2>2. CASE PopUdp(e.id.key, e.at)
    BY <2>2, <1>7 DEF PopUdp, OwnsIdle
  <2> QED
    BY <2>1, <2>2
<1>9. ASSUME NEW id \in FlowIds, Service(id)
      PROVE  Same \/ (Retires("tcp", DOMAIN tcp, DOMAIN tcp') /\ UNCHANGED udp)
  <2>1. ASSUME Open(id), id.proto = "tcp", ServiceTcp(id.key)
        PROVE  Retires("tcp", DOMAIN tcp, DOMAIN tcp') \/ UNCHANGED <<DOMAIN tcp, charged>>
    <3>1. id.key \in DOMAIN tcp
      BY <2>1 DEF Open
    <3>2. RemoveTcp(id.key) \/ UNCHANGED <<DOMAIN tcp, charged>>
      BY <2>1 DEF ServiceTcp
    <3> QED
      BY <3>1, <3>2, <1>6
  <2>2. ASSUME ServiceUdp(id.key) PROVE DOMAIN udp' = DOMAIN udp
    BY <2>2 DEF ServiceUdp
  <2> QED
    BY <1>9, <2>1, <2>2 DEF Service
<1>10. ASSUME Tick \/ Dispatch \/ Take \/ Return \/ UNCHANGED vars PROVE Same
  BY <1>10 DEF Tick, Dispatch, Take, Return, vars
<1> QED
  BY <1>1, <1>2, <1>3, <1>4, <1>5, <1>8, <1>9, <1>10 DEF Next

\* The arithmetic of one protocol's budget, for a flow opened and for one retired.
LEMMA BudgetMoves ==
  ASSUME TypeOK, NEW proto \in Protos, NEW n \in Nat,
         charged[proto] = n * Cost(proto),
         charged[proto] <= MaxBytes(proto), n <= MaxFlows(proto)
  PROVE  /\ n < MaxFlows(proto) /\ charged[proto] + Cost(proto) <= MaxBytes(proto) =>
              /\ Charged(proto)[proto] = (n + 1) * Cost(proto)
              /\ Charged(proto)[proto] <= MaxBytes(proto) /\ n + 1 <= MaxFlows(proto)
         /\ n > 0 =>
              /\ Refunded(proto)[proto] = (n - 1) * Cost(proto)
              /\ Refunded(proto)[proto] <= MaxBytes(proto) /\ n - 1 <= MaxFlows(proto)
         /\ \A other \in Protos \ {proto} :
              Charged(proto)[other] = charged[other] /\ Refunded(proto)[other] = charged[other]
<1> DEFINE c == Cost(proto)
<1>1. c \in Nat /\ c > 0 /\ MaxBytes(proto) \in Nat /\ MaxFlows(proto) \in Nat
      /\ charged \in [Protos -> Nat]
  BY CostsAreNumbers, Tables
<1>2. /\ (n + 1) * c = n * c + c /\ n * c \in Nat
      /\ n > 0 => (n - 1) * c = n * c - c /\ n * c >= c
  BY <1>1, OneMoreOneLess
<1>3. Charged(proto)[proto] = charged[proto] + c
      /\ \A other \in Protos \ {proto} : Charged(proto)[other] = charged[other]
  BY <1>1 DEF Charged
<1>4. Refunded(proto)[proto] = (IF charged[proto] >= c THEN charged[proto] - c ELSE 0)
      /\ \A other \in Protos \ {proto} : Refunded(proto)[other] = charged[other]
  BY <1>1 DEF Refunded
<1> HIDE DEF c
<1>5. charged[proto] = n * c
  BY DEF c
<1>6. n > 0 => /\ Refunded(proto)[proto] = (n - 1) * c
               /\ Refunded(proto)[proto] <= MaxBytes(proto) /\ n - 1 <= MaxFlows(proto)
  BY <1>1, <1>2, <1>4, <1>5
<1>7. n < MaxFlows(proto) /\ charged[proto] + c <= MaxBytes(proto) =>
              /\ Charged(proto)[proto] = (n + 1) * c
              /\ Charged(proto)[proto] <= MaxBytes(proto) /\ n + 1 <= MaxFlows(proto)
  BY <1>1, <1>2, <1>3, <1>5
<1> QED
  BY <1>3, <1>4, <1>6, <1>7 DEF c

\* A step keeps the budgets exact and the tables finite.
LEMMA BudgetKept ==
  ASSUME TypeOK, Finite, BudgetExact, [Next]_vars
  PROVE  Finite' /\ BudgetExact'
<1> DEFINE t == Cardinality(DOMAIN tcp)
           u == Cardinality(DOMAIN udp)
<1>1. t \in Nat /\ u \in Nat
  BY FS_CardinalityType DEF Finite
<1>2. /\ charged["tcp"] = t * Cost("tcp") /\ charged["tcp"] <= MaxBytes("tcp") /\ t <= MaxFlows("tcp")
      /\ charged["udp"] = u * Cost("udp") /\ charged["udp"] <= MaxBytes("udp") /\ u <= MaxFlows("udp")
  BY DEF BudgetExact, Live
<1>3. BudgetExact' <=>
        /\ charged'["tcp"] = Cardinality(DOMAIN tcp') * Cost("tcp")
        /\ charged'["tcp"] <= MaxBytes("tcp") /\ Cardinality(DOMAIN tcp') <= MaxFlows("tcp")
        /\ charged'["udp"] = Cardinality(DOMAIN udp') * Cost("udp")
        /\ charged'["udp"] <= MaxBytes("udp") /\ Cardinality(DOMAIN udp') <= MaxFlows("udp")
  BY DEF BudgetExact, Live, Cost, MaxBytes, MaxFlows
<1>4. \A proto \in Protos : Admits(proto) <=>
        /\ (IF proto = "tcp" THEN t ELSE u) < MaxFlows(proto)
        /\ charged[proto] + Cost(proto) <= MaxBytes(proto)
  BY DEF Admits, Live
<1>5. CASE UNCHANGED <<DOMAIN tcp, DOMAIN udp, charged>>
  BY <1>2, <1>3, <1>5 DEF Finite
<1>6. CASE Opens("tcp", DOMAIN tcp, DOMAIN tcp') /\ UNCHANGED udp
  <2> PICK k : k \notin DOMAIN tcp /\ DOMAIN tcp' = DOMAIN tcp \cup {k}
    BY <1>6 DEF Opens
  <2>1. IsFiniteSet(DOMAIN tcp') /\ Cardinality(DOMAIN tcp') = t + 1
    BY FS_AddElement DEF Finite
  <2>2. t < MaxFlows("tcp") /\ charged["tcp"] + Cost("tcp") <= MaxBytes("tcp")
        /\ charged' = Charged("tcp")
    BY <1>4, <1>6 DEF Opens, Protos
  <2> HIDE DEF t, u
  <2>3. /\ charged'["tcp"] = (t + 1) * Cost("tcp") /\ charged'["tcp"] <= MaxBytes("tcp")
        /\ t + 1 <= MaxFlows("tcp") /\ charged'["udp"] = charged["udp"]
    BY <1>1, <1>2, <2>2, BudgetMoves DEF Protos
  <2> QED
    BY <1>2, <1>3, <1>6, <2>1, <2>3 DEF Finite, u
<1>7. CASE Opens("udp", DOMAIN udp, DOMAIN udp') /\ UNCHANGED tcp
  <2> PICK k : k \notin DOMAIN udp /\ DOMAIN udp' = DOMAIN udp \cup {k}
    BY <1>7 DEF Opens
  <2>1. IsFiniteSet(DOMAIN udp') /\ Cardinality(DOMAIN udp') = u + 1
    BY FS_AddElement DEF Finite
  <2>2. u < MaxFlows("udp") /\ charged["udp"] + Cost("udp") <= MaxBytes("udp")
        /\ charged' = Charged("udp")
    BY <1>4, <1>7 DEF Opens, Protos
  <2> HIDE DEF t, u
  <2>3. /\ charged'["udp"] = (u + 1) * Cost("udp") /\ charged'["udp"] <= MaxBytes("udp")
        /\ u + 1 <= MaxFlows("udp") /\ charged'["tcp"] = charged["tcp"]
    BY <1>1, <1>2, <2>2, BudgetMoves DEF Protos
  <2> QED
    BY <1>2, <1>3, <1>7, <2>1, <2>3 DEF Finite, t
<1>8. CASE Retires("tcp", DOMAIN tcp, DOMAIN tcp') /\ UNCHANGED udp
  <2> PICK k \in DOMAIN tcp : DOMAIN tcp' = DOMAIN tcp \ {k}
    BY <1>8 DEF Retires
  <2>1. IsFiniteSet(DOMAIN tcp') /\ Cardinality(DOMAIN tcp') = t - 1 /\ t # 0
    BY FS_RemoveElement, FS_EmptySet DEF Finite
  <2>2. charged' = Refunded("tcp")
    BY <1>8 DEF Retires
  <2> HIDE DEF t, u
  <2>3. /\ charged'["tcp"] = (t - 1) * Cost("tcp") /\ charged'["tcp"] <= MaxBytes("tcp")
        /\ t - 1 <= MaxFlows("tcp") /\ charged'["udp"] = charged["udp"]
    BY <1>1, <1>2, <2>1, <2>2, BudgetMoves DEF Protos
  <2> QED
    BY <1>2, <1>3, <1>8, <2>1, <2>3 DEF Finite, u
<1>9. CASE Retires("udp", DOMAIN udp, DOMAIN udp') /\ UNCHANGED tcp
  <2> PICK k \in DOMAIN udp : DOMAIN udp' = DOMAIN udp \ {k}
    BY <1>9 DEF Retires
  <2>1. IsFiniteSet(DOMAIN udp') /\ Cardinality(DOMAIN udp') = u - 1 /\ u # 0
    BY FS_RemoveElement, FS_EmptySet DEF Finite
  <2>2. charged' = Refunded("udp")
    BY <1>9 DEF Retires
  <2> HIDE DEF t, u
  <2>3. /\ charged'["udp"] = (u - 1) * Cost("udp") /\ charged'["udp"] <= MaxBytes("udp")
        /\ u - 1 <= MaxFlows("udp") /\ charged'["tcp"] = charged["tcp"]
    BY <1>1, <1>2, <2>1, <2>2, BudgetMoves DEF Protos
  <2> QED
    BY <1>2, <1>3, <1>9, <2>1, <2>3 DEF Finite, t
<1> QED
  BY <1>5, <1>6, <1>7, <1>8, <1>9, TablesMoveOneFlow

-----------------------------------------------------------------------------
(* The deadlines.                                                           *)

\* Entries of the heap differ where their flows or their instants do.
LEMMA EntriesDiffer ==
  /\ \A k, j, a, b : Entry(Tcp(k), a) = Entry(Tcp(j), b) <=> k = j /\ a = b
  /\ \A k, j, a, b : Entry(Udp(k), a) = Entry(Udp(j), b) <=> k = j /\ a = b
  /\ \A k, j, a, b : Entry(Tcp(k), a) # Entry(Udp(j), b)
BY DEF Entry, Tcp, Udp

\* An entry of the heap is a TCP or a UDP flow's.
LEMMA EntriesAre ==
  ASSUME TypeOK, NEW e \in deadlines
  PROVE  /\ e.at \in Nat
         /\ e.id.proto = "tcp" => e.id.key \in TcpKeys /\ e = Entry(Tcp(e.id.key), e.at)
         /\ e.id.proto = "udp" => e.id.key \in UdpKeys /\ e = Entry(Udp(e.id.key), e.at)
<1>1. e \in [at : Nat, id : FlowIds]
  BY DEF TypeOK
<1>2. e = [at |-> e.at, id |-> e.id] /\ e.id \in FlowIds /\ e.at \in Nat
  BY <1>1
<1>3. /\ e.id.proto = "tcp" => e.id.key \in TcpKeys /\ e.id = Tcp(e.id.key)
      /\ e.id.proto = "udp" => e.id.key \in UdpKeys /\ e.id = Udp(e.id.key)
  BY <1>2 DEF FlowIds, Tcp, Udp
<1> QED
  BY <1>2, <1>3 DEF Entry

\* The deadline part of the invariant, in one name for the step lemmas.
Timed == TcpTimed /\ UdpTimed /\ IdleBounded /\ HeapAhead

\* Opening a flow files its deadline, also where an earlier flow of the same
\* 4-tuple left entries behind.
LEMMA OpenTimed ==
  ASSUME TypeOK, Timed,
         (\E k \in TcpKeys : OpenTcp(k)) \/ (\E k \in UdpKeys : OpenUdp(k))
  PROVE  Timed'
<1> USE Tables, EntriesDiffer
<1>1. CASE \E k \in TcpKeys : OpenTcp(k)
  <2> PICK k \in TcpKeys : OpenTcp(k)
    BY <1>1
  <2> PICK s \in Slots : tcp' = Insert(tcp, k, NewTcp(s))
    BY DEF OpenTcp
  <2>1. /\ DOMAIN tcp' = DOMAIN tcp \cup {k} /\ tcp'[k] = NewTcp(s)
        /\ \A x \in DOMAIN tcp \ {k} : tcp'[x] = tcp[x]
    BY DEF Insert
  <2>2. /\ k \notin DOMAIN tcp /\ udp' = udp /\ now' = now /\ phase' = "recv"
        /\ deadlines' = deadlines \cup {Entry(Tcp(k), now + TCP_HANDSHAKE_TIMEOUT)}
    BY DEF OpenTcp, Filed, Entry
  <2>3. NewTcp(s).deadline = now + TCP_HANDSHAKE_TIMEOUT
    BY DEF NewTcp
  <2>4. TcpTimed'
    BY <2>1, <2>2, <2>3 DEF Timed, TcpTimed
  <2>5. UdpTimed'
    BY <2>2 DEF Timed, UdpTimed
  <2> QED
    BY <2>2, <2>4, <2>5 DEF Timed, IdleBounded, HeapAhead
<1>2. CASE \E k \in UdpKeys : OpenUdp(k)
  <2> PICK k \in UdpKeys : OpenUdp(k)
    BY <1>2
  <2> PICK s \in Slots : udp' = Insert(udp, k, NewUdp(s))
    BY DEF OpenUdp
  <2>1. /\ DOMAIN udp' = DOMAIN udp \cup {k} /\ udp'[k] = NewUdp(s)
        /\ \A x \in DOMAIN udp \ {k} : udp'[x] = udp[x]
    BY DEF Insert
  <2>2. /\ k \notin DOMAIN udp /\ tcp' = tcp /\ now' = now /\ phase' = "recv"
        /\ deadlines' = deadlines \cup {Entry(Udp(k), now + UDP_IDLE)}
    BY DEF OpenUdp, Filed, Entry
  <2>3. NewUdp(s).deadline = now + UDP_IDLE /\ NewUdp(s).last = now
    BY DEF NewUdp
  <2>4. TcpTimed'
    BY <2>2 DEF Timed, TcpTimed
  <2>5. UdpTimed'
    BY <2>1, <2>2, <2>3 DEF Timed, UdpTimed
  <2>6. IdleBounded'
    BY <2>1, <2>2, <2>3 DEF Timed, IdleBounded
  <2> QED
    BY <2>2, <2>4, <2>5, <2>6 DEF Timed, HeapAhead
<1> QED
  BY <1>1, <1>2

\* What sockets and tasks do leaves every deadline where it was.
LEMMA OutsideTimed ==
  ASSUME TypeOK, Timed,
         \/ \E k \in TcpKeys : TcpSocketMoves(k)
         \/ \E k \in UdpKeys : UdpArrives(k)
         \/ \E id \in FlowIds : TaskMarks(id) \/ TaskEnds(id) \/ OrphanEnds(id)
  PROVE  Timed'
<1> USE Tables
<1>1. /\ DOMAIN tcp' = DOMAIN tcp
      /\ \A k \in DOMAIN tcp : /\ tcp'[k].established = tcp[k].established
                               /\ tcp'[k].deadline = tcp[k].deadline
  <2>1. \A k \in DOMAIN tcp : tcp[k] \in TcpConn
    OBVIOUS
  <2>2. ASSUME NEW j, NEW st, tcp' = [tcp EXCEPT ![j].sock = st]
        PROVE  /\ DOMAIN tcp' = DOMAIN tcp
               /\ \A k \in DOMAIN tcp : /\ tcp'[k].established = tcp[k].established
                                        /\ tcp'[k].deadline = tcp[k].deadline
    BY <2>1, <2>2 DEF TcpConn
  <2>3. ASSUME NEW j, tcp' = [tcp EXCEPT ![j].out_eof = TRUE]
        PROVE  /\ DOMAIN tcp' = DOMAIN tcp
               /\ \A k \in DOMAIN tcp : /\ tcp'[k].established = tcp[k].established
                                        /\ tcp'[k].deadline = tcp[k].deadline
    BY <2>1, <2>3 DEF TcpConn
  <2>4. \/ tcp' = tcp
        \/ \E j, st : tcp' = [tcp EXCEPT ![j].sock = st]
        \/ \E j : tcp' = [tcp EXCEPT ![j].out_eof = TRUE]
    BY DEF TcpSocketMoves, UdpArrives, TaskMarks, TaskEnds, OrphanEnds
  <2> QED
    BY <2>2, <2>3, <2>4
<1>2. /\ DOMAIN udp' = DOMAIN udp
      /\ \A k \in DOMAIN udp : udp'[k].last = udp[k].last /\ udp'[k].deadline = udp[k].deadline
  <2>1. \A k \in DOMAIN udp : udp[k] \in UdpConn
    OBVIOUS
  <2>2. ASSUME NEW j, NEW v, udp' = [udp EXCEPT ![j].rx = v]
        PROVE  /\ DOMAIN udp' = DOMAIN udp
               /\ \A k \in DOMAIN udp : /\ udp'[k].last = udp[k].last
                                        /\ udp'[k].deadline = udp[k].deadline
    BY <2>1, <2>2 DEF UdpConn
  <2>3. ASSUME NEW j, udp' = [udp EXCEPT ![j].out_eof = TRUE]
        PROVE  /\ DOMAIN udp' = DOMAIN udp
               /\ \A k \in DOMAIN udp : /\ udp'[k].last = udp[k].last
                                        /\ udp'[k].deadline = udp[k].deadline
    BY <2>1, <2>3 DEF UdpConn
  <2>4. \/ udp' = udp
        \/ \E j, v : udp' = [udp EXCEPT ![j].rx = v]
        \/ \E j : udp' = [udp EXCEPT ![j].out_eof = TRUE]
    BY DEF TcpSocketMoves, UdpArrives, TaskMarks, TaskEnds, OrphanEnds
  <2> QED
    BY <2>2, <2>3, <2>4
<1>3. deadlines' = deadlines /\ now' = now /\ phase' = phase
  BY DEF TcpSocketMoves, UdpArrives, TaskMarks, TaskEnds, OrphanEnds
<1>4. TcpTimed'
  BY <1>1, <1>3 DEF Timed, TcpTimed
<1>5. UdpTimed'
  BY <1>2, <1>3 DEF Timed, UdpTimed
<1>6. IdleBounded' /\ HeapAhead'
  BY <1>2, <1>3 DEF Timed, IdleBounded, HeapAhead
<1> QED
  BY <1>4, <1>5, <1>6 DEF Timed

\* Popping a due entry retires or puts back its own flow, and no other flow's
\* entry goes with it.
LEMMA ExpireTimed ==
  ASSUME TypeOK, Timed, Expire
  PROVE  Timed'
<1> USE Tables, EntriesDiffer
<1> PICK e \in deadlines : \/ e.id.proto = "tcp" /\ PopTcp(e.id.key, e.at)
                           \/ e.id.proto = "udp" /\ PopUdp(e.id.key, e.at)
  BY DEF Expire
<1> DEFINE k == e.id.key
           at == e.at
<1>1. now' = now /\ phase' = "expire"
  BY DEF Expire
<1>2. HeapAhead'
  BY <1>1 DEF HeapAhead
<1>3. ASSUME e.id.proto = "tcp", PopTcp(k, at) PROVE Timed'
  <2> HIDE DEF k, at
  <2>1. deadlines' = deadlines \ {Entry(Tcp(k), at)} /\ udp' = udp
    BY <1>3 DEF PopTcp
  <2>2. UdpTimed' /\ IdleBounded'
    BY <1>1, <2>1 DEF Timed, UdpTimed, IdleBounded
  <2>3. CASE k \in DOMAIN tcp /\ tcp' = Without(tcp, k)
    <3>1. DOMAIN tcp' = DOMAIN tcp \ {k} /\ \A x \in DOMAIN tcp' : tcp'[x] = tcp[x]
      BY <2>3 DEF Without, Restrict
    <3> QED
      BY <1>2, <2>1, <2>2, <3>1 DEF Timed, TcpTimed
  <2>4. CASE ~OwnsHandshake(k, at) /\ tcp' = tcp
    BY <1>2, <2>1, <2>2, <2>4 DEF Timed, TcpTimed, OwnsHandshake
  <2> QED
    BY <1>3, <2>3, <2>4 DEF PopTcp, OwnsHandshake, RemoveTcp
<1>4. ASSUME e.id.proto = "udp", PopUdp(k, at) PROVE Timed'
  <2>1. k \in UdpKeys /\ at \in Nat /\ Entry(Udp(k), at) \in deadlines
    BY <1>4, EntriesAre
  <2> HIDE DEF k, at
  <2>2. k \in DOMAIN udp /\ udp[k].deadline = at
    BY <2>1 DEF Timed, UdpTimed
  <2>3. tcp' = tcp
    BY <1>4 DEF PopUdp
  <2>4. CASE /\ deadlines' = Rearmed(k, at)
             /\ udp' = [udp EXCEPT ![k].deadline = udp[k].last + UDP_IDLE]
    <3> DEFINE next == udp[k].last + UDP_IDLE
    <3>1. udp[k] \in UdpConn
      BY <2>2
    <3>2. udp'[k].deadline = next /\ udp'[k].last = udp[k].last /\ next \in Nat
          /\ DOMAIN udp' = DOMAIN udp /\ \A j \in DOMAIN udp \ {k} : udp'[j] = udp[j]
      BY <2>2, <2>4, <3>1 DEF UdpConn
    <3>3. deadlines' = (deadlines \ {Entry(Udp(k), at)}) \cup {Entry(Udp(k), next)}
      BY <2>4 DEF Rearmed
    <3> HIDE DEF next
    <3>4. TcpTimed'
      BY <2>3, <3>3 DEF Timed, TcpTimed
    <3>5. UdpTimed'
      BY <2>2, <3>2, <3>3 DEF Timed, UdpTimed
    <3>6. udp'[k].last <= now /\ udp'[k].deadline <= udp'[k].last + UDP_IDLE
      BY <2>2, <3>1, <3>2 DEF Timed, IdleBounded, UdpConn, next
    <3>7. IdleBounded'
      BY <1>1, <3>2, <3>6 DEF Timed, IdleBounded
    <3> QED
      BY <1>2, <3>4, <3>5, <3>7 DEF Timed
  <2>5. CASE deadlines' = deadlines \ {Entry(Udp(k), at)} /\ udp' = Without(udp, k)
    <3>1. DOMAIN udp' = DOMAIN udp \ {k} /\ \A x \in DOMAIN udp' : udp'[x] = udp[x]
      BY <2>5 DEF Without, Restrict
    <3>2. TcpTimed'
      BY <2>3, <2>5 DEF Timed, TcpTimed
    <3>3. UdpTimed'
      BY <2>2, <2>5, <3>1 DEF Timed, UdpTimed
    <3>4. IdleBounded'
      BY <1>1, <3>1 DEF Timed, IdleBounded
    <3> QED
      BY <1>2, <3>2, <3>3, <3>4 DEF Timed
  <2> QED
    BY <1>4, <2>2, <2>4, <2>5 DEF PopUdp, OwnsIdle, RemoveUdp
<1> QED
  BY <1>3, <1>4

\* Servicing a UDP flow moves its reply address, its last movement and its socket's
\* datagrams, and nothing else.
LEMMA ServiceUdpMoves ==
  ASSUME NEW k, ServiceUdp(k)
  PROVE  \E got \in SUBSET udp[k].rx, src \in Sources \cup {NoSource},
            last \in {udp[k].last, now} :
           udp' = [udp EXCEPT ![k].app_src = src, ![k].last = last, ![k].rx = @ \ got]
BY DEF ServiceUdp

\* Servicing a flow can only establish it, retire it, or move its last activity
\* forward.
LEMMA ServiceTimed ==
  ASSUME TypeOK, Timed, NEW id \in FlowIds, Service(id)
  PROVE  Timed'
<1> USE Tables
<1> DEFINE k == id.key
<1>1. deadlines' = deadlines /\ now' = now /\ phase' = phase
  BY DEF Service
<1>2. HeapAhead'
  BY <1>1 DEF Timed, HeapAhead
<1>3. ASSUME k \in DOMAIN tcp, ServiceTcp(k), udp' = udp PROVE Timed'
  <2>1. UdpTimed' /\ IdleBounded'
    BY <1>1, <1>3 DEF Timed, UdpTimed, IdleBounded
  <2>2. CASE RemoveTcp(k)
    <3>1. DOMAIN tcp' = DOMAIN tcp \ {k} /\ \A x \in DOMAIN tcp' : tcp'[x] = tcp[x]
      BY <2>2 DEF RemoveTcp, Without, Restrict
    <3> QED
      BY <1>1, <1>2, <2>1, <3>1 DEF Timed, TcpTimed
  <2>3. ASSUME NEW st,
               tcp' = [tcp EXCEPT ![k].sock = st,
                                  ![k].established = @ \/ tcp[k].sock = "Established"]
        PROVE  Timed'
    <3>1. tcp[k] \in TcpConn
      BY <1>3
    <3>2. DOMAIN tcp' = DOMAIN tcp /\ \A j \in DOMAIN tcp \ {k} : tcp'[j] = tcp[j]
      BY <2>3
    <3>3. tcp'[k].deadline = tcp[k].deadline /\ (tcp[k].established => tcp'[k].established)
      BY <1>3, <2>3, <3>1 DEF TcpConn
    <3> QED
      BY <1>1, <1>2, <2>1, <3>2, <3>3 DEF Timed, TcpTimed
  <2> QED
    BY <1>3, <2>2, <2>3 DEF ServiceTcp
<1>4. ASSUME k \in DOMAIN udp, ServiceUdp(k), tcp' = tcp PROVE Timed'
  <2>1. udp[k] \in UdpConn
    BY <1>4
  <2>2. PICK got \in SUBSET udp[k].rx, src \in Sources \cup {NoSource},
             last \in {udp[k].last, now} :
          udp' = [udp EXCEPT ![k].app_src = src, ![k].last = last, ![k].rx = @ \ got]
    BY <1>4, ServiceUdpMoves
  <2>3. DOMAIN udp' = DOMAIN udp /\ \A j \in DOMAIN udp \ {k} : udp'[j] = udp[j]
    BY <2>2
  <2>4. udp'[k].deadline = udp[k].deadline /\ udp'[k].last = last
    <3>1. udp'[k] = [udp[k] EXCEPT !.app_src = src, !.last = last, !.rx = @ \ got]
      BY <1>4, <2>2
    <3> QED
      BY <2>1, <3>1 DEF UdpConn
  <2>5. udp[k].last <= last /\ last <= now
    BY <1>4, <2>1, <2>2 DEF Timed, IdleBounded, UdpConn
  <2>6. TcpTimed'
    BY <1>1, <1>4 DEF Timed, TcpTimed
  <2>7. UdpTimed'
    BY <1>1, <2>3, <2>4 DEF Timed, UdpTimed
  <2>8. last \in Nat /\ udp[k].last \in Nat /\ udp[k].deadline \in Nat
    BY <2>1, <2>2 DEF UdpConn
  <2>9. udp'[k].last <= now /\ udp'[k].deadline <= udp'[k].last + UDP_IDLE
    BY <1>4, <2>4, <2>5, <2>8 DEF Timed, IdleBounded
  <2>10. IdleBounded'
    BY <1>1, <2>3, <2>9 DEF Timed, IdleBounded
  <2> QED
    BY <1>2, <2>6, <2>7, <2>10 DEF Timed
<1>5. ASSUME UNCHANGED <<tcp, udp>> PROVE Timed'
  BY <1>1, <1>5 DEF Timed, TcpTimed, UdpTimed, IdleBounded, HeapAhead
<1> QED
  BY <1>3, <1>4, <1>5 DEF Service, Open

\* Every step keeps the deadline part of the invariant.
LEMMA TimedKept == TypeOK /\ Timed /\ [Next]_vars => Timed'
<1> SUFFICES ASSUME TypeOK, Timed, [Next]_vars PROVE Timed'
  OBVIOUS
<1> USE DEF Timed, TcpTimed, UdpTimed
<1>1. CASE Tick
  <2>1. IdleBounded' /\ HeapAhead'
    <3>1. \A k \in DOMAIN udp : udp[k].last \in Nat
      BY Tables DEF UdpConn
    <3> QED
      BY <1>1, <3>1, Tables DEF Tick, IdleBounded, HeapAhead
  <2> QED
    BY <1>1, <2>1 DEF Tick
<1>2. CASE Dispatch
  BY <1>2 DEF Dispatch, IdleBounded, HeapAhead
<1>3. CASE Take
  BY <1>3 DEF Take, IdleBounded, HeapAhead
<1>4. CASE Return
  BY <1>4 DEF Return, IdleBounded, HeapAhead
<1>5. CASE UNCHANGED vars
  BY <1>5 DEF vars, IdleBounded, HeapAhead
<1> HIDE DEF Timed, TcpTimed, UdpTimed
<1> QED
  BY <1>1, <1>2, <1>3, <1>4, <1>5, OpenTimed, OutsideTimed, ExpireTimed, ServiceTimed DEF Next

\* The invariant holds of an empty table.
LEMMA ConnInvAtFirst == Init => ConnInv
<1> SUFFICES ASSUME Init PROVE ConnInv
  OBVIOUS
<1>1. DOMAIN tcp = {} /\ DOMAIN udp = {} /\ deadlines = {} /\ phase = "recv"
  BY DEF Init
<1>2. Finite /\ Cardinality(DOMAIN tcp) = 0 /\ Cardinality(DOMAIN udp) = 0
  BY <1>1, FS_EmptySet DEF Finite
<1>3. BudgetExact
  <2>1. \A proto \in Protos : /\ Cost(proto) \in Nat /\ MaxBytes(proto) \in Nat
                              /\ MaxFlows(proto) \in Nat
    BY CostsAreNumbers
  <2>2. \A proto \in Protos : Live(proto) = 0 /\ charged[proto] = 0
    BY <1>2 DEF Init, Live, Protos
  <2> QED
    BY <2>1, <2>2 DEF BudgetExact, Protos
<1>4. TcpTimed /\ UdpTimed /\ IdleBounded /\ HeapAhead
  BY <1>1 DEF TcpTimed, UdpTimed, IdleBounded, HeapAhead
<1> QED
  BY <1>2, <1>3, <1>4, TypesAtFirst DEF ConnInv

\* The invariant is inductive.
LEMMA ConnInvKept == ConnInv /\ [Next]_vars => ConnInv'
BY TypesKept, BudgetKept, TimedKept DEF ConnInv, Timed

\* What every reachable state of the flow table satisfies.
THEOREM ConnInvariant == Spec => []ConnInv
BY ConnInvAtFirst, ConnInvKept, PTL DEF Spec

-----------------------------------------------------------------------------
(* What the invariant means.                                                *)

\* The charge of each protocol is the cost of its open flows, within both limits.
THEOREM BudgetIsExact == Spec => []BudgetExact
<1>1. ConnInv => BudgetExact
  BY DEF ConnInv
<1> QED
  BY <1>1, ConnInvariant, PTL

\* Every flow has its own deadline in the heap, and a UDP flow has just one.
THEOREM FlowsAreTimed == Spec => []FlowsTimed
<1>1. ConnInv => FlowsTimed
  <2> SUFFICES ASSUME ConnInv PROVE FlowsTimed
    OBVIOUS
  <2>0. TypeOK /\ TcpTimed /\ UdpTimed
    BY DEF ConnInv
  <2>1. ASSUME NEW d \in deadlines, d.id.proto = "udp"
        PROVE  d \in {Entry(Udp(k), udp[k].deadline) : k \in DOMAIN udp}
    <3>1. d.id.key \in UdpKeys /\ d.at \in Nat /\ d = Entry(Udp(d.id.key), d.at)
      BY <2>0, <2>1, EntriesAre
    <3>2. d.id.key \in DOMAIN udp /\ udp[d.id.key].deadline = d.at
      BY <2>0, <2>1, <3>1 DEF UdpTimed
    <3> QED
      BY <3>1, <3>2
  <2>2. ASSUME NEW k \in DOMAIN udp
        PROVE  /\ Entry(Udp(k), udp[k].deadline) \in deadlines
               /\ Entry(Udp(k), udp[k].deadline).id.proto = "udp"
    <3>1. Entry(Udp(k), udp[k].deadline) \in deadlines
      BY <2>0 DEF UdpTimed
    <3>2. Entry(Udp(k), udp[k].deadline).id.proto = "udp"
      BY DEF Entry, Udp
    <3> QED
      BY <3>1, <3>2
  <2> QED
    BY <2>0, <2>1, <2>2 DEF FlowsTimed, TcpTimed
<1> QED
  BY <1>1, ConnInvariant, PTL

\* After expire no flow is left past its handshake or its idle window.
THEOREM NoFlowOverdue == Spec => []NoneOverdue
<1>1. ConnInv => NoneOverdue
  <2> SUFFICES ASSUME ConnInv, phase = "service" PROVE NoneOverdue
    BY DEF NoneOverdue
  <2>0. TypeOK /\ TcpTimed /\ UdpTimed /\ IdleBounded /\ \A e \in deadlines : e.at > now
    BY DEF ConnInv, HeapAhead
  <2>1. ASSUME NEW k \in DOMAIN tcp, ~tcp[k].established PROVE tcp[k].deadline > now
    <3>1. Entry(Tcp(k), tcp[k].deadline).at > now
      BY <2>0, <2>1 DEF TcpTimed
    <3> QED
      BY <3>1 DEF Entry
  <2>2. ASSUME NEW k \in DOMAIN udp PROVE udp[k].last + UDP_IDLE > now
    <3>1. Entry(Udp(k), udp[k].deadline).at > now
      BY <2>0 DEF UdpTimed
    <3>2. udp[k].deadline > now /\ udp[k].deadline <= udp[k].last + UDP_IDLE
      BY <2>0, <3>1 DEF Entry, IdleBounded
    <3>3. udp[k].deadline \in Nat /\ udp[k].last \in Nat /\ UDP_IDLE \in Nat /\ now \in Nat
      BY <2>0, Tables DEF UdpConn
    <3> QED
      BY <3>2, <3>3
  <2> QED
    BY <2>1, <2>2 DEF NoneOverdue
<1> QED
  BY <1>1, ConnInvariant, PTL

\* expire retires a flow only at that flow's own deadline, whatever entries
\* earlier flows of its 4-tuple left in the heap.
THEOREM ExpireRetiresOwn == Spec => RetiresOwnDeadline
<1> DEFINE Own == phase = "expire" =>
       /\ \A k \in DOMAIN tcp \ DOMAIN tcp' : ~tcp[k].established /\ tcp[k].deadline <= now
       /\ \A k \in DOMAIN udp \ DOMAIN udp' : udp[k].last + UDP_IDLE <= now
<1>1. TypeOK /\ [Next]_vars => [Own]_vars
  <2> SUFFICES ASSUME TypeOK, Next, phase = "expire"
               PROVE  /\ \A k \in DOMAIN tcp \ DOMAIN tcp' :
                           ~tcp[k].established /\ tcp[k].deadline <= now
                      /\ \A k \in DOMAIN udp \ DOMAIN udp' : udp[k].last + UDP_IDLE <= now
    OBVIOUS
  <2>1. CASE Expire
    <3> PICK e \in deadlines :
          /\ e.at <= now
          /\ \/ e.id.proto = "tcp" /\ PopTcp(e.id.key, e.at)
             \/ e.id.proto = "udp" /\ PopUdp(e.id.key, e.at)
      BY <2>1 DEF Expire, Due
    <3>1. CASE PopTcp(e.id.key, e.at)
      BY <3>1 DEF PopTcp, OwnsHandshake, RemoveTcp, Without, Restrict
    <3>2. CASE PopUdp(e.id.key, e.at)
      <4>1. \A k \in DOMAIN udp \ DOMAIN udp' : k = e.id.key /\ now >= udp[k].last + UDP_IDLE
        BY <3>2 DEF PopUdp, RemoveUdp, Without, Restrict
      <4>2. tcp' = tcp
        BY <3>2 DEF PopUdp
      <4>3. \A k \in DOMAIN udp : udp[k].last + UDP_IDLE \in Nat
        BY Tables DEF UdpConn
      <4> QED
        BY <4>1, <4>2, <4>3, Tables
    <3> QED
      BY <3>1, <3>2
  <2>2. CASE ~Expire
    <3>1. DOMAIN tcp \subseteq DOMAIN tcp' /\ DOMAIN udp \subseteq DOMAIN udp'
      BY <2>2 DEF Next, OpenTcp, OpenUdp, TcpSocketMoves, UdpArrives, TaskMarks,
                  TaskEnds, OrphanEnds, Service, Tick, Dispatch, Take, Return
    <3> QED
      BY <3>1
  <2> QED
    BY <2>1, <2>2
<1> QED
  BY <1>1, TypeCorrect, PTL DEF Spec, RetiresOwnDeadline
=============================================================================
