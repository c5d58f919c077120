----------------------------- MODULE Nat44Proofs -----------------------------
(***************************************************************************)
(* Proofs about Nat44, for every set of conversations, every port range    *)
(* and every ceiling.                                                      *)
(***************************************************************************)
EXTENDS Nat44, FiniteSetTheorems, TLAPS

USE KeysAssumption, PortAssumption, BoundAssumption, HostAssumption

-----------------------------------------------------------------------------
(* What the map helpers do.                                                *)

\* Without is HashMap::retain on the complement of S.
LEMMA WithoutFacts ==
  ASSUME NEW m, NEW S
  PROVE  /\ DOMAIN Without(m, S) = DOMAIN m \ S
         /\ \A x \in DOMAIN m \ S : Without(m, S)[x] = m[x]
BY DEF Without, Restrict

\* Insert keeps a typed map typed.
LEMMA InsertType ==
  ASSUME NEW m, NEW K, NEW V, MapOK(m, K, V),
         NEW k \in K, NEW v \in V
  PROVE  MapOK(Insert(m, k, v), K, V)
BY DEF Insert, MapOK

\* Without keeps a typed map typed.
LEMMA WithoutType ==
  ASSUME NEW m, NEW K, NEW V, MapOK(m, K, V), NEW S
  PROVE  MapOK(Without(m, S), K, V)
BY DEF Without, Restrict, MapOK

\* A conversation's binding has the type of a binding, and refreshing one
\* keeps it.
LEMMA BindingTypes ==
  /\ \A k \in Keys : BindingFor(k) \in Binding
  /\ \A b \in Binding : /\ Refreshed(b) \in Binding
                         /\ EndpointOf(Refreshed(b)) = EndpointOf(b)
                         /\ \A rk : KeyOf(rk, Refreshed(b)) = KeyOf(rk, b)
<1>1. \A k \in Keys : BindingFor(k) \in Binding
  BY DEF BindingFor, Binding, FwdKey
<1>2. ASSUME NEW b \in Binding
      PROVE  /\ Refreshed(b) \in Binding
             /\ EndpointOf(Refreshed(b)) = EndpointOf(b)
             /\ \A rk : KeyOf(rk, Refreshed(b)) = KeyOf(rk, b)
  <2>1. /\ Refreshed(b) \in Binding
        /\ Refreshed(b).src = b.src /\ Refreshed(b).sport = b.sport
        /\ Refreshed(b).dst = b.dst /\ Refreshed(b).dport = b.dport
    BY DEF Refreshed, Binding
  <2> QED
    BY <2>1 DEF EndpointOf, KeyOf
<1> QED
  BY <1>1, <1>2

-----------------------------------------------------------------------------
(* Type correctness.                                                       *)

\* A fresh Nat (Nat::new, and the fixed plan's forward) is well typed.
LEMMA InitType == Init => TypeOK
<1> SUFFICES ASSUME Init PROVE TypeOK
  OBVIOUS
<1>1. MapOK(fwd, Keys, Ports) /\ MapOK(rev, RevKey, Binding) /\ MapOK(frag, FragKey, Window)
  BY DEF Init, MapOK
<1>2. next_port \in Ports /\ forwarded_in \in 0 .. CounterMax
  BY DEF Init, Ports
<1>3. forward \in Forward \cup {NoForward}
  BY DEF Init, Forward
<1>4. NoEndpoint \in Endpoint
  BY DEF NoEndpoint, Endpoint
<1>5. out \in Outcome
  BY <1>4 DEF Init, Dropped, Result, Verdicts, Protos, Outcome
<1>6. via \in [RevKey -> Endpoint]
  BY <1>4 DEF Init
<1> QED
  BY <1>1, <1>2, <1>3, <1>5, <1>6 DEF TypeOK

\* The results a call can leave in out are well typed.
LEMMA ResultType ==
  ASSUME NEW dir \in {"none", "out", "in"}, NEW verdict \in Verdicts, NEW proto \in Protos,
         NEW ep \in Endpoint, NEW port \in AllPorts \cup {0}
  PROVE  Result(dir, verdict, proto, ep, port) \in
           Outcome
BY DEF Result, Outcome

\* The endpoints that the calls report are well typed.
LEMMA Endpoints ==
  /\ NoEndpoint \in Endpoint
  /\ \A a \in Hosts, p \in AllPorts \cup {0} : [addr |-> a, port |-> p] \in Endpoint
  /\ \A b \in Binding : EndpointOf(b) \in Endpoint
BY DEF NoEndpoint, Endpoint, EndpointOf, Binding, AllPorts

\* The typed shape of Emit, the common end of OutKnown and OutNew.
LEMMA EmitType ==
  ASSUME TypeOK, NEW k \in Keys, NEW p \in Ports, NEW f, NEW r, NEW rst \in BOOLEAN,
         MapOK(f, Keys, Ports),
         MapOK(r, RevKey, Binding),
         Emit(k, p, f, r, rst)
  PROVE  /\ MapOK(fwd', Keys, Ports)
         /\ MapOK(rev', RevKey, Binding)
         /\ out' \in Outcome
         /\ via' \in [RevKey -> Endpoint]
<1> DEFINE rk == RK(k.proto, p)
<1>1. k.proto \in Protos /\ k.src \in Hosts /\ k.sport \in AllPorts /\ p \in AllPorts
  BY DEF FwdKey, AllPorts
<1>2. MapOK(fwd', Keys, Ports)
  BY WithoutType DEF Emit, ClosedFwd
<1>3. MapOK(rev', RevKey, Binding)
  BY WithoutType DEF Emit
<1>4. [addr |-> k.src, port |-> k.sport] \in Endpoint
  BY <1>1, Endpoints
<1>5. out' = Result("out", "Translate", k.proto, [addr |-> k.src, port |-> k.sport], p)
  BY DEF Emit
<1>6. via' \in [RevKey -> Endpoint]
  BY <1>4 DEF Emit, TypeOK
<1> QED
  BY <1>1, <1>2, <1>3, <1>4, <1>5, <1>6, ResultType DEF Verdicts

\* A packet of a known conversation (translate_out 385-413) keeps the types.
LEMMA OutKnownType ==
  ASSUME TypeOK, NEW k \in Keys, NEW rst \in BOOLEAN, OutKnown(k, rst)
  PROVE  TypeOK'
<1> DEFINE rk == RK(k.proto, fwd[k])
           r == IF rk \in DOMAIN rev THEN Insert(rev, rk, Refreshed(rev[rk])) ELSE rev
<1>1. fwd[k] \in Ports /\ Emit(k, fwd[k], fwd, r, rst)
  BY DEF OutKnown, TypeOK, MapOK
<1>2. MapOK(r, RevKey, Binding)
  <2>1. CASE rk \in DOMAIN rev
    <3>1. Refreshed(rev[rk]) \in Binding
      BY <2>1, BindingTypes DEF TypeOK, MapOK
    <3>2. rk \in RevKey
      BY <2>1 DEF TypeOK, MapOK
    <3> QED
      BY <2>1, <3>1, <3>2, InsertType DEF TypeOK
  <2>2. CASE rk \notin DOMAIN rev
    BY <2>2 DEF TypeOK
  <2> QED
    BY <2>1, <2>2
<1>3. UNCHANGED <<frag, next_port, forward, forwarded_in>>
  BY DEF OutKnown
<1> HIDE DEF r, rk
<1> QED
  BY <1>1, <1>2, <1>3, EmitType DEF TypeOK

\* Opening a binding (translate_out and alloc_port) keeps the types.
LEMMA OutNewType ==
  ASSUME TypeOK, NEW k \in Keys, NEW rst \in BOOLEAN, OutNew(k, rst)
  PROVE  TypeOK'
<1>1. PICK p \in Ports :
        /\ Allocates(k.proto, p)
        /\ Emit(k, p, Insert(fwd, k, p), Insert(rev, RK(k.proto, p), BindingFor(k)), rst)
  BY DEF OutNew
<1> DEFINE f == Insert(fwd, k, p)
           r == Insert(rev, RK(k.proto, p), BindingFor(k))
<1>2. MapOK(f, Keys, Ports)
  BY InsertType DEF TypeOK
<1>3. RK(k.proto, p) \in RevKey
  BY DEF RK, RevKey, FwdKey, AllPorts
<1>4. MapOK(r, RevKey, Binding)
  BY <1>3, BindingTypes, InsertType DEF TypeOK
<1>5. next_port' \in Ports
  BY <1>1 DEF Allocates, Advance, Ports
<1>6. UNCHANGED <<frag, forward, forwarded_in>>
  BY DEF OutNew
<1> HIDE DEF f, r
<1>7. Emit(k, p, f, r, rst)
  BY <1>1 DEF f, r
<1> QED
  BY <1>2, <1>4, <1>5, <1>6, <1>7, EmitType DEF TypeOK

\* The calls that leave the tables alone keep the types.
LEMMA OutStatelessType ==
  ASSUME TypeOK,
         OutStateless \/ InDrop \/ \E k \in Keys : OutExhausted(k) \/ OutCone(k)
  PROVE  TypeOK'
<1>1. CASE OutStateless \/ InDrop
  <2>1. out' \in Outcome
    BY <1>1, Endpoints, ResultType DEF OutStateless, InDrop, Dropped, Verdicts, Protos
  <2> QED
    BY <1>1, <2>1 DEF TypeOK, OutStateless, InDrop
<1>2. ASSUME NEW k \in Keys, OutExhausted(k) PROVE TypeOK'
  <2>1. k.proto \in Protos
    BY DEF FwdKey
  <2>2. out' \in Outcome
    BY <1>2, <2>1, Endpoints, ResultType DEF OutExhausted, Verdicts
  <2> QED
    BY <1>2, <2>2 DEF TypeOK, OutExhausted, AllocFails
<1>3. ASSUME NEW k \in Keys, OutCone(k) PROVE TypeOK'
  <2>1. k.proto \in Protos /\ k.src \in Hosts /\ k.sport \in AllPorts
    BY DEF FwdKey, AllPorts
  <2>2. [addr |-> k.src, port |-> k.sport] \in Endpoint
    BY <2>1, Endpoints
  <2>3. out' \in Outcome
    BY <1>3, <2>1, <2>2, ResultType DEF OutCone, Verdicts
  <2>4. via' \in [RevKey -> Endpoint]
    BY <1>3, <2>2 DEF OutCone, TypeOK
  <2> QED
    BY <1>3, <2>3, <2>4 DEF TypeOK, OutCone
<1> QED
  BY <1>1, <1>2, <1>3

\* Opening a reassembly window keeps the fragment map typed.
LEMMA NoteFragmentType ==
  ASSUME TypeOK, NEW peer \in Peers, NEW id \in IpIds, NEW proto \in Protos,
         NEW more \in BOOLEAN, NEW host \in Hosts, NoteFragment(peer, id, proto, more, host)
  PROVE  MapOK(frag', FragKey, Window)
<1>1. [src |-> peer, ip_id |-> id, proto |-> proto] \in FragKey
  BY DEF FragKey
<1>2. [host |-> host, age |-> 0] \in Window
  BY DEF Window
<1> QED
  BY <1>1, <1>2, InsertType DEF NoteFragment, TypeOK

\* Inbound to the forwarded port keeps the types.
LEMMA InForwardType ==
  ASSUME TypeOK, NEW peer \in Peers, NEW id \in IpIds, NEW proto \in Protos,
         NEW port \in AllPorts, NEW more \in BOOLEAN, InForward(peer, id, proto, port, more)
  PROVE  TypeOK'
<1>1. forward.host \in Hosts
  BY DEF InForward, ForForward, TypeOK, Forward
<1>2. MapOK(frag', FragKey, Window)
  BY <1>1, NoteFragmentType DEF InForward
<1>3. out' \in Outcome
  BY <1>1, Endpoints, ResultType DEF InForward, Verdicts
<1>4. forwarded_in' \in 0 .. CounterMax
  BY DEF InForward, TypeOK
<1> QED
  BY <1>2, <1>3, <1>4 DEF TypeOK, InForward

\* Inbound on a binding (translate_in 483-505) keeps the types.
LEMMA InBindingType ==
  ASSUME TypeOK, NEW peer \in Peers, NEW id \in IpIds, NEW proto \in Protos,
         NEW port \in AllPorts, NEW more \in BOOLEAN, NEW rst \in BOOLEAN,
         InBinding(peer, id, proto, port, more, rst)
  PROVE  TypeOK'
<1> DEFINE rk == RK(proto, port)
<1>1. rk \in DOMAIN rev /\ rk \in RevKey /\ rev[rk] \in Binding
  BY DEF InBinding, TypeOK, MapOK
<1>2. rev[rk].src \in Hosts
  BY <1>1 DEF Binding
<1>3. MapOK(frag', FragKey, Window)
  BY <1>2, NoteFragmentType DEF InBinding
<1>4. out' \in Outcome
  BY <1>1, Endpoints, ResultType DEF InBinding, Verdicts
<1>5. MapOK(fwd', Keys, Ports)
  BY WithoutType DEF InBinding, ClosedFwd, TypeOK
<1>6. MapOK(rev', RevKey, Binding)
  BY <1>1, BindingTypes, InsertType, WithoutType DEF InBinding, TypeOK
<1> QED
  BY <1>3, <1>4, <1>5, <1>6 DEF TypeOK, InBinding

\* translate_icmp_error keeps the types.
LEMMA InIcmpErrorType ==
  ASSUME TypeOK, NEW proto \in Protos, NEW port \in AllPorts, InIcmpError(proto, port)
  PROVE  TypeOK'
<1> DEFINE rk == RK(proto, port)
<1>1. CASE ForForward(proto, port)
  <2>1. forward.host \in Hosts
    BY <1>1 DEF ForForward, TypeOK, Forward
  <2>2. out' = Result("in", "Translate", proto, [addr |-> forward.host, port |-> port], port)
        /\ UNCHANGED <<fwd, rev, frag, next_port, forward, forwarded_in, via>>
    BY <1>1 DEF InIcmpError
  <2>3. out' \in Outcome
    BY <2>1, <2>2, Endpoints, ResultType DEF Verdicts
  <2> QED
    BY <2>2, <2>3 DEF TypeOK
<1>2. CASE ~ForForward(proto, port)
  <2>1. /\ rk \in DOMAIN rev
        /\ rev' = Insert(rev, rk, Refreshed(rev[rk]))
        /\ out' = Result("in", "Translate", proto, EndpointOf(rev[rk]), port)
        /\ UNCHANGED <<fwd, frag, next_port, forward, forwarded_in, via>>
    BY <1>2 DEF InIcmpError
  <2>2. rk \in RevKey /\ rev[rk] \in Binding
    BY <2>1 DEF TypeOK, MapOK
  <2>3. out' \in Outcome
    BY <2>1, <2>2, Endpoints, ResultType DEF Verdicts
  <2>4. MapOK(rev', RevKey, Binding)
    BY <2>1, <2>2, BindingTypes, InsertType DEF TypeOK
  <2> QED
    BY <2>1, <2>3, <2>4 DEF TypeOK
<1> QED
  BY <1>1, <1>2

\* An inbound later fragment keeps the types.
LEMMA InLaterFragmentType ==
  ASSUME TypeOK, NEW peer \in Peers, NEW id \in IpIds, NEW proto \in Protos,
         InLaterFragment(peer, id, proto)
  PROVE  TypeOK'
<1> DEFINE fk == [src |-> peer, ip_id |-> id, proto |-> proto]
<1>1. fk \in DOMAIN frag /\ frag[fk].host \in Hosts
  BY DEF InLaterFragment, TypeOK, MapOK, Window
<1>2. [addr |-> frag[fk].host, port |-> 0] \in Endpoint
  BY <1>1, Endpoints
<1>3. out' \in Outcome
  BY <1>2, ResultType DEF InLaterFragment, Verdicts
<1> QED
  BY <1>3 DEF TypeOK, InLaterFragment

\* Ageing an entry changes nothing but its age.
LEMMA OlderFacts ==
  /\ \A b \in Binding, n \in Nat :
       /\ Older(b, n) \in Binding
       /\ EndpointOf(Older(b, n)) = EndpointOf(b)
       /\ \A rk : KeyOf(rk, Older(b, n)) = KeyOf(rk, b)
  /\ \A w \in Window, n \in Nat : Older(w, n) \in Window
<1>1. ASSUME NEW b \in Binding, NEW n \in Nat
      PROVE  /\ Older(b, n) \in Binding
             /\ EndpointOf(Older(b, n)) = EndpointOf(b)
             /\ \A rk : KeyOf(rk, Older(b, n)) = KeyOf(rk, b)
  <2>1. /\ Older(b, n) \in Binding
        /\ Older(b, n).src = b.src /\ Older(b, n).sport = b.sport
        /\ Older(b, n).dst = b.dst /\ Older(b, n).dport = b.dport
    BY DEF Older, Binding
  <2> QED
    BY <2>1 DEF EndpointOf, KeyOf
<1>2. ASSUME NEW w \in Window, NEW n \in Nat PROVE Older(w, n) \in Window
  BY DEF Older, Window
<1> QED
  BY <1>1, <1>2

\* Every protocol has an idle limit.
LEMMA IdleType == \A proto : Idle(proto) \in Nat
BY DEF Idle

\* The passage of time keeps the types.
LEMMA TickType == ASSUME TypeOK, Tick PROVE TypeOK'
<1>1. MapOK(rev', RevKey, Binding)
  BY OlderFacts, IdleType DEF Tick, TypeOK, MapOK
<1>2. MapOK(frag', FragKey, Window)
  <2>1. FRAG_IDLE \in Nat
    OBVIOUS
  <2> QED
    BY <2>1, OlderFacts DEF Tick, TypeOK, MapOK
<1> QED
  BY <1>1, <1>2 DEF Tick, TypeOK

\* expire, set_forward and clear_forward keep the types.
LEMMA HousekeepingType ==
  ASSUME TypeOK, Expire \/ ClearForward \/ \E port \in ForwardPorts : SetForward(port)
  PROVE  TypeOK'
<1>1. CASE Expire
  BY <1>1, WithoutType DEF Expire, DropBindings, TypeOK
<1>2. CASE ClearForward \/ \E port \in ForwardPorts : SetForward(port)
  <2>1. forward' \in Forward \cup {NoForward}
    BY <1>2 DEF ClearForward, SetForward, Forward
  <2> QED
    BY <1>2, <2>1 DEF ClearForward, SetForward, TypeOK
<1> QED
  BY <1>1, <1>2

\* Every step keeps the types.
LEMMA NextType == TypeOK /\ [Next]_vars => TypeOK'
<1> SUFFICES ASSUME TypeOK, [Next]_vars PROVE TypeOK'
  OBVIOUS
<1>1. CASE TranslateOut
  BY <1>1, OutKnownType, OutNewType, OutStatelessType DEF TranslateOut
<1>2. CASE TranslateIn
  BY <1>2, InForwardType, InBindingType, InLaterFragmentType, InIcmpErrorType,
     OutStatelessType DEF TranslateIn
<1>3. CASE Expire \/ ClearForward \/ \E port \in ForwardPorts : SetForward(port)
  BY <1>3, HousekeepingType
<1>4. CASE Tick
  BY <1>4, TickType
<1>5. CASE UNCHANGED vars
  BY <1>5 DEF vars, TypeOK
<1> QED
  BY <1>1, <1>2, <1>3, <1>4, <1>5 DEF Next

\* The NAT's state always has its type, whatever packets and lease events come.
THEOREM TypeCorrect == Spec => []TypeOK
BY InitType, NextType, PTL DEF Spec

-----------------------------------------------------------------------------
(* The two maps stay inverse.                                              *)

\* Replacing a binding by one of the same conversation keeps the maps inverse.
LEMMA RefreshInverse ==
  ASSUME MapsInverse, NEW rk \in DOMAIN rev, NEW b, KeyOf(rk, b) = KeyOf(rk, rev[rk]),
         rev' = Insert(rev, rk, b), fwd' = fwd
  PROVE  MapsInverse'
<1>1. /\ DOMAIN rev' = DOMAIN rev
      /\ rev'[rk] = b
      /\ \A x \in DOMAIN rev \ {rk} : rev'[x] = rev[x]
  BY DEF Insert
<1>2. \A x \in DOMAIN rev : KeyOf(x, rev'[x]) = KeyOf(x, rev[x])
  BY <1>1
<1> QED
  BY <1>1, <1>2 DEF MapsInverse, FwdLeadsBack, RevLeadsBack

\* Taking bindings out of rev and their conversations out of fwd, as close and
\* expire do, keeps the maps inverse.
LEMMA DropInverse ==
  ASSUME TypeOK, MapsInverse, NEW dead \in SUBSET DOMAIN rev,
         rev' = Without(rev, dead),
         fwd' = Without(fwd, {KeyOf(rk, rev[rk]) : rk \in dead})
  PROVE  MapsInverse'
<1> DEFINE gone == {KeyOf(rk, rev[rk]) : rk \in dead}
<1>a. /\ DOMAIN rev' = DOMAIN rev \ dead
      /\ \A x \in DOMAIN rev \ dead : rev'[x] = rev[x]
  BY WithoutFacts
<1>b. /\ DOMAIN fwd' = DOMAIN fwd \ gone
      /\ \A x \in DOMAIN fwd \ gone : fwd'[x] = fwd[x]
  BY WithoutFacts
<1>1. /\ DOMAIN rev' = DOMAIN rev \ dead /\ \A x \in DOMAIN rev' : rev'[x] = rev[x]
      /\ DOMAIN fwd' = DOMAIN fwd \ gone /\ \A x \in DOMAIN fwd' : fwd'[x] = fwd[x]
  BY <1>a, <1>b
<1>2. FwdLeadsBack'
  <2> SUFFICES ASSUME NEW k \in DOMAIN fwd'
               PROVE  RK(k.proto, fwd[k]) \in DOMAIN rev \ dead
                      /\ KeyOf(RK(k.proto, fwd[k]), rev[RK(k.proto, fwd[k])]) = k
    BY <1>1 DEF FwdLeadsBack
  <2> QED
    BY <1>1 DEF MapsInverse, FwdLeadsBack
<1>3. RevLeadsBack'
  <2> SUFFICES ASSUME NEW rk \in DOMAIN rev'
               PROVE  KeyOf(rk, rev[rk]) \in DOMAIN fwd \ gone
                      /\ fwd[KeyOf(rk, rev[rk])] = rk.port
    BY <1>1 DEF RevLeadsBack
  <2>1. KeyOf(rk, rev[rk]) \in DOMAIN fwd /\ fwd[KeyOf(rk, rev[rk])] = rk.port
    BY <1>1 DEF MapsInverse, RevLeadsBack
  <2>2. KeyOf(rk, rev[rk]) \notin gone
    <3> SUFFICES ASSUME NEW d \in dead, KeyOf(d, rev[d]) = KeyOf(rk, rev[rk]) PROVE FALSE
      OBVIOUS
    <3>1. d.port = rk.port /\ d.proto = rk.proto
      BY <2>1 DEF MapsInverse, RevLeadsBack, KeyOf
    <3>2. d \in RevKey /\ rk \in RevKey
      BY <1>1 DEF TypeOK, MapOK
    <3>3. d = rk
      BY <3>1, <3>2 DEF RevKey
    <3> QED
      BY <1>1, <3>3
  <2> QED
    BY <2>1, <2>2
<1> QED
  BY <1>2, <1>3 DEF MapsInverse

\* Opening a binding for a new conversation on a free port keeps them inverse.
LEMMA OpenInverse ==
  ASSUME TypeOK, MapsInverse, NEW k \in Keys, NEW p \in Ports,
         k \notin DOMAIN fwd, RK(k.proto, p) \notin DOMAIN rev,
         fwd' = Insert(fwd, k, p),
         rev' = Insert(rev, RK(k.proto, p), BindingFor(k))
  PROVE  MapsInverse'
<1> DEFINE rk == RK(k.proto, p)
<1>1. KeyOf(rk, BindingFor(k)) = k /\ rk.proto = k.proto /\ rk.port = p
  BY DEF KeyOf, BindingFor, RK, FwdKey
<1>2. /\ DOMAIN fwd' = DOMAIN fwd \cup {k} /\ fwd'[k] = p
      /\ \A x \in DOMAIN fwd : fwd'[x] = fwd[x]
  BY DEF Insert
<1>3. /\ DOMAIN rev' = DOMAIN rev \cup {rk} /\ rev'[rk] = BindingFor(k)
      /\ \A x \in DOMAIN rev : rev'[x] = rev[x]
  BY DEF Insert
<1> HIDE DEF rk
<1>4. FwdLeadsBack'
  <2> SUFFICES ASSUME NEW x \in DOMAIN fwd'
               PROVE  /\ RK(x.proto, fwd'[x]) \in DOMAIN rev'
                      /\ KeyOf(RK(x.proto, fwd'[x]), rev'[RK(x.proto, fwd'[x])]) = x
    BY DEF FwdLeadsBack
  <2>1. CASE x = k
    BY <1>1, <1>2, <1>3, <2>1 DEF rk
  <2>2. CASE x \in DOMAIN fwd
    BY <1>2, <1>3, <2>2 DEF MapsInverse, FwdLeadsBack
  <2> QED
    BY <1>2, <2>1, <2>2
<1>5. RevLeadsBack'
  <2> SUFFICES ASSUME NEW x \in DOMAIN rev'
               PROVE  /\ KeyOf(x, rev'[x]) \in DOMAIN fwd'
                      /\ fwd'[KeyOf(x, rev'[x])] = x.port
    BY DEF RevLeadsBack
  <2>1. CASE x = rk
    BY <1>1, <1>2, <1>3, <2>1
  <2>2. CASE x \in DOMAIN rev
    BY <1>2, <1>3, <2>2 DEF MapsInverse, RevLeadsBack
  <2> QED
    BY <1>3, <2>1, <2>2
<1> QED
  BY <1>4, <1>5 DEF MapsInverse

\* A known conversation is refreshed, and closed on a RST: the maps stay inverse.
LEMMA OutKnownInverse ==
  ASSUME TypeOK, MapsInverse, NEW k \in Keys, NEW rst \in BOOLEAN, OutKnown(k, rst)
  PROVE  MapsInverse'
<1> DEFINE rk == RK(k.proto, fwd[k])
           b == Refreshed(rev[rk])
           r == Insert(rev, rk, b)
<1>1. rk \in DOMAIN rev /\ KeyOf(rk, rev[rk]) = k
  BY DEF OutKnown, MapsInverse, FwdLeadsBack
<1>2. rev[rk] \in Binding /\ KeyOf(rk, b) = k
  BY <1>1, BindingTypes DEF TypeOK, MapOK
<1>3. Emit(k, fwd[k], fwd, r, rst)
  BY <1>1 DEF OutKnown
<1> HIDE DEF b
<1>4. DOMAIN r = DOMAIN rev /\ r[rk] = b /\ Without(r, {rk}) = Without(rev, {rk})
  BY <1>1 DEF Insert, Without, Restrict
<1>5. CASE rst
  <2>1. rev' = Without(rev, {rk})
    BY <1>3, <1>4, <1>5 DEF Emit
  <2>2. fwd' = Without(fwd, {k})
    BY <1>1, <1>2, <1>3, <1>4, <1>5 DEF Emit, ClosedFwd
  <2>3. {k} = {KeyOf(x, rev[x]) : x \in {rk}}
    BY <1>1
  <2> QED
    BY <1>1, <2>1, <2>2, <2>3, DropInverse
<1>6. CASE ~rst
  BY <1>1, <1>2, <1>3, <1>6, RefreshInverse DEF Emit
<1> QED
  BY <1>5, <1>6

\* A new conversation takes a free port, and may be closed at once by a RST: the
\* maps stay inverse.
LEMMA OutNewInverse ==
  ASSUME TypeOK, MapsInverse, NEW k \in Keys, NEW rst \in BOOLEAN, OutNew(k, rst)
  PROVE  MapsInverse'
<1>1. PICK p \in Ports :
        /\ Allocates(k.proto, p)
        /\ Emit(k, p, Insert(fwd, k, p), Insert(rev, RK(k.proto, p), BindingFor(k)), rst)
  BY DEF OutNew
<1> DEFINE rk == RK(k.proto, p)
           f == Insert(fwd, k, p)
           r == Insert(rev, rk, BindingFor(k))
<1>2. k \notin DOMAIN fwd /\ rk \notin DOMAIN rev
  BY <1>1 DEF OutNew, Allocates, FreePorts
<1>3. CASE rst
  <2>1. KeyOf(rk, BindingFor(k)) = k
    BY DEF KeyOf, BindingFor, RK, FwdKey
  <2>2. rk \in DOMAIN r /\ r[rk] = BindingFor(k)
    BY DEF Insert
  <2>3. Without(f, {k}) = fwd
    BY <1>2 DEF Without, Restrict, Insert, TypeOK, MapOK
  <2>4. Without(r, {rk}) = rev
    BY <1>2 DEF Without, Restrict, Insert, TypeOK, MapOK
  <2>5. fwd' = fwd /\ rev' = rev
    BY <1>1, <1>3, <2>1, <2>2, <2>3, <2>4 DEF Emit, ClosedFwd
  <2> QED
    BY <2>5 DEF MapsInverse, FwdLeadsBack, RevLeadsBack
<1>4. CASE ~rst
  BY <1>1, <1>2, <1>4, OpenInverse DEF Emit
<1> QED
  BY <1>3, <1>4

\* Inbound on a binding refreshes or closes it: the maps stay inverse.
LEMMA InBindingInverse ==
  ASSUME TypeOK, MapsInverse, NEW peer, NEW id, NEW proto, NEW port, NEW more,
         NEW rst \in BOOLEAN, InBinding(peer, id, proto, port, more, rst)
  PROVE  MapsInverse'
<1> DEFINE rk == RK(proto, port)
<1>1. rk \in DOMAIN rev /\ rev[rk] \in Binding
  BY DEF InBinding, TypeOK, MapOK
<1>2. CASE rst
  <2>1. rev' = Without(rev, {rk}) /\ fwd' = Without(fwd, {KeyOf(rk, rev[rk])})
    BY <1>1, <1>2 DEF InBinding, ClosedFwd
  <2>2. {KeyOf(rk, rev[rk])} = {KeyOf(x, rev[x]) : x \in {rk}}
    OBVIOUS
  <2> QED
    BY <1>1, <2>1, <2>2, DropInverse
<1>3. CASE ~rst
  <2>1. rev' = Insert(rev, rk, Refreshed(rev[rk])) /\ fwd' = fwd
    BY <1>3 DEF InBinding
  <2> QED
    BY <1>1, <2>1, BindingTypes, RefreshInverse
<1> QED
  BY <1>2, <1>3

\* Every step keeps the two maps inverse to each other.
LEMMA NextInverse == TypeOK /\ MapsInverse /\ [Next]_vars => MapsInverse'
<1> SUFFICES ASSUME TypeOK, MapsInverse, [Next]_vars PROVE MapsInverse'
  OBVIOUS
<1>1. ASSUME fwd' = fwd, rev' = rev PROVE MapsInverse'
  BY <1>1 DEF MapsInverse, FwdLeadsBack, RevLeadsBack
<1>2. CASE TranslateOut
  <2>1. CASE OutStateless \/ \E k \in Keys : OutExhausted(k) \/ OutCone(k)
    BY <1>1, <2>1 DEF OutStateless, OutExhausted, OutCone
  <2> QED
    BY <1>2, <2>1, OutKnownInverse, OutNewInverse DEF TranslateOut
<1>3. CASE TranslateIn
  <2>1. ASSUME NEW proto \in Protos, NEW port \in AllPorts, InIcmpError(proto, port)
        PROVE  MapsInverse'
    <3> DEFINE rk == RK(proto, port)
    <3>1. CASE ForForward(proto, port)
      BY <1>1, <2>1, <3>1 DEF InIcmpError
    <3>2. CASE ~ForForward(proto, port)
      <4>1. rk \in DOMAIN rev /\ rev' = Insert(rev, rk, Refreshed(rev[rk])) /\ fwd' = fwd
        BY <2>1, <3>2 DEF InIcmpError
      <4>2. rev[rk] \in Binding
        BY <4>1 DEF TypeOK, MapOK
      <4> QED
        BY <4>1, <4>2, BindingTypes, RefreshInverse
    <3> QED
      BY <3>1, <3>2
  <2>2. ASSUME NEW peer \in Peers, NEW id \in IpIds, NEW proto \in Protos,
               InLaterFragment(peer, id, proto)
        PROVE  MapsInverse'
    BY <1>1, <2>2 DEF InLaterFragment
  <2>3. ASSUME NEW peer \in Peers, NEW id \in IpIds, NEW proto \in Protos,
               NEW port \in AllPorts, NEW more \in BOOLEAN,
               InForward(peer, id, proto, port, more)
        PROVE  MapsInverse'
    BY <1>1, <2>3 DEF InForward
  <2>4. CASE InDrop
    BY <1>1, <2>4 DEF InDrop
  <2> QED
    BY <1>3, <2>1, <2>2, <2>3, <2>4, InBindingInverse DEF TranslateIn
<1>4. CASE Expire
  <2> DEFINE dead == {rk \in DOMAIN rev : Stale(rk)}
  <2>1. /\ rev' = Without(rev, dead)
        /\ fwd' = Without(fwd, {KeyOf(rk, rev[rk]) : rk \in dead})
    BY <1>4 DEF Expire, DropBindings
  <2>2. dead \in SUBSET DOMAIN rev
    OBVIOUS
  <2> HIDE DEF dead
  <2> QED
    BY <2>1, <2>2, DropInverse
<1>5. CASE Tick
  <2>1. /\ fwd' = fwd /\ DOMAIN rev' = DOMAIN rev
        /\ \A rk \in DOMAIN rev : KeyOf(rk, rev'[rk]) = KeyOf(rk, rev[rk])
    BY <1>5, OlderFacts, IdleType DEF Tick, TypeOK, MapOK
  <2> QED
    BY <2>1 DEF MapsInverse, FwdLeadsBack, RevLeadsBack
<1>6. CASE ClearForward \/ (\E port \in ForwardPorts : SetForward(port)) \/ UNCHANGED vars
  BY <1>1, <1>6 DEF ClearForward, SetForward, vars
<1> QED
  BY <1>2, <1>3, <1>4, <1>5, <1>6 DEF Next

\* Whatever is sent, received, expired or leased, every conversation's port
\* leads back to it and every bound port belongs to exactly one conversation.
THEOREM MapsStayInverse == Spec => []MapsInverse
<1>1. Init => MapsInverse
  BY DEF Init, MapsInverse, FwdLeadsBack, RevLeadsBack
<1> QED
  BY <1>1, NextInverse, TypeCorrect, PTL DEF Spec

-----------------------------------------------------------------------------
(* The reverse map grows only through the allocator.                       *)

\* One step of the NAT either adds no reverse key, or adds the one that the
\* allocator chose: below the ceiling, and neither bound nor reserved.
LEMMA GrowsByAllocation ==
  ASSUME TypeOK, MapsInverse, [Next]_vars
  PROVE  \/ DOMAIN rev' \subseteq DOMAIN rev
         \/ \E k \in Keys : \E p \in FreePorts(k.proto) :
              ~AtCeiling /\ DOMAIN rev' \subseteq DOMAIN rev \cup {RK(k.proto, p)}
<1>1. CASE TranslateOut
  <2>1. ASSUME NEW k \in Keys, NEW rst \in BOOLEAN, OutKnown(k, rst)
        PROVE  DOMAIN rev' \subseteq DOMAIN rev
    <3> DEFINE rk == RK(k.proto, fwd[k])
               b == Refreshed(rev[rk])
    <3>1. rk \in DOMAIN rev
      BY <2>1 DEF OutKnown, MapsInverse, FwdLeadsBack
    <3>2. Emit(k, fwd[k], fwd, Insert(rev, rk, b), rst)
      BY <2>1, <3>1 DEF OutKnown
    <3> HIDE DEF b
    <3> QED
      BY <3>1, <3>2 DEF Emit, Insert, Without, Restrict
  <2>2. ASSUME NEW k \in Keys, NEW rst \in BOOLEAN, OutNew(k, rst)
        PROVE  \E p \in FreePorts(k.proto) :
                 ~AtCeiling /\ DOMAIN rev' \subseteq DOMAIN rev \cup {RK(k.proto, p)}
    <3>1. PICK p \in Ports :
            /\ Allocates(k.proto, p)
            /\ Emit(k, p, Insert(fwd, k, p), Insert(rev, RK(k.proto, p), BindingFor(k)), rst)
      BY <2>2 DEF OutNew
    <3>2. p \in FreePorts(k.proto) /\ ~AtCeiling
      BY <3>1 DEF Allocates
    <3>3. DOMAIN rev' \subseteq DOMAIN rev \cup {RK(k.proto, p)}
      BY <3>1 DEF Emit, Insert, Without, Restrict
    <3> QED
      BY <3>2, <3>3
  <2>3. CASE OutStateless \/ \E k \in Keys : OutExhausted(k) \/ OutCone(k)
    BY <2>3 DEF OutStateless, OutExhausted, OutCone
  <2> QED
    BY <1>1, <2>1, <2>2, <2>3 DEF TranslateOut
<1>2. CASE TranslateIn
  <2>1. ASSUME NEW peer \in Peers, NEW id \in IpIds, NEW proto \in Protos, NEW port \in AllPorts,
               NEW more \in BOOLEAN, NEW rst \in BOOLEAN,
               InBinding(peer, id, proto, port, more, rst)
        PROVE  DOMAIN rev' \subseteq DOMAIN rev
    BY <2>1 DEF InBinding, Insert, Without, Restrict
  <2>2. ASSUME NEW proto \in Protos, NEW port \in AllPorts, InIcmpError(proto, port)
        PROVE  DOMAIN rev' \subseteq DOMAIN rev
    BY <2>2 DEF InIcmpError, Insert
  <2>3. ASSUME NEW peer \in Peers, NEW id \in IpIds, NEW proto \in Protos, NEW port \in AllPorts,
               NEW more \in BOOLEAN,
               InForward(peer, id, proto, port, more) \/ InLaterFragment(peer, id, proto)
        PROVE  DOMAIN rev' \subseteq DOMAIN rev
    BY <2>3 DEF InForward, InLaterFragment
  <2>4. CASE InDrop
    BY <2>4 DEF InDrop
  <2>5. ASSUME NEW peer \in Peers, NEW id \in IpIds, NEW proto \in Protos,
               InLaterFragment(peer, id, proto)
        PROVE  DOMAIN rev' \subseteq DOMAIN rev
    BY <2>5 DEF InLaterFragment
  <2> QED
    BY <1>2, <2>1, <2>2, <2>3, <2>4, <2>5 DEF TranslateIn
<1>3. CASE Expire \/ Tick \/ ClearForward \/ (\E port \in ForwardPorts : SetForward(port))
           \/ UNCHANGED vars
  BY <1>3 DEF Expire, DropBindings, Without, Restrict, Tick, ClearForward, SetForward, vars
<1> QED
  BY <1>1, <1>2, <1>3 DEF Next

\* Every step keeps the table within the ceiling.
LEMMA NextBounded == TypeOK /\ MapsInverse /\ TableBounded /\ [Next]_vars => TableBounded'
<1> SUFFICES ASSUME TypeOK, MapsInverse, TableBounded, [Next]_vars PROVE TableBounded'
  OBVIOUS
<1>1. IsFiniteSet(DOMAIN rev) /\ Cardinality(DOMAIN rev) \in Nat
      /\ Cardinality(DOMAIN rev) <= MAX_BINDINGS
  BY FS_CardinalityType DEF TableBounded
<1>2. CASE DOMAIN rev' \subseteq DOMAIN rev
  <2>1. IsFiniteSet(DOMAIN rev') /\ Cardinality(DOMAIN rev') <= Cardinality(DOMAIN rev)
    BY <1>1, <1>2, FS_Subset
  <2>2. Cardinality(DOMAIN rev') \in Nat
    BY <2>1, FS_CardinalityType
  <2> QED
    BY <1>1, <2>1, <2>2 DEF TableBounded
<1>3. ASSUME NEW rk, ~AtCeiling, DOMAIN rev' \subseteq DOMAIN rev \cup {rk}
      PROVE  TableBounded'
  <2>1. Cardinality(DOMAIN rev) + 1 <= MAX_BINDINGS
    BY <1>1, <1>3 DEF AtCeiling
  <2>2. IsFiniteSet(DOMAIN rev \cup {rk})
        /\ Cardinality(DOMAIN rev \cup {rk}) <= Cardinality(DOMAIN rev) + 1
        /\ Cardinality(DOMAIN rev \cup {rk}) \in Nat
    <3>1. CASE rk \in DOMAIN rev
      <4>1. DOMAIN rev \cup {rk} = DOMAIN rev
        BY <3>1
      <4> QED
        BY <1>1, <4>1
    <3>2. CASE rk \notin DOMAIN rev
      <4>1. IsFiniteSet(DOMAIN rev \cup {rk})
            /\ Cardinality(DOMAIN rev \cup {rk}) = Cardinality(DOMAIN rev) + 1
        BY <1>1, <3>2, FS_AddElement
      <4> QED
        BY <1>1, <4>1
    <3> QED
      BY <3>1, <3>2
  <2>3. IsFiniteSet(DOMAIN rev')
        /\ Cardinality(DOMAIN rev') <= Cardinality(DOMAIN rev \cup {rk})
    BY <1>3, <2>2, FS_Subset
  <2>4. Cardinality(DOMAIN rev') \in Nat
    BY <2>3, FS_CardinalityType
  <2> QED
    BY <1>1, <2>1, <2>2, <2>3, <2>4 DEF TableBounded
<1> QED
  BY <1>2, <1>3, GrowsByAllocation

\* The reverse map never holds more than MAX_BINDINGS bindings.
THEOREM TableStaysBounded == Spec => []TableBounded
<1>1. Init => TableBounded
  BY FS_EmptySet DEF Init, TableBounded
<1> QED
  BY <1>1, NextBounded, TypeCorrect, MapsStayInverse, PTL DEF Spec

-----------------------------------------------------------------------------
(* The fixed forwarding plan: the forward never changes.                   *)

\* Under the fixed plan no step changes the forward: only lease events do.
LEMMA ForwardFixed == ASSUME Plan = "fixed", [Next]_vars PROVE forward' = forward
<1>1. CASE TranslateOut
  BY <1>1 DEF TranslateOut, OutKnown, OutNew, OutExhausted, OutCone, OutStateless
<1>2. CASE TranslateIn
  <2>1. ASSUME NEW proto, NEW port, InIcmpError(proto, port) PROVE forward' = forward
    BY <2>1 DEF InIcmpError
  <2>2. ASSUME NEW peer, NEW id, NEW proto, NEW port, NEW more, NEW rst,
               \/ InForward(peer, id, proto, port, more)
               \/ InBinding(peer, id, proto, port, more, rst)
        PROVE  forward' = forward
    BY <2>2 DEF InForward, InBinding
  <2>3. ASSUME NEW peer, NEW id, NEW proto, InLaterFragment(peer, id, proto) \/ InDrop
        PROVE  forward' = forward
    BY <2>3 DEF InLaterFragment, InDrop
  <2> QED
    BY <1>2, <2>1, <2>2, <2>3 DEF TranslateIn
<1>3. CASE Expire \/ Tick \/ UNCHANGED vars
  BY <1>3 DEF Expire, DropBindings, Tick, vars
<1>4. CASE ClearForward \/ \E port \in ForwardPorts : SetForward(port)
  BY <1>4 DEF ClearForward, SetForward
<1> QED
  BY <1>1, <1>2, <1>3, <1>4 DEF Next

\* Under the fixed plan no step binds the forwarded port: a port that enters the
\* reverse map was handed out by the allocator, which reserves it.
LEMMA NextNoShadowing ==
  ASSUME Plan = "fixed"
  PROVE  TypeOK /\ MapsInverse /\ NoShadowing /\ [Next]_vars => NoShadowing'
<1> SUFFICES ASSUME TypeOK, MapsInverse, NoShadowing, [Next]_vars,
                    forward' # NoForward, NEW proto \in PortProtos,
                    RK(proto, forward'.port) \in DOMAIN rev'
             PROVE  FALSE
  BY DEF NoShadowing
<1>1. forward' = forward
  BY ForwardFixed
<1>2. RK(proto, forward.port) \notin DOMAIN rev
  BY <1>1 DEF NoShadowing
<1>3. PICK k \in Keys : \E p \in FreePorts(k.proto) : RK(proto, forward.port) = RK(k.proto, p)
  BY <1>1, <1>2, GrowsByAllocation
<1>4. PICK p \in FreePorts(k.proto) : RK(proto, forward.port) = RK(k.proto, p)
  BY <1>3
<1>5. k.proto = proto /\ p = forward.port
  BY <1>4 DEF RK
<1> QED
  BY <1>1, <1>4, <1>5 DEF FreePorts, Reserved

\* With a port forwarded from the start, no TCP or UDP binding is ever opened
\* on its number: inbound for the forward cannot shadow a conversation.
THEOREM FixedForwardNeverShadows == ASSUME Plan = "fixed" PROVE Spec => []NoShadowing
<1>1. Init => NoShadowing
  BY DEF Init, NoShadowing
<1> QED
  BY <1>1, NextNoShadowing, TypeCorrect, MapsStayInverse, PTL DEF Spec

-----------------------------------------------------------------------------
(* Replies reach the sender, under the fixed plan.                         *)

\* The history names the owner of every bound port, and the forwarded port has
\* been left through by nobody but the forward's own endpoint.
BoundOwner == \A rk \in DOMAIN rev : via[rk] = EndpointOf(rev[rk])

ForwardOwner ==
  forward # NoForward =>
    \A proto \in PortProtos :
      via[RK(proto, forward.port)] \in
        {NoEndpoint, [addr |-> forward.host, port |-> forward.port]}

OwnerInv == BoundOwner /\ ForwardOwner

\* What Emit does to the history, given that r holds k's binding at p.
LEMMA EmitOwner ==
  ASSUME TypeOK, BoundOwner, NEW k \in Keys, NEW p \in Ports, NEW f, NEW r,
         NEW rst \in BOOLEAN, Emit(k, p, f, r, rst),
         DOMAIN r \subseteq RevKey,
         RK(k.proto, p) \in DOMAIN r,
         EndpointOf(r[RK(k.proto, p)]) = [addr |-> k.src, port |-> k.sport],
         \A x \in DOMAIN r \ {RK(k.proto, p)} : x \in DOMAIN rev /\ r[x] = rev[x]
  PROVE  BoundOwner'
<1> DEFINE rk == RK(k.proto, p)
           e == [addr |-> k.src, port |-> k.sport]
<1>1. rk \in RevKey /\ DOMAIN via = RevKey
  BY DEF TypeOK
<1>2. via' = [via EXCEPT ![rk] = e]
  BY DEF Emit
<1>3. DOMAIN rev' \subseteq DOMAIN r /\ \A x \in DOMAIN rev' : rev'[x] = r[x]
  BY DEF Emit, Without, Restrict
<1> HIDE DEF rk, e
<1>4. ASSUME NEW x \in DOMAIN rev' PROVE via'[x] = EndpointOf(rev'[x])
  <2>1. CASE x = rk
    BY <1>1, <1>2, <1>3, <2>1 DEF rk, e
  <2>2. CASE x # rk
    <3>1. x \in DOMAIN rev /\ r[x] = rev[x] /\ x \in RevKey
      BY <1>3, <2>2 DEF rk
    <3>2. via'[x] = via[x]
      BY <1>1, <1>2, <2>2, <3>1
    <3> QED
      BY <1>3, <3>1, <3>2 DEF BoundOwner
  <2> QED
    BY <2>1, <2>2
<1> QED
  BY <1>4 DEF BoundOwner

\* Emit leaves through a port that is not forwarded.
LEMMA EmitForwardOwner ==
  ASSUME TypeOK, ForwardOwner, NEW k \in Keys, NEW p \in Ports, NEW f, NEW r,
         NEW rst \in BOOLEAN, Emit(k, p, f, r, rst), forward' = forward,
         ~Reserved(k.proto, p)
  PROVE  ForwardOwner'
<1> SUFFICES ASSUME forward # NoForward, NEW proto \in PortProtos
             PROVE  via'[RK(proto, forward.port)] = via[RK(proto, forward.port)]
  BY DEF ForwardOwner
<1>1. RK(proto, forward.port) # RK(k.proto, p)
  BY DEF RK, Reserved
<1>2. RK(proto, forward.port) \in RevKey
  BY DEF RK, RevKey, TypeOK, Forward, AllPorts, Protos, PortProtos
<1> QED
  BY <1>1, <1>2 DEF Emit, TypeOK

\* Every step keeps the owner invariant: the history of each port names the
\* endpoint of its binding, or the forward's host.
LEMMA NextOwner ==
  ASSUME Plan = "fixed"
  PROVE  TypeOK /\ MapsInverse /\ NoShadowing /\ OwnerInv /\ [Next]_vars => OwnerInv'
<1> SUFFICES ASSUME TypeOK, MapsInverse, NoShadowing, OwnerInv, [Next]_vars PROVE OwnerInv'
  OBVIOUS
<1>0. forward' = forward /\ BoundOwner /\ ForwardOwner
  BY ForwardFixed DEF OwnerInv
<1>1. ASSUME via' = via, DOMAIN rev' \subseteq DOMAIN rev,
             \A x \in DOMAIN rev' : EndpointOf(rev'[x]) = EndpointOf(rev[x])
      PROVE  OwnerInv'
  <2>1. BoundOwner'
    BY <1>0, <1>1 DEF BoundOwner
  <2>2. ForwardOwner'
    BY <1>0, <1>1 DEF ForwardOwner
  <2> QED
    BY <2>1, <2>2 DEF OwnerInv
<1>2. ASSUME NEW k \in Keys, NEW rst \in BOOLEAN, OutKnown(k, rst) PROVE OwnerInv'
  <2> DEFINE rk == RK(k.proto, fwd[k])
             r == Insert(rev, rk, Refreshed(rev[rk]))
  <2>1. rk \in DOMAIN rev /\ KeyOf(rk, rev[rk]) = k /\ fwd[k] \in Ports
    BY <1>2 DEF OutKnown, MapsInverse, FwdLeadsBack, TypeOK, MapOK
  <2>2. Emit(k, fwd[k], fwd, r, rst)
    BY <1>2, <2>1 DEF OutKnown
  <2>3. rev[rk] \in Binding /\ DOMAIN rev \subseteq RevKey
    BY <2>1 DEF TypeOK, MapOK
  <2>4. EndpointOf(rev[rk]) = [addr |-> k.src, port |-> k.sport]
    BY <2>1 DEF KeyOf, EndpointOf
  <2>5. /\ DOMAIN r = DOMAIN rev /\ r[rk] = Refreshed(rev[rk])
        /\ \A x \in DOMAIN r \ {rk} : r[x] = rev[x]
    BY <2>1 DEF Insert
  <2>6. EndpointOf(r[rk]) = [addr |-> k.src, port |-> k.sport]
    BY <2>3, <2>4, <2>5, BindingTypes
  <2>7. ~Reserved(k.proto, fwd[k])
    BY <2>1 DEF Reserved, NoShadowing
  <2> HIDE DEF r
  <2>8. BoundOwner'
    BY <1>0, <2>1, <2>2, <2>3, <2>5, <2>6, EmitOwner
  <2>9. ForwardOwner'
    BY <1>0, <2>1, <2>2, <2>7, EmitForwardOwner
  <2> QED
    BY <2>8, <2>9 DEF OwnerInv
<1>3. ASSUME NEW k \in Keys, NEW rst \in BOOLEAN, OutNew(k, rst) PROVE OwnerInv'
  <2>1. PICK p \in Ports :
          /\ Allocates(k.proto, p)
          /\ Emit(k, p, Insert(fwd, k, p), Insert(rev, RK(k.proto, p), BindingFor(k)), rst)
    BY <1>3 DEF OutNew
  <2> DEFINE rk == RK(k.proto, p)
             r == Insert(rev, rk, BindingFor(k))
             f == Insert(fwd, k, p)
  <2>2. rk \in RevKey /\ DOMAIN rev \subseteq RevKey
    BY DEF RK, RevKey, FwdKey, AllPorts, TypeOK, MapOK
  <2>3. /\ DOMAIN r = DOMAIN rev \cup {rk} /\ r[rk] = BindingFor(k)
        /\ \A x \in DOMAIN r \ {rk} : r[x] = rev[x]
    BY DEF Insert
  <2>4. EndpointOf(r[rk]) = [addr |-> k.src, port |-> k.sport]
    BY <2>3 DEF EndpointOf, BindingFor
  <2>5. ~Reserved(k.proto, p)
    BY <2>1 DEF Allocates, FreePorts
  <2>6. Emit(k, p, f, r, rst)
    BY <2>1
  <2> HIDE DEF r, f
  <2>7. BoundOwner'
    BY <1>0, <2>2, <2>3, <2>4, <2>6, EmitOwner
  <2>8. ForwardOwner'
    BY <1>0, <2>5, <2>6, EmitForwardOwner
  <2> QED
    BY <2>7, <2>8 DEF OwnerInv
<1>4. ASSUME NEW k \in Keys, OutCone(k) PROVE OwnerInv'
  <2> DEFINE rk == RK(k.proto, k.sport)
             e == [addr |-> k.src, port |-> k.sport]
  <2>1. /\ k.proto \in PortProtos /\ forward # NoForward
        /\ e = [addr |-> forward.host, port |-> forward.port]
        /\ rk = RK(k.proto, forward.port)
        /\ via' = [via EXCEPT ![rk] = e] /\ rev' = rev
    BY <1>4 DEF OutCone, Cone
  <2>2. rk \notin DOMAIN rev /\ DOMAIN rev \subseteq RevKey /\ DOMAIN via = RevKey
    BY <2>1 DEF NoShadowing, TypeOK, MapOK
  <2> HIDE DEF rk, e
  <2>3. BoundOwner'
    BY <1>0, <2>1, <2>2 DEF BoundOwner
  <2>4. ForwardOwner'
    <3> SUFFICES ASSUME NEW proto \in PortProtos
                 PROVE  via'[RK(proto, forward.port)] \in {NoEndpoint, e}
      BY <1>0, <2>1 DEF ForwardOwner
    <3>1. via[RK(proto, forward.port)] \in {NoEndpoint, e}
      BY <1>0, <2>1 DEF ForwardOwner
    <3>2. RK(proto, forward.port) \in RevKey
      BY <2>1 DEF RK, RevKey, TypeOK, Forward, AllPorts, Protos, PortProtos
    <3> QED
      BY <2>1, <2>2, <3>1, <3>2
  <2> QED
    BY <2>3, <2>4 DEF OwnerInv
<1>5. CASE OutStateless \/ InDrop \/ ClearForward \/ (\E port \in ForwardPorts : SetForward(port))
           \/ (\E k \in Keys : OutExhausted(k)) \/ UNCHANGED vars
  <2>1. via' = via /\ rev' = rev
    BY <1>5 DEF OutStateless, InDrop, ClearForward, SetForward, OutExhausted, vars
  <2> QED
    BY <1>1, <2>1
<1>6. ASSUME NEW peer \in Peers, NEW id \in IpIds, NEW proto \in Protos, NEW port \in AllPorts,
             NEW more \in BOOLEAN, NEW rst \in BOOLEAN,
             InBinding(peer, id, proto, port, more, rst)
      PROVE  OwnerInv'
  <2> DEFINE rk == RK(proto, port)
             b == Refreshed(rev[rk])
  <2>1. rk \in DOMAIN rev /\ rev[rk] \in Binding /\ via' = via
    BY <1>6 DEF InBinding, TypeOK, MapOK
  <2>2. EndpointOf(b) = EndpointOf(rev[rk])
    BY <2>1, BindingTypes
  <2>3. rev' = IF rst THEN Without(rev, {rk}) ELSE Insert(rev, rk, b)
    BY <1>6 DEF InBinding
  <2> HIDE DEF b
  <2>4. DOMAIN rev' \subseteq DOMAIN rev
        /\ \A x \in DOMAIN rev' : rev'[x] = rev[x] \/ (x = rk /\ rev'[x] = b)
    BY <2>1, <2>3 DEF Insert, Without, Restrict
  <2>5. \A x \in DOMAIN rev' : EndpointOf(rev'[x]) = EndpointOf(rev[x])
    BY <2>2, <2>4
  <2> QED
    BY <1>1, <2>1, <2>4, <2>5
<1>7. ASSUME NEW proto \in Protos, NEW port \in AllPorts, InIcmpError(proto, port)
      PROVE  OwnerInv'
  <2> DEFINE rk == RK(proto, port)
             b == Refreshed(rev[rk])
  <2>1. CASE ForForward(proto, port)
    <3>1. via' = via /\ rev' = rev
      BY <1>7, <2>1 DEF InIcmpError
    <3> QED
      BY <1>1, <3>1
  <2>2. CASE ~ForForward(proto, port)
    <3>1. rk \in DOMAIN rev /\ rev' = Insert(rev, rk, b) /\ via' = via
      BY <1>7, <2>2 DEF InIcmpError
    <3>2. rev[rk] \in Binding
      BY <3>1 DEF TypeOK, MapOK
    <3>3. EndpointOf(b) = EndpointOf(rev[rk])
      BY <3>2, BindingTypes
    <3> HIDE DEF b
    <3>4. DOMAIN rev' \subseteq DOMAIN rev
          /\ \A x \in DOMAIN rev' : rev'[x] = rev[x] \/ (x = rk /\ rev'[x] = b)
      BY <3>1 DEF Insert
    <3>5. \A x \in DOMAIN rev' : EndpointOf(rev'[x]) = EndpointOf(rev[x])
      BY <3>3, <3>4
    <3> QED
      BY <1>1, <3>1, <3>4, <3>5
  <2> QED
    BY <2>1, <2>2
<1>8. ASSUME NEW peer \in Peers, NEW id \in IpIds, NEW proto \in Protos,
             InLaterFragment(peer, id, proto)
             \/ \E port \in AllPorts, more \in BOOLEAN : InForward(peer, id, proto, port, more)
      PROVE  OwnerInv'
  <2>1. via' = via /\ rev' = rev
    BY <1>8 DEF InLaterFragment, InForward
  <2> QED
    BY <1>1, <2>1
<1>9. CASE Expire
  <2>1. via' = via /\ DOMAIN rev' \subseteq DOMAIN rev /\ \A x \in DOMAIN rev' : rev'[x] = rev[x]
    BY <1>9 DEF Expire, DropBindings, Without, Restrict
  <2> QED
    BY <1>1, <2>1
<1>10. CASE Tick
  <2>1. via' = via /\ DOMAIN rev' = DOMAIN rev
    BY <1>10 DEF Tick
  <2>2. \A x \in DOMAIN rev : EndpointOf(rev'[x]) = EndpointOf(rev[x])
    BY <1>10, OlderFacts, IdleType DEF Tick, TypeOK, MapOK
  <2> QED
    BY <1>1, <2>1, <2>2
<1>11. CASE TranslateOut
  BY <1>11, <1>2, <1>3, <1>4, <1>5 DEF TranslateOut
<1>12. CASE TranslateIn
  BY <1>12, <1>5, <1>6, <1>7, <1>8 DEF TranslateIn
<1> QED
  BY <1>5, <1>9, <1>10, <1>11, <1>12 DEF Next

\* Under the owner invariant every inbound call reports the last sender.
LEMMA NextReply ==
  ASSUME TypeOK, OwnerInv, ReplyReachesSender, [Next]_vars
  PROVE  ReplyReachesSender'
<1>1. ASSUME out'.dir = "out" \/ out'.port = 0 PROVE ReplyReachesSender'
  BY <1>1 DEF ReplyReachesSender
<1>2. ASSUME out' = out, via' = via PROVE ReplyReachesSender'
  BY <1>2 DEF ReplyReachesSender
<1>3. ASSUME NEW proto, NEW port, NEW ep, out' = Result("in", "Translate", proto, ep, port),
             via' = via, via[RK(proto, port)] \in {NoEndpoint, ep}
      PROVE  ReplyReachesSender'
  BY <1>3 DEF ReplyReachesSender, Result
<1>4. CASE TranslateOut
  <2>1. ASSUME NEW k \in Keys, NEW rst \in BOOLEAN, OutKnown(k, rst) \/ OutNew(k, rst)
        PROVE  out'.dir = "out"
    <3>1. ASSUME NEW p, NEW f, NEW r, Emit(k, p, f, r, rst) PROVE out'.dir = "out"
      BY <3>1 DEF Emit, Result
    <3>2. CASE OutKnown(k, rst)
      BY <3>1, <3>2 DEF OutKnown
    <3>3. CASE OutNew(k, rst)
      BY <3>1, <3>3 DEF OutNew
    <3> QED
      BY <2>1, <3>2, <3>3
  <2>2. ASSUME NEW k \in Keys, OutExhausted(k) \/ OutCone(k) PROVE out'.dir = "out"
    BY <2>2 DEF OutExhausted, OutCone, Result
  <2>3. CASE OutStateless
    BY <2>3, <1>1 DEF OutStateless, Dropped, Result
  <2> QED
    BY <1>1, <1>4, <2>1, <2>2, <2>3 DEF TranslateOut
<1>5. ASSUME NEW proto \in Protos, NEW port \in AllPorts, ForForward(proto, port)
      PROVE  via[RK(proto, port)] \in {NoEndpoint, [addr |-> forward.host, port |-> port]}
  BY <1>5 DEF ForForward, OwnerInv, ForwardOwner
<1>6. ASSUME NEW rk \in DOMAIN rev PROVE via[rk] = EndpointOf(rev[rk])
  BY DEF OwnerInv, BoundOwner
<1>7. CASE TranslateIn
  <2>1. ASSUME NEW peer \in Peers, NEW id \in IpIds, NEW proto \in Protos, NEW port \in AllPorts,
               NEW more \in BOOLEAN, InForward(peer, id, proto, port, more)
        PROVE  ReplyReachesSender'
    BY <1>3, <1>5, <2>1 DEF InForward
  <2>2. ASSUME NEW peer \in Peers, NEW id \in IpIds, NEW proto \in Protos, NEW port \in AllPorts,
               NEW more \in BOOLEAN, NEW rst \in BOOLEAN,
               InBinding(peer, id, proto, port, more, rst)
        PROVE  ReplyReachesSender'
    BY <1>3, <1>6, <2>2 DEF InBinding
  <2>3. ASSUME NEW peer \in Peers, NEW id \in IpIds, NEW proto \in Protos,
               InLaterFragment(peer, id, proto)
        PROVE  ReplyReachesSender'
    BY <1>1, <2>3 DEF InLaterFragment, Result
  <2>4. ASSUME NEW proto \in Protos, NEW port \in AllPorts, InIcmpError(proto, port)
        PROVE  ReplyReachesSender'
    <3>1. CASE ForForward(proto, port)
      <4>1. /\ out' = Result("in", "Translate", proto, [addr |-> forward.host, port |-> port], port)
            /\ via' = via
        BY <2>4, <3>1 DEF InIcmpError
      <4> QED
        BY <1>3, <1>5, <3>1, <4>1
    <3>2. CASE ~ForForward(proto, port)
      <4>1. /\ RK(proto, port) \in DOMAIN rev
            /\ out' = Result("in", "Translate", proto, EndpointOf(rev[RK(proto, port)]), port)
            /\ via' = via
        BY <2>4, <3>2 DEF InIcmpError
      <4> QED
        BY <1>3, <1>6, <4>1
    <3> QED
      BY <3>1, <3>2
  <2>5. CASE InDrop
    BY <1>1, <2>5 DEF InDrop, Dropped, Result
  <2> QED
    BY <1>7, <2>1, <2>2, <2>3, <2>4, <2>5 DEF TranslateIn
<1>8. CASE Expire \/ Tick \/ ClearForward \/ (\E port \in ForwardPorts : SetForward(port))
           \/ UNCHANGED vars
  BY <1>2, <1>8 DEF Expire, DropBindings, Tick, ClearForward, SetForward, vars
<1> QED
  BY <1>4, <1>7, <1>8 DEF Next

\* With a port forwarded from the start, everything let in on an external port
\* goes to the endpoint that last left through it.
THEOREM RepliesReachSenders == ASSUME Plan = "fixed" PROVE Spec => []ReplyReachesSender
<1>1. Init => OwnerInv /\ ReplyReachesSender
  <2> SUFFICES ASSUME Init PROVE OwnerInv /\ ReplyReachesSender
    OBVIOUS
  <2>1. BoundOwner
    BY DEF Init, BoundOwner
  <2>2. ForwardOwner
    <3> SUFFICES ASSUME forward # NoForward, NEW proto \in PortProtos
                 PROVE  via[RK(proto, forward.port)] = NoEndpoint
      BY DEF ForwardOwner
    <3>1. forward.port \in ForwardPorts
      BY DEF Init
    <3>2. RK(proto, forward.port) \in RevKey
      BY <3>1 DEF RK, RevKey, AllPorts, Protos, PortProtos
    <3> QED
      BY <3>2 DEF Init
  <2>3. ReplyReachesSender
    BY DEF Init, ReplyReachesSender, Dropped, Result
  <2> QED
    BY <2>1, <2>2, <2>3 DEF OwnerInv
<1>2. TypeOK /\ MapsInverse /\ NoShadowing /\ OwnerInv /\ ReplyReachesSender /\ [Next]_vars
        => OwnerInv' /\ ReplyReachesSender'
  BY NextOwner, NextReply
<1> QED
  BY <1>1, <1>2, TypeCorrect, MapsStayInverse, FixedForwardNeverShadows, PTL DEF Spec

-----------------------------------------------------------------------------
(* No step renumbers a conversation or takes a binding away early.         *)

\* The three parts of the two action properties, for one step.
FwdKept == \A k \in DOMAIN fwd \cap DOMAIN fwd' : fwd'[k] = fwd[k]
RevKept ==
  \A rk \in DOMAIN rev \cap DOMAIN rev' : KeyOf(rk, rev'[rk]) = KeyOf(rk, rev[rk])
GoneRightly ==
  \A rk \in DOMAIN rev \ DOMAIN rev' :
    \/ Stale(rk)
    \/ rk.proto = "tcp" /\ out'.proto = "tcp" /\ out'.port = rk.port

\* Emit on maps that keep every entry renumbers nothing, and what a RST closes
\* is the binding of the packet itself.
LEMMA EmitKeeps ==
  ASSUME NEW k \in Keys, NEW p \in Ports, NEW f, NEW r, NEW rst \in BOOLEAN,
         rst => k.proto = "tcp", Emit(k, p, f, r, rst),
         DOMAIN fwd \subseteq DOMAIN f, \A x \in DOMAIN fwd : f[x] = fwd[x],
         DOMAIN rev \subseteq DOMAIN r,
         \A x \in DOMAIN rev : KeyOf(x, r[x]) = KeyOf(x, rev[x])
  PROVE  FwdKept /\ RevKept /\ GoneRightly
<1> DEFINE rk == RK(k.proto, p)
<1>1. /\ fwd' = IF rst THEN ClosedFwd(f, r, rk) ELSE f
      /\ rev' = IF rst THEN Without(r, {rk}) ELSE r
      /\ out'.proto = k.proto /\ out'.port = p
  BY DEF Emit, Result
<1>2. rk.proto = k.proto /\ rk.port = p
  BY DEF RK
<1> HIDE DEF rk
<1>3. DOMAIN fwd' \subseteq DOMAIN f /\ \A x \in DOMAIN fwd' : fwd'[x] = f[x]
  BY <1>1 DEF ClosedFwd, Without, Restrict
<1>4. DOMAIN rev' \subseteq DOMAIN r /\ \A x \in DOMAIN rev' : rev'[x] = r[x]
  BY <1>1 DEF Without, Restrict
<1>5. FwdKept
  BY <1>3 DEF FwdKept
<1>6. RevKept
  BY <1>4 DEF RevKept
<1>7. ASSUME NEW x \in DOMAIN rev \ DOMAIN rev' PROVE rst /\ x = rk
  BY <1>1, <1>7 DEF Without, Restrict
<1>8. GoneRightly
  BY <1>1, <1>2, <1>7 DEF GoneRightly
<1> QED
  BY <1>5, <1>6, <1>8

\* A packet of a known conversation renumbers nothing.
LEMMA OutKnownKeeps ==
  ASSUME TypeOK, NEW k \in Keys, NEW rst \in BOOLEAN, rst => k.proto = "tcp",
         OutKnown(k, rst)
  PROVE  FwdKept /\ RevKept /\ GoneRightly
<1> DEFINE rk == RK(k.proto, fwd[k])
           r == IF rk \in DOMAIN rev THEN Insert(rev, rk, Refreshed(rev[rk])) ELSE rev
<1>1. fwd[k] \in Ports /\ Emit(k, fwd[k], fwd, r, rst)
  BY DEF OutKnown, TypeOK, MapOK
<1>2. DOMAIN rev = DOMAIN r /\ \A x \in DOMAIN rev : KeyOf(x, r[x]) = KeyOf(x, rev[x])
  <2>1. CASE rk \in DOMAIN rev
    <3>1. KeyOf(rk, Refreshed(rev[rk])) = KeyOf(rk, rev[rk])
      BY <2>1, BindingTypes DEF TypeOK, MapOK
    <3>2. r = Insert(rev, rk, Refreshed(rev[rk]))
      BY <2>1
    <3> HIDE DEF r
    <3> QED
      BY <2>1, <3>1, <3>2 DEF Insert
  <2>2. CASE rk \notin DOMAIN rev
    BY <2>2
  <2> QED
    BY <2>1, <2>2
<1> HIDE DEF r, rk
<1> QED
  BY <1>1, <1>2, EmitKeeps

\* Opening a binding takes a conversation and a port that nobody had.
LEMMA OutNewKeeps ==
  ASSUME TypeOK, NEW k \in Keys, NEW rst \in BOOLEAN, rst => k.proto = "tcp",
         OutNew(k, rst)
  PROVE  FwdKept /\ RevKept /\ GoneRightly
<1>1. PICK p \in Ports :
        /\ Allocates(k.proto, p)
        /\ Emit(k, p, Insert(fwd, k, p), Insert(rev, RK(k.proto, p), BindingFor(k)), rst)
  BY DEF OutNew
<1> DEFINE f == Insert(fwd, k, p)
           r == Insert(rev, RK(k.proto, p), BindingFor(k))
<1>2. k \notin DOMAIN fwd /\ RK(k.proto, p) \notin DOMAIN rev
  BY <1>1 DEF OutNew, Allocates, FreePorts
<1>3. DOMAIN fwd \subseteq DOMAIN f /\ \A x \in DOMAIN fwd : f[x] = fwd[x]
  BY <1>2 DEF Insert
<1>4. DOMAIN rev \subseteq DOMAIN r /\ \A x \in DOMAIN rev : r[x] = rev[x]
  BY <1>2 DEF Insert
<1>5. Emit(k, p, f, r, rst)
  BY <1>1
<1> HIDE DEF f, r
<1> QED
  BY <1>3, <1>4, <1>5, EmitKeeps

\* A packet on a binding refreshes that binding, or closes it if it is a RST.
LEMMA InBindingKeeps ==
  ASSUME TypeOK, NEW peer \in Peers, NEW id \in IpIds, NEW proto \in Protos,
         NEW port \in AllPorts, NEW more \in BOOLEAN, NEW rst \in BOOLEAN,
         rst => proto = "tcp", InBinding(peer, id, proto, port, more, rst)
  PROVE  FwdKept /\ RevKept /\ GoneRightly
<1> DEFINE rk == RK(proto, port)
           b == Refreshed(rev[rk])
<1>1. /\ rk \in DOMAIN rev
      /\ rev' = IF rst THEN Without(rev, {rk}) ELSE Insert(rev, rk, b)
      /\ fwd' = IF rst THEN ClosedFwd(fwd, rev, rk) ELSE fwd
      /\ out'.proto = proto /\ out'.port = port
  BY DEF InBinding, Result
<1>2. KeyOf(rk, b) = KeyOf(rk, rev[rk])
  BY <1>1, BindingTypes DEF TypeOK, MapOK
<1>3. rk.proto = proto /\ rk.port = port
  BY DEF RK
<1> HIDE DEF rk, b
<1>4. FwdKept
  BY <1>1 DEF FwdKept, ClosedFwd, Without, Restrict
<1>5. RevKept
  <2> SUFFICES ASSUME NEW x \in DOMAIN rev \cap DOMAIN rev'
               PROVE  KeyOf(x, rev'[x]) = KeyOf(x, rev[x])
    BY DEF RevKept
  <2>1. CASE rst
    BY <1>1, <2>1 DEF Without, Restrict
  <2>2. CASE ~rst
    BY <1>1, <1>2, <2>2 DEF Insert
  <2> QED
    BY <2>1, <2>2
<1>6. ASSUME NEW x \in DOMAIN rev \ DOMAIN rev' PROVE rst /\ x = rk
  BY <1>1, <1>6 DEF Without, Restrict, Insert
<1>7. GoneRightly
  BY <1>1, <1>3, <1>6 DEF GoneRightly
<1> QED
  BY <1>4, <1>5, <1>7

\* A quoted ICMP packet refreshes at most the binding it names.
LEMMA InIcmpErrorKeeps ==
  ASSUME TypeOK, NEW proto \in Protos, NEW port \in AllPorts, InIcmpError(proto, port)
  PROVE  FwdKept /\ RevKept /\ GoneRightly
<1> DEFINE rk == RK(proto, port)
           b == Refreshed(rev[rk])
<1>1. fwd' = fwd /\ (rev' = rev \/ (rk \in DOMAIN rev /\ rev' = Insert(rev, rk, b)))
  BY DEF InIcmpError
<1>2. rk \in DOMAIN rev => KeyOf(rk, b) = KeyOf(rk, rev[rk])
  BY BindingTypes DEF TypeOK, MapOK
<1> HIDE DEF rk, b
<1>3. FwdKept
  BY <1>1 DEF FwdKept
<1>4. RevKept /\ DOMAIN rev' = DOMAIN rev
  BY <1>1, <1>2 DEF RevKept, Insert
<1> QED
  BY <1>3, <1>4 DEF GoneRightly

\* expire drops stale bindings and leaves the others as they are; time only
\* ages them.
LEMMA HousekeepingKeeps ==
  ASSUME TypeOK, Expire \/ Tick
  PROVE  FwdKept /\ RevKept /\ GoneRightly
<1>1. CASE Expire
  <2> DEFINE dead == {rk \in DOMAIN rev : Stale(rk)}
             gone == {KeyOf(rk, rev[rk]) : rk \in dead}
  <2>1. rev' = Without(rev, dead) /\ fwd' = Without(fwd, gone)
    BY <1>1 DEF Expire, DropBindings
  <2>2. \A rk \in dead : Stale(rk)
    OBVIOUS
  <2> HIDE DEF dead, gone
  <2>3. FwdKept
    BY <2>1 DEF FwdKept, Without, Restrict
  <2>4. RevKept
    BY <2>1 DEF RevKept, Without, Restrict
  <2>5. GoneRightly
    BY <2>1, <2>2 DEF GoneRightly, Without, Restrict
  <2> QED
    BY <2>3, <2>4, <2>5
<1>2. CASE Tick
  <2>1. DOMAIN rev' = DOMAIN rev /\ fwd' = fwd
    BY <1>2 DEF Tick
  <2>2. \A rk \in DOMAIN rev : KeyOf(rk, rev'[rk]) = KeyOf(rk, rev[rk])
    BY <1>2, OlderFacts, IdleType DEF Tick, TypeOK, MapOK
  <2> QED
    BY <2>1, <2>2 DEF FwdKept, RevKept, GoneRightly
<1> QED
  BY <1>1, <1>2

\* Every step of the NAT keeps what it does not close.
LEMMA NextKeeps ==
  ASSUME TypeOK, [Next]_vars
  PROVE  FwdKept /\ RevKept /\ GoneRightly
<1>1. ASSUME UNCHANGED <<fwd, rev>> PROVE FwdKept /\ RevKept /\ GoneRightly
  BY <1>1 DEF FwdKept, RevKept, GoneRightly
<1>2. CASE TranslateOut
  <2>1. CASE OutStateless \/ \E k \in Keys : OutExhausted(k) \/ OutCone(k)
    BY <1>1, <2>1 DEF OutStateless, OutExhausted, OutCone
  <2> QED
    BY <1>2, <2>1, OutKnownKeeps, OutNewKeeps DEF TranslateOut
<1>3. CASE TranslateIn
  <2>1. ASSUME NEW peer \in Peers, NEW id \in IpIds, NEW proto \in Protos,
               InLaterFragment(peer, id, proto) \/ InDrop
               \/ \E port \in AllPorts, more \in BOOLEAN : InForward(peer, id, proto, port, more)
        PROVE  FwdKept /\ RevKept /\ GoneRightly
    BY <1>1, <2>1 DEF InLaterFragment, InDrop, InForward
  <2>2. CASE InDrop
    BY <1>1, <2>2 DEF InDrop
  <2> QED
    BY <1>3, <2>1, <2>2, InBindingKeeps, InIcmpErrorKeeps DEF TranslateIn
<1>4. CASE ClearForward \/ (\E port \in ForwardPorts : SetForward(port)) \/ UNCHANGED vars
  BY <1>1, <1>4 DEF ClearForward, SetForward, vars
<1> QED
  BY <1>2, <1>3, <1>4, HousekeepingKeeps DEF Next

\* No step moves a live conversation to another port, or a bound port to
\* another conversation, under every plan.
THEOREM NothingIsRenumbered == Spec => NotRenumbered
<1>1. TypeOK /\ [Next]_vars =>
        [/\ \A k \in DOMAIN fwd \cap DOMAIN fwd' : fwd'[k] = fwd[k]
         /\ \A rk \in DOMAIN rev \cap DOMAIN rev' : KeyOf(rk, rev'[rk]) = KeyOf(rk, rev[rk])]_vars
  BY NextKeeps DEF FwdKept, RevKept
<1> QED
  BY <1>1, TypeCorrect, PTL DEF Spec, NotRenumbered

\* A binding leaves the table only when it is stale, or on a TCP packet of its
\* own: nothing else that happens to the NAT takes a port back.
THEOREM NothingIsReclaimedEarly == Spec => NoEarlyReclaim
<1>1. TypeOK /\ [Next]_vars =>
        [\A rk \in DOMAIN rev \ DOMAIN rev' :
           \/ Stale(rk)
           \/ rk.proto = "tcp" /\ out'.proto = "tcp" /\ out'.port = rk.port]_vars
  BY NextKeeps DEF GoneRightly
<1> QED
  BY <1>1, TypeCorrect, PTL DEF Spec, NoEarlyReclaim

-----------------------------------------------------------------------------
(* The two maps are one table.                                                 *)

\* The key of a conversation's binding.
RevKeyOf(k) == RK(k.proto, fwd[k])
Entry(port, age) == [port |-> port, age |-> age]

\* What the mapping makes of the maps.
LEMMA TableIs ==
  /\ DOMAIN Table = DOMAIN fwd
  /\ \A k \in DOMAIN fwd :
       /\ Table[k] = Entry(fwd[k], rev[RevKeyOf(k)].age)
       /\ Table[k].port = fwd[k] /\ Table[k].age = rev[RevKeyOf(k)].age
BY DEF Table, Entry, RevKeyOf

\* Each conversation has a binding of its own.
LEMMA OwnBinding ==
  ASSUME TypeOK, MapsInverse
  PROVE  /\ \A k \in DOMAIN fwd : RevKeyOf(k) \in DOMAIN rev /\ k \in Keys
         /\ \A k, x \in DOMAIN fwd : RevKeyOf(k) = RevKeyOf(x) => k = x
         /\ \A rk \in DOMAIN rev :
              KeyOf(rk, rev[rk]) \in DOMAIN fwd /\ RevKeyOf(KeyOf(rk, rev[rk])) = rk
<1>1. \A k \in DOMAIN fwd :
        /\ k \in Keys /\ RevKeyOf(k) \in DOMAIN rev
        /\ KeyOf(RevKeyOf(k), rev[RevKeyOf(k)]) = k
  BY DEF MapsInverse, FwdLeadsBack, RevKeyOf, TypeOK, MapOK
<1>2. \A rk \in DOMAIN rev :
        KeyOf(rk, rev[rk]) \in DOMAIN fwd /\ RevKeyOf(KeyOf(rk, rev[rk])) = rk
  <2> SUFFICES ASSUME NEW rk \in DOMAIN rev
               PROVE  KeyOf(rk, rev[rk]) \in DOMAIN fwd /\ RevKeyOf(KeyOf(rk, rev[rk])) = rk
    OBVIOUS
  <2>1. KeyOf(rk, rev[rk]) \in DOMAIN fwd /\ fwd[KeyOf(rk, rev[rk])] = rk.port
    BY DEF MapsInverse, RevLeadsBack
  <2>2. KeyOf(rk, rev[rk]).proto = rk.proto
    BY DEF KeyOf
  <2>3. rk \in RevKey
    BY DEF TypeOK, MapOK
  <2>4. RK(rk.proto, rk.port) = rk
    BY <2>3 DEF RK, RevKey
  <2> QED
    BY <2>1, <2>2, <2>4 DEF RevKeyOf
<1> QED
  BY <1>1, <1>2

\* Refreshing, dropping and opening bindings, as they change the table.
LEMMA RenewedIs ==
  ASSUME TypeOK, MapsInverse, NEW k \in DOMAIN fwd,
         fwd' = fwd, rev' = Insert(rev, RevKeyOf(k), Refreshed(rev[RevKeyOf(k)]))
  PROVE  Table' = OneTable!Renewed(k, fwd[k])
<1>1. RevKeyOf(k) \in DOMAIN rev /\ rev[RevKeyOf(k)] \in Binding
  BY OwnBinding DEF TypeOK, MapOK
<1>2. Refreshed(rev[RevKeyOf(k)]).age = 0
  BY <1>1 DEF Refreshed, Binding
<1>3. \A x \in DOMAIN fwd : x # k => RevKeyOf(x) \in DOMAIN rev /\ RevKeyOf(x) # RevKeyOf(k)
  BY OwnBinding
<1>4. \A x \in DOMAIN fwd : rev'[RevKeyOf(x)].age = IF x = k THEN 0 ELSE rev[RevKeyOf(x)].age
  BY <1>1, <1>2, <1>3 DEF Insert
<1>5. Table' = [x \in DOMAIN fwd |-> Entry(fwd[x], rev'[RevKeyOf(x)].age)]
  BY DEF Table, Entry, RevKeyOf
<1>6. OneTable!Renewed(k, fwd[k]) =
        [x \in DOMAIN fwd |-> IF x = k THEN Entry(fwd[k], 0) ELSE Table[x]]
  <2>1. DOMAIN Table \cup {k} = DOMAIN fwd
    BY TableIs
  <2> QED
    BY <2>1 DEF OneTable!Renewed, Entry
<1> QED
  BY <1>4, <1>5, <1>6, TableIs

LEMMA DroppedIs ==
  ASSUME TypeOK, MapsInverse, NEW dead \in SUBSET DOMAIN rev,
         NEW gone, gone = {KeyOf(rk, rev[rk]) : rk \in dead},
         rev' = Without(rev, dead), fwd' = Without(fwd, gone)
  PROVE  Table' = OneTable!Left(gone)
<1>1. /\ DOMAIN fwd' = DOMAIN fwd \ gone
      /\ \A x \in DOMAIN fwd \ gone : fwd'[x] = fwd[x]
  <2>1. PICK g : g = gone
    OBVIOUS
  <2>2. /\ DOMAIN Without(fwd, g) = DOMAIN fwd \ g
        /\ \A x \in DOMAIN fwd \ g : Without(fwd, g)[x] = fwd[x]
    BY WithoutFacts
  <2>3. fwd' = Without(fwd, g)
    BY <2>1
  <2> QED
    BY <2>1, <2>2, <2>3
<1>2. \A x \in DOMAIN rev \ dead : rev'[x] = rev[x]
  BY WithoutFacts
<1>3. \A x \in DOMAIN fwd \ gone : RevKeyOf(x) \in DOMAIN rev \ dead
  <2> SUFFICES ASSUME NEW x \in DOMAIN fwd \ gone, RevKeyOf(x) \in dead PROVE FALSE
    BY OwnBinding
  <2>1. KeyOf(RevKeyOf(x), rev[RevKeyOf(x)]) \in gone
    OBVIOUS
  <2>2. KeyOf(RevKeyOf(x), rev[RevKeyOf(x)]) = x
    BY DEF MapsInverse, FwdLeadsBack, RevKeyOf
  <2> QED
    BY <2>1, <2>2
<1>4. \A x \in DOMAIN fwd \ gone : rev'[RevKeyOf(x)] = rev[RevKeyOf(x)]
  BY <1>2, <1>3
<1>5. Table' = [x \in DOMAIN fwd \ gone |-> Entry(fwd[x], rev[RevKeyOf(x)].age)]
  <2>1. Table' = [x \in DOMAIN fwd' |-> Entry(fwd'[x], rev'[RK(x.proto, fwd'[x])].age)]
    BY DEF Table, Entry
  <2>2. \A x \in DOMAIN fwd \ gone :
          fwd'[x] = fwd[x] /\ rev'[RK(x.proto, fwd'[x])].age = rev[RevKeyOf(x)].age
    BY <1>1, <1>4 DEF RevKeyOf
  <2> QED
    BY <1>1, <2>1, <2>2
<1>6. OneTable!Left(gone) = [x \in DOMAIN fwd \ gone |-> Table[x]]
  BY TableIs DEF OneTable!Left
<1> QED
  BY <1>5, <1>6, TableIs

LEMMA OpenedIs ==
  ASSUME TypeOK, MapsInverse, NEW k \in Keys, NEW p \in Ports,
         k \notin DOMAIN fwd, RK(k.proto, p) \notin DOMAIN rev,
         fwd' = Insert(fwd, k, p),
         rev' = Insert(rev, RK(k.proto, p), BindingFor(k))
  PROVE  Table' = OneTable!Renewed(k, p)
<1> DEFINE rk == RK(k.proto, p)
<1>1. /\ DOMAIN fwd' = DOMAIN fwd \cup {k} /\ fwd'[k] = p
      /\ \A x \in DOMAIN fwd : fwd'[x] = fwd[x]
  BY DEF Insert
<1>2. rev'[rk] = BindingFor(k) /\ \A x \in DOMAIN rev : rev'[x] = rev[x]
  BY DEF Insert
<1>3. BindingFor(k).age = 0
  BY DEF BindingFor
<1>4. \A x \in DOMAIN fwd : RevKeyOf(x) \in DOMAIN rev
  BY OwnBinding
<1>5. \A x \in DOMAIN fwd : rev'[RK(x.proto, fwd'[x])] = rev[RevKeyOf(x)] /\ x # k
  BY <1>1, <1>2, <1>4 DEF RevKeyOf
<1>6. rev'[RK(k.proto, fwd'[k])].age = 0
  BY <1>1, <1>2, <1>3
<1>7. Table' = [x \in DOMAIN fwd \cup {k} |-> IF x = k THEN Entry(p, 0)
                                              ELSE Entry(fwd[x], rev[RevKeyOf(x)].age)]
  BY <1>1, <1>5, <1>6 DEF Table, Entry
<1>8. OneTable!Renewed(k, p) =
        [x \in DOMAIN fwd \cup {k} |-> IF x = k THEN Entry(p, 0) ELSE Table[x]]
  BY TableIs DEF OneTable!Renewed, Entry
<1> QED
  BY <1>7, <1>8, TableIs

\* The same with a single binding.
LEMMA ClosedIs ==
  ASSUME TypeOK, MapsInverse, NEW k \in DOMAIN fwd,
         rev' = Without(rev, {RevKeyOf(k)}), fwd' = Without(fwd, {k})
  PROVE  Table' = OneTable!Left({k})
<1>1. RevKeyOf(k) \in DOMAIN rev /\ KeyOf(RevKeyOf(k), rev[RevKeyOf(k)]) = k
  BY DEF MapsInverse, FwdLeadsBack, RevKeyOf
<1>2. {k} = {KeyOf(rk, rev[rk]) : rk \in {RevKeyOf(k)}}
  BY <1>1
<1> QED
  BY <1>1, <1>2, DroppedIs

LEMMA SameTable ==
  ASSUME fwd' = fwd, rev' = rev
  PROVE  Table' = Table
BY DEF Table

\* Nothing is left out of the table that is not in it.
LEMMA LeftAll ==
  ASSUME NEW k, k \notin DOMAIN fwd
  PROVE  OneTable!Left({k}) = Table
<1>1. DOMAIN Table \ {k} = DOMAIN fwd
  BY TableIs
<1> QED
  BY <1>1 DEF OneTable!Left, Table

\* What the forward owns, what is free and whether there is room.
LEMMA ForwardedIs ==
  /\ \A proto, p : ForForward(proto, p) <=> OneTable!Forwarded(proto, p)
  /\ \A proto, p : Reserved(proto, p) <=> OneTable!Forwarded(proto, p)
  /\ \A k : Cone(k) <=> OneTable!FromForward(k)
BY DEF ForForward, Reserved, Cone, OneTable!Forwarded, OneTable!FromForward, PortProtos

\* A port is free in the reverse map when no conversation has it.
LEMMA FreeIs ==
  ASSUME TypeOK, MapsInverse, NEW proto
  PROVE  FreePorts(proto) = OneTable!Free(proto)
<1> DEFINE own == {Table[k].port : k \in {x \in DOMAIN Table : x.proto = proto}}
<1>1. \A p : RK(proto, p) \in DOMAIN rev => p \in own
  <2> SUFFICES ASSUME NEW p, RK(proto, p) \in DOMAIN rev PROVE p \in own
    OBVIOUS
  <2>1. PICK k : k = KeyOf(RK(proto, p), rev[RK(proto, p)])
    OBVIOUS
  <2>2. k \in DOMAIN fwd /\ fwd[k] = p /\ k.proto = proto
    BY <2>1 DEF MapsInverse, RevLeadsBack, KeyOf, RK
  <2>3. k \in DOMAIN Table /\ Table[k].port = p
    BY <2>2, TableIs
  <2> QED
    BY <2>2, <2>3
<1>2. \A p : p \in own => RK(proto, p) \in DOMAIN rev
  <2> SUFFICES ASSUME NEW k \in DOMAIN Table, k.proto = proto
               PROVE  RK(proto, Table[k].port) \in DOMAIN rev
    OBVIOUS
  <2>1. k \in DOMAIN fwd /\ Table[k].port = fwd[k]
    BY TableIs
  <2>2. RevKeyOf(k) \in DOMAIN rev
    BY <2>1, OwnBinding
  <2> QED
    BY <2>1, <2>2 DEF RevKeyOf
<1>3. OneTable!Free(proto) = {p \in Ports : ~Reserved(proto, p)} \ own
  BY ForwardedIs DEF OneTable!Free
<1> HIDE DEF own
<1> QED
  BY <1>1, <1>2, <1>3 DEF FreePorts

\* BindingTable's own copy of the standard module.
LEMMA TableCardinality ==
  ASSUME NEW S
  PROVE  OneTable!Cardinality(S) = Cardinality(S)
BY DEF OneTable!Cardinality, Cardinality

\* There are as many conversations as bindings.
LEMMA FullIs ==
  ASSUME TypeOK, MapsInverse, TableBounded
  PROVE  AtCeiling <=> OneTable!Full
<1> DEFINE b == [k \in DOMAIN fwd |-> RevKeyOf(k)]
<1>1. b \in [DOMAIN fwd -> DOMAIN rev]
  BY OwnBinding
<1>2. \A k, x \in DOMAIN fwd : b[k] = b[x] => k = x
  BY OwnBinding
<1>3. \A rk \in DOMAIN rev : \E k \in DOMAIN fwd : b[k] = rk
  BY OwnBinding
<1> HIDE DEF b
<1>4. b \in Injection(DOMAIN fwd, DOMAIN rev) /\ b \in Surjection(DOMAIN fwd, DOMAIN rev)
  BY <1>1, <1>2, <1>3 DEF Injection, Surjection, IsInjective
<1>5. IsFiniteSet(DOMAIN rev)
  BY DEF TableBounded
<1>6. Cardinality(DOMAIN fwd) = Cardinality(DOMAIN rev)
  BY <1>4, <1>5, FS_Injection
<1> QED
  BY <1>6, TableIs, TableCardinality DEF AtCeiling, OneTable!Full

-----------------------------------------------------------------------------
(* Every step is one of the table's.                                           *)

TableInv == TypeOK /\ MapsInverse /\ TableBounded

\* What a call returns.
LEMMA ToldIs ==
  ASSUME NEW dir, NEW verdict, NEW proto, NEW addr, NEW sport, NEW port
  PROVE  Result(dir, verdict, proto, [addr |-> addr, port |-> sport], port) =
           OneTable!Told(dir, verdict, proto, addr, sport, port)
BY DEF Result, OneTable!Told

LEMMA InitImplements == Init => OneTable!Init
<1> SUFFICES ASSUME Init PROVE OneTable!Init
  OBVIOUS
<1>1. Table = <<>>
  BY DEF Init, Table
<1>2. forward \in [host : {ForwardHost}, port : ForwardPorts] \cup {NoForward}
  BY DEF Init
<1>3. out = OneTable!Told("none", "Drop", "icmp", NoHost, 0, 0)
  BY ToldIs DEF Init, Dropped, NoEndpoint
<1> QED
  BY <1>1, <1>2, <1>3 DEF OneTable!Init

\* A packet of a conversation that has a port.
LEMMA OutKnownLeaves ==
  ASSUME TypeOK, MapsInverse, NEW k \in Keys, NEW rst \in BOOLEAN, rst => k.proto = "tcp",
         OutKnown(k, rst)
  PROVE  OneTable!Leave(k, fwd[k])
<1> DEFINE b == Refreshed(rev[RevKeyOf(k)])
           r == Insert(rev, RevKeyOf(k), b)
<1>1. RevKeyOf(k) \in DOMAIN rev /\ KeyOf(RevKeyOf(k), rev[RevKeyOf(k)]) = k /\ k \in DOMAIN fwd
  BY DEF OutKnown, MapsInverse, FwdLeadsBack, RevKeyOf
<1>2. rev[RevKeyOf(k)] \in Binding /\ KeyOf(RevKeyOf(k), b) = k
  BY <1>1, BindingTypes DEF TypeOK, MapOK
<1>3. Emit(k, fwd[k], fwd, r, rst) /\ forward' = forward /\ ~Cone(k)
  BY <1>1 DEF OutKnown, RevKeyOf
<1> HIDE DEF b
<1>4. /\ DOMAIN r = DOMAIN rev /\ r[RevKeyOf(k)] = b
      /\ Without(r, {RevKeyOf(k)}) = Without(rev, {RevKeyOf(k)})
  BY <1>1 DEF Insert, Without, Restrict
<1> HIDE DEF r
<1>5. OneTable!Goes(k, fwd[k])
  <2>1. CASE rst
    <3>1. rev' = Without(rev, {RevKeyOf(k)})
      BY <1>3, <1>4, <2>1 DEF Emit, RevKeyOf
    <3>2. fwd' = Without(fwd, {k})
      BY <1>1, <1>2, <1>3, <1>4, <2>1 DEF Emit, ClosedFwd, RevKeyOf
    <3>3. Table' = OneTable!Left({k})
      BY <1>1, <3>1, <3>2, ClosedIs
    <3> QED
      BY <2>1, <3>3 DEF OneTable!Goes
  <2>2. CASE ~rst
    <3>1. fwd' = fwd /\ rev' = Insert(rev, RevKeyOf(k), Refreshed(rev[RevKeyOf(k)]))
      BY <1>3, <2>2 DEF Emit, r, b
    <3>2. Table' = OneTable!Renewed(k, fwd[k])
      BY <1>1, <3>1, RenewedIs
    <3> QED
      BY <3>2 DEF OneTable!Goes
  <2> QED
    BY <2>1, <2>2
<1>6. out' = OneTable!Told("out", "Translate", k.proto, k.src, k.sport, fwd[k])
  BY <1>3, ToldIs DEF Emit
<1>7. k \in DOMAIN Table /\ fwd[k] = Table[k].port
  BY <1>1, TableIs
<1> QED
  BY <1>3, <1>5, <1>6, <1>7, ForwardedIs DEF OneTable!Leave

\* The first packet of a conversation.
LEMMA OutNewLeaves ==
  ASSUME TableInv, NEW k \in Keys, NEW rst \in BOOLEAN, rst => k.proto = "tcp",
         OutNew(k, rst)
  PROVE  \E p \in Ports : OneTable!Leave(k, p)
<1> USE DEF TableInv
<1>1. PICK p \in Ports :
        /\ Allocates(k.proto, p)
        /\ Emit(k, p, Insert(fwd, k, p), Insert(rev, RK(k.proto, p), BindingFor(k)), rst)
  BY DEF OutNew
<1> DEFINE rk == RK(k.proto, p)
           f == Insert(fwd, k, p)
           r == Insert(rev, rk, BindingFor(k))
<1>2. k \notin DOMAIN fwd /\ ~Cone(k) /\ forward' = forward
  BY DEF OutNew
<1>3. p \in FreePorts(k.proto) /\ ~AtCeiling /\ rk \notin DOMAIN rev
  BY <1>1 DEF Allocates, FreePorts
<1>4. OneTable!Goes(k, p)
  <2>1. CASE rst
    <3>1. KeyOf(rk, BindingFor(k)) = k
      <4>1. k \in FwdKey
        BY KeysAssumption
      <4> QED
        BY <4>1 DEF KeyOf, BindingFor, RK, FwdKey
    <3>2. rk \in DOMAIN r /\ r[rk] = BindingFor(k)
      BY DEF Insert
    <3>3. Without(f, {k}) = fwd
      BY <1>2 DEF Without, Restrict, Insert, TypeOK, MapOK
    <3>4. Without(r, {rk}) = rev
      BY <1>3 DEF Without, Restrict, Insert, TypeOK, MapOK
    <3>5. fwd' = fwd /\ rev' = rev
      BY <1>1, <2>1, <3>1, <3>2, <3>3, <3>4 DEF Emit, ClosedFwd
    <3>6. Table' = OneTable!Left({k})
      BY <1>2, <3>5, SameTable, LeftAll
    <3> QED
      BY <2>1, <3>6 DEF OneTable!Goes
  <2>2. CASE ~rst
    <3>1. fwd' = f /\ rev' = r
      BY <1>1, <2>2 DEF Emit
    <3>2. Table' = OneTable!Renewed(k, p)
      BY <1>2, <1>3, <3>1, OpenedIs
    <3> QED
      BY <3>2 DEF OneTable!Goes
  <2> QED
    BY <2>1, <2>2
<1>5. out' = OneTable!Told("out", "Translate", k.proto, k.src, k.sport, p)
  BY <1>1, ToldIs DEF Emit
<1>6. k \notin DOMAIN Table
  BY <1>2, TableIs
<1>7. ~OneTable!Full /\ p \in OneTable!Free(k.proto)
  BY <1>3, FullIs, FreeIs
<1> QED
  BY <1>2, <1>4, <1>5, <1>6, <1>7, ForwardedIs DEF OneTable!Leave

\* The first packet of a conversation when no port is left.
LEMMA OutExhaustedRefuses ==
  ASSUME TableInv, NEW k \in Keys, OutExhausted(k)
  PROVE  OneTable!Refuse(k)
<1> USE DEF TableInv
<1>1. k \notin DOMAIN Table /\ ~OneTable!FromForward(k)
  BY TableIs, ForwardedIs DEF OutExhausted
<1>2. OneTable!Full \/ OneTable!Free(k.proto) = {}
  BY FullIs, FreeIs DEF OutExhausted, AllocFails
<1>3. out' = OneTable!Told("out", "Exhausted", k.proto, NoHost, 0, 0)
  BY ToldIs DEF OutExhausted, NoEndpoint
<1>4. forward' = forward /\ Table' = Table
  BY SameTable DEF OutExhausted
<1> QED
  BY <1>1, <1>2, <1>3, <1>4 DEF OneTable!Refuse

\* Inbound on a binding.
LEMMA InBindingArrives ==
  ASSUME TypeOK, MapsInverse, NEW peer, NEW id, NEW proto, NEW port, NEW more,
         NEW rst \in BOOLEAN, rst => proto = "tcp", InBinding(peer, id, proto, port, more, rst)
  PROVE  \E k \in Keys : fwd[k] \in Ports /\ OneTable!Arrive(k, fwd[k])
<1> DEFINE rk == RK(proto, port)
<1>1. rk \in DOMAIN rev /\ rev[rk] \in Binding
  BY DEF InBinding, TypeOK, MapOK
<1>2. PICK k : k = KeyOf(rk, rev[rk])
  OBVIOUS
<1>3. k \in DOMAIN fwd /\ RevKeyOf(k) = rk /\ k \in Keys /\ fwd[k] \in Ports
  BY <1>1, <1>2, OwnBinding DEF TypeOK, MapOK
<1>4. k.proto = proto /\ fwd[k] = port /\ EndpointOf(rev[rk]) = [addr |-> k.src, port |-> k.sport]
  BY <1>2, <1>3 DEF KeyOf, RevKeyOf, RK, EndpointOf
<1>5. OneTable!Goes(k, fwd[k])
  <2>1. CASE rst
    <3>1. rev' = Without(rev, {RevKeyOf(k)}) /\ fwd' = Without(fwd, {k})
      BY <1>1, <1>2, <1>3, <2>1 DEF InBinding, ClosedFwd
    <3>2. Table' = OneTable!Left({k})
      BY <1>3, <3>1, ClosedIs
    <3> QED
      BY <1>4, <2>1, <3>2 DEF OneTable!Goes
  <2>2. CASE ~rst
    <3>1. rev' = Insert(rev, RevKeyOf(k), Refreshed(rev[RevKeyOf(k)])) /\ fwd' = fwd
      BY <1>3, <2>2 DEF InBinding
    <3>2. Table' = OneTable!Renewed(k, fwd[k])
      BY <1>3, <3>1, RenewedIs
    <3> QED
      BY <3>2 DEF OneTable!Goes
  <2> QED
    BY <2>1, <2>2
<1>6. out' = OneTable!Told("in", "Translate", k.proto, k.src, k.sport, fwd[k])
  BY <1>4, ToldIs DEF InBinding
<1>7. ~OneTable!Forwarded(k.proto, fwd[k]) /\ forward' = forward
  BY <1>4, ForwardedIs DEF InBinding
<1>8. k \in DOMAIN Table /\ fwd[k] = Table[k].port
  BY <1>3, TableIs
<1> QED
  BY <1>3, <1>5, <1>6, <1>7, <1>8 DEF OneTable!Arrive

\* An ICMP error that quotes a packet of a binding.
LEMMA InIcmpErrorArrives ==
  ASSUME TypeOK, MapsInverse, NEW proto \in Protos, NEW port, InIcmpError(proto, port)
  PROVE  \/ OneTable!Pass
         \/ \E k \in Keys : fwd[k] \in Ports /\ OneTable!Arrive(k, fwd[k])
<1> DEFINE rk == RK(proto, port)
<1>1. CASE ForForward(proto, port)
  <2>1. /\ out' = Result("in", "Translate", proto, [addr |-> forward.host, port |-> port], port)
        /\ forward' = forward /\ fwd' = fwd /\ rev' = rev
    BY <1>1 DEF InIcmpError
  <2>2. port = forward.port /\ OneTable!Forwarded(proto, forward.port)
    BY <1>1, ForwardedIs DEF ForForward
  <2>3. out' = OneTable!Told("in", "Translate", proto, forward.host, forward.port, forward.port)
    BY <2>1, <2>2, ToldIs
  <2>4. Table' = Table
    BY <2>1, SameTable
  <2> QED
    BY <2>1, <2>2, <2>3, <2>4 DEF OneTable!Pass
<1>2. CASE ~ForForward(proto, port)
  <2>1. /\ rk \in DOMAIN rev /\ rev[rk] \in Binding
        /\ rev' = Insert(rev, rk, Refreshed(rev[rk])) /\ fwd' = fwd /\ forward' = forward
        /\ out' = Result("in", "Translate", proto, EndpointOf(rev[rk]), port)
    BY <1>2 DEF InIcmpError, TypeOK, MapOK
  <2>2. PICK k : k = KeyOf(rk, rev[rk])
    OBVIOUS
  <2>3. k \in DOMAIN fwd /\ RevKeyOf(k) = rk /\ k \in Keys /\ fwd[k] \in Ports
    BY <2>1, <2>2, OwnBinding DEF TypeOK, MapOK
  <2>4. k.proto = proto /\ fwd[k] = port /\ EndpointOf(rev[rk]) = [addr |-> k.src, port |-> k.sport]
    BY <2>2, <2>3 DEF KeyOf, RevKeyOf, RK, EndpointOf
  <2>5. Table' = OneTable!Renewed(k, fwd[k])
    BY <2>1, <2>3, RenewedIs
  <2>6. out' = OneTable!Told("in", "Translate", k.proto, k.src, k.sport, fwd[k])
    BY <2>1, <2>4, ToldIs
  <2>7. ~OneTable!Forwarded(k.proto, fwd[k])
    BY <1>2, <2>4, ForwardedIs
  <2>8. k \in DOMAIN Table /\ fwd[k] = Table[k].port
    BY <2>3, TableIs
  <2> QED
    BY <2>1, <2>3, <2>5, <2>6, <2>7, <2>8 DEF OneTable!Arrive, OneTable!Goes
<1> QED
  BY <1>1, <1>2

\* What has no part in the table.
LEMMA OthersPass ==
  ASSUME TypeOK,
         \/ OutStateless \/ InDrop \/ \E k \in Keys : OutCone(k)
         \/ \E peer \in Peers, id \in IpIds, proto \in Protos :
              \/ InLaterFragment(peer, id, proto)
              \/ \E port \in AllPorts, more \in BOOLEAN : InForward(peer, id, proto, port, more)
  PROVE  OneTable!Pass
<1>1. Table' = Table /\ forward' = forward
  <2>1. fwd' = fwd /\ rev' = rev /\ forward' = forward
    BY DEF OutStateless, InDrop, OutCone, InLaterFragment, InForward
  <2> QED
    BY <2>1, SameTable
<1>2. CASE OutStateless \/ InDrop
  <2>1. \/ out' = Result("out", "Drop", "icmp", NoEndpoint, 0)
        \/ out' = Result("in", "Drop", "icmp", NoEndpoint, 0)
        \/ out' = Result("out", "Translate", "icmp", NoEndpoint, 0)
    BY <1>2 DEF OutStateless, InDrop, Dropped
  <2>2. \/ out' = OneTable!Told("out", "Drop", "icmp", NoHost, 0, 0)
        \/ out' = OneTable!Told("in", "Drop", "icmp", NoHost, 0, 0)
        \/ out' = OneTable!Told("out", "Translate", "icmp", NoHost, 0, 0)
    BY <2>1, ToldIs DEF NoEndpoint
  <2> QED
    BY <1>1, <2>2 DEF OneTable!Pass
<1>3. CASE \E k \in Keys : OutCone(k)
  <2>1. PICK k \in Keys : OutCone(k)
    BY <1>3
  <2>2. OneTable!FromForward(k)
    BY <2>1, ForwardedIs DEF OutCone
  <2>3. out' = OneTable!Told("out", "Translate", k.proto, k.src, k.sport, k.sport)
    BY <2>1, ToldIs DEF OutCone
  <2> QED
    BY <1>1, <2>2, <2>3 DEF OneTable!Pass
<1>4. ASSUME NEW peer \in Peers, NEW id \in IpIds, NEW proto \in Protos,
             InLaterFragment(peer, id, proto)
      PROVE  OneTable!Pass
  <2>1. PICK host \in Hosts :
          out' = Result("in", "Translate", proto, [addr |-> host, port |-> 0], 0)
    BY <1>4 DEF InLaterFragment, TypeOK, MapOK, Window
  <2>2. out' = OneTable!Told("in", "Translate", proto, host, 0, 0)
    BY <2>1, ToldIs
  <2> QED
    BY <1>1, <2>2 DEF OneTable!Pass
<1>5. ASSUME NEW peer \in Peers, NEW id \in IpIds, NEW proto \in Protos, NEW port \in AllPorts,
             NEW more \in BOOLEAN, InForward(peer, id, proto, port, more)
      PROVE  OneTable!Pass
  <2>1. port = forward.port /\ OneTable!Forwarded(proto, forward.port)
    BY <1>5, ForwardedIs DEF InForward, ForForward
  <2>2. out' = OneTable!Told("in", "Translate", proto, forward.host, forward.port, forward.port)
    BY <1>5, <2>1, ToldIs DEF InForward
  <2> QED
    BY <1>1, <2>1, <2>2 DEF OneTable!Pass
<1> QED
  BY <1>2, <1>3, <1>4, <1>5

\* Housekeeping, time and the lease.
LEMMA ExpireImplements == ASSUME TypeOK, MapsInverse, Expire PROVE OneTable!Expire
<1> DEFINE dead == {rk \in DOMAIN rev : Stale(rk)}
           gone == {KeyOf(rk, rev[rk]) : rk \in dead}
           old == {k \in DOMAIN Table : Table[k].age >= [proto \in Protos |-> Idle(proto)][k.proto]}
<1>1. rev' = Without(rev, dead) /\ fwd' = Without(fwd, gone) /\ forward' = forward /\ out' = out
  BY DEF Expire, DropBindings
<1>2. PICK g : g = gone
  OBVIOUS
<1>3. Table' = OneTable!Left(g)
  BY <1>1, <1>2, DroppedIs
<1>4. \A k \in DOMAIN fwd :
        /\ k \in gone <=> RevKeyOf(k) \in dead
        /\ k.proto \in Protos /\ RevKeyOf(k).proto = k.proto
  <2> SUFFICES ASSUME NEW k \in DOMAIN fwd
               PROVE  /\ k \in gone <=> RevKeyOf(k) \in dead
                      /\ k.proto \in Protos /\ RevKeyOf(k).proto = k.proto
    OBVIOUS
  <2>1. KeyOf(RevKeyOf(k), rev[RevKeyOf(k)]) = k /\ k \in Keys
    BY OwnBinding DEF MapsInverse, FwdLeadsBack, RevKeyOf
  <2>2. \A rk \in dead : KeyOf(rk, rev[rk]) = k => rk = RevKeyOf(k)
    BY OwnBinding
  <2>3. k.proto \in Protos
    BY <2>1, KeysAssumption DEF FwdKey
  <2> QED
    BY <2>1, <2>2, <2>3 DEF RevKeyOf, RK
<1>5. \A k \in DOMAIN fwd : k \in gone <=> k \in old
  BY <1>4, TableIs, OwnBinding DEF Stale
<1>6. \A k \in gone : k \in DOMAIN fwd
  BY OwnBinding
<1>7. g = old
  BY <1>2, <1>5, <1>6, TableIs
<1> QED
  BY <1>1, <1>3, <1>7 DEF OneTable!Expire

LEMMA TickImplements == ASSUME TypeOK, MapsInverse, Tick PROVE OneTable!Tick
<1> DEFINE limit == [proto \in Protos |-> Idle(proto)]
<1>1. /\ fwd' = fwd /\ forward' = forward /\ out' = out
      /\ \A rk \in DOMAIN rev : rev'[rk] = Older(rev[rk], Idle(rk.proto))
  BY DEF Tick
<1>2. \A k \in DOMAIN fwd :
        /\ RevKeyOf(k) \in DOMAIN rev /\ rev[RevKeyOf(k)] \in Binding
        /\ RevKeyOf(k).proto = k.proto /\ limit[k.proto] = Idle(k.proto)
  BY OwnBinding, KeysAssumption DEF TypeOK, MapOK, RevKeyOf, RK, FwdKey
<1> HIDE DEF limit
<1>3. \A k \in DOMAIN fwd :
        rev'[RevKeyOf(k)].age = IF rev[RevKeyOf(k)].age < limit[k.proto]
                                THEN rev[RevKeyOf(k)].age + 1 ELSE rev[RevKeyOf(k)].age
  <2> SUFFICES ASSUME NEW k \in DOMAIN fwd
               PROVE  rev'[RevKeyOf(k)].age = IF rev[RevKeyOf(k)].age < limit[k.proto]
                                        THEN rev[RevKeyOf(k)].age + 1 ELSE rev[RevKeyOf(k)].age
    OBVIOUS
  <2>1. PICK b \in Binding : b = rev[RevKeyOf(k)]
    BY <1>2
  <2>2. rev'[RevKeyOf(k)] = Older(b, limit[k.proto])
    BY <1>1, <1>2, <2>1
  <2>3. Older(b, limit[k.proto]).age = IF b.age < limit[k.proto] THEN b.age + 1 ELSE b.age
    BY DEF Older, Binding
  <2> QED
    BY <2>1, <2>2, <2>3
<1>4. Table' = [k \in DOMAIN fwd |-> Entry(fwd[k], rev'[RevKeyOf(k)].age)]
  BY <1>1 DEF Table, Entry, RevKeyOf
<1>5. \A k \in DOMAIN fwd :
        [Table[k] EXCEPT !.age = IF @ < limit[k.proto] THEN @ + 1 ELSE @] =
          Entry(fwd[k], rev'[RevKeyOf(k)].age)
  BY <1>3, TableIs DEF Entry
<1>6. Table' = [k \in DOMAIN Table |->
                 [Table[k] EXCEPT !.age = IF @ < limit[k.proto] THEN @ + 1 ELSE @]]
  BY <1>4, <1>5, TableIs
<1> QED
  BY <1>1, <1>6 DEF OneTable!Tick, limit

LEMMA LeaseImplements ==
  ASSUME ClearForward \/ \E port \in ForwardPorts : SetForward(port)
  PROVE  OneTable!Lease
<1>1. /\ forward' \in [host : {ForwardHost}, port : ForwardPorts] \cup {NoForward}
      /\ Plan = "leased" /\ fwd' = fwd /\ rev' = rev /\ out' = out
  BY DEF ClearForward, SetForward
<1> QED
  BY <1>1, SameTable DEF OneTable!Lease

\* A step of the NAT is a step of the table, or leaves it alone.
LEMMA NextImplements ==
  ASSUME TableInv, [Next]_vars
  PROVE  [OneTable!Next]_(OneTable!vars)
<1> USE DEF TableInv
<1>1. CASE TranslateOut
  <2>1. ASSUME NEW k \in Keys, NEW rst \in BOOLEAN, rst => k.proto = "tcp", OutKnown(k, rst)
        PROVE  OneTable!Next
    <3>1. fwd[k] \in Ports
      BY <2>1 DEF OutKnown, TypeOK, MapOK
    <3> QED
      BY <2>1, <3>1, OutKnownLeaves DEF OneTable!Next
  <2>2. ASSUME NEW k \in Keys, NEW rst \in BOOLEAN, rst => k.proto = "tcp", OutNew(k, rst)
        PROVE  OneTable!Next
    BY <2>2, OutNewLeaves DEF OneTable!Next
  <2>3. ASSUME NEW k \in Keys, OutExhausted(k) PROVE OneTable!Next
    BY <2>3, OutExhaustedRefuses DEF OneTable!Next
  <2>4. CASE OutStateless \/ \E k \in Keys : OutCone(k)
    BY <2>4, OthersPass DEF OneTable!Next
  <2> QED
    BY <1>1, <2>1, <2>2, <2>3, <2>4 DEF TranslateOut
<1>2. CASE TranslateIn
  <2>1. ASSUME NEW peer \in Peers, NEW id \in IpIds, NEW proto \in Protos, NEW port \in AllPorts,
               NEW more \in BOOLEAN, NEW rst \in BOOLEAN, rst => proto = "tcp",
               InBinding(peer, id, proto, port, more, rst)
        PROVE  OneTable!Next
    BY <2>1, InBindingArrives DEF OneTable!Next
  <2>2. ASSUME NEW proto \in Protos, NEW port \in AllPorts, InIcmpError(proto, port)
        PROVE  OneTable!Next
    BY <2>2, InIcmpErrorArrives DEF OneTable!Next
  <2>3. CASE \/ InDrop
             \/ \E peer \in Peers, id \in IpIds, proto \in Protos :
                  \/ InLaterFragment(peer, id, proto)
                  \/ \E port \in AllPorts, more \in BOOLEAN : InForward(peer, id, proto, port, more)
    BY <2>3, OthersPass DEF OneTable!Next
  <2> QED
    BY <1>2, <2>1, <2>2, <2>3 DEF TranslateIn
<1>3. CASE Expire
  BY <1>3, ExpireImplements DEF OneTable!Next
<1>4. CASE Tick
  BY <1>4, TickImplements DEF OneTable!Next
<1>5. CASE ClearForward \/ \E port \in ForwardPorts : SetForward(port)
  BY <1>5, LeaseImplements DEF OneTable!Next
<1>6. CASE UNCHANGED vars
  BY <1>6, SameTable DEF vars, OneTable!vars
<1> QED
  BY <1>1, <1>2, <1>3, <1>4, <1>5, <1>6 DEF Next

\* The NAT implements BindingTable: the two maps, the rotating cursor and the reset
\* and expiry of translate_out, translate_in, close and expire come to one bounded
\* table.
THEOREM NatIsOneTable == Spec => TableImplemented
<1>1. TableInv /\ [Next]_vars => [OneTable!Next]_(OneTable!vars)
  BY NextImplements
<1>2. Spec => []TableInv
  BY TypeCorrect, MapsStayInverse, TableStaysBounded, PTL DEF TableInv
<1> QED
  BY <1>1, <1>2, InitImplements, PTL DEF Spec, OneTable!Spec, TableImplemented
=============================================================================
