----------------------------- MODULE PeerArena ------------------------------
(***************************************************************************)
(* PeerArena of inspect.rs: a slab of host entries threaded on a doubly    *)
(* linked list, most recently seen at the head, with an index by address.  *)
(* An arena is a value; each operation maps it to the arena it leaves.     *)
(* Slots count from 1 and NIL is 0.  An entry's last_seen is left out: it  *)
(* is written by touch and read by nobody, the list carries the order.     *)
(***************************************************************************)
EXTENDS Integers, Sequences, FiniteSets

CONSTANTS
  ArenaCap,  \* PEER_ARENA
  IdMax      \* the largest id; the code's is 2^32 - 1

ASSUME ArenaAssumption == ArenaCap \in Nat \ {0} /\ IdMax \in Nat \ {0}

NIL == 0

EmptyArena ==
  [entries |-> <<>>, index |-> <<>>, head |-> NIL, tail |-> NIL, next_id |-> 1]

\* HashMap::insert
Insert(m, k, v) == [x \in DOMAIN m \cup {k} |-> IF x = k THEN v ELSE m[x]]

Known(a, ip) == ip \in DOMAIN a.index
Entry(a, ip) == a.entries[a.index[ip]]

\* An entry with its two links written.
Linked(e, prev, next) == [e EXCEPT !.prev = prev, !.next = next]

\* Mutant of Unlink: the tail is not moved when the last entry leaves.
UnlinkKeepsTail(a, i) ==
  LET p == a.entries[i].prev
      n == a.entries[i].next
  IN  [a EXCEPT
         !.head = IF p = NIL THEN n ELSE @,
         !.entries = [j \in DOMAIN a.entries |->
            Linked(a.entries[j],
                   IF j = i THEN NIL ELSE IF j = n THEN p ELSE a.entries[j].prev,
                   IF j = i THEN NIL ELSE IF j = p THEN n ELSE a.entries[j].next)]]

\* unlink: the neighbours of slot i, or the ends of the list, close the gap.
Unlink(a, i) ==
  LET p == a.entries[i].prev
      n == a.entries[i].next
  IN  [a EXCEPT
         !.head = IF p = NIL THEN n ELSE @,
         !.tail = IF n = NIL THEN p ELSE @,
         !.entries = [j \in DOMAIN a.entries |->
            Linked(a.entries[j],
                   IF j = i THEN NIL ELSE IF j = n THEN p ELSE a.entries[j].prev,
                   IF j = i THEN NIL ELSE IF j = p THEN n ELSE a.entries[j].next)]]

\* push_front
PushFront(a, i) ==
  LET old == a.head
  IN  [a EXCEPT
         !.head = i,
         !.tail = IF old = NIL THEN i ELSE @,
         !.entries = [j \in DOMAIN a.entries |->
            Linked(a.entries[j],
                   IF j = i THEN NIL ELSE IF j = old THEN i ELSE a.entries[j].prev,
                   IF j = i THEN old ELSE a.entries[j].next)]]

\* evict_tail: the slot it frees is a.tail.
EvictTail(a) ==
  LET ip == a.entries[a.tail].ip
  IN  [Unlink(a, a.tail) EXCEPT
         !.index = [h \in DOMAIN a.index \ {ip} |-> a.index[h]]]

Fresh(ip, id, fam) ==
  [ip |-> ip, id |-> id, families |-> fam, asn |-> "none", prev |-> NIL, next |-> NIL]

\* next_id.wrapping_add(1).max(1)
NextId(id) == IF id = IdMax THEN 1 ELSE id + 1

\* touch, for a host already known
Renew(a, ip, fam) ==
  LET i == a.index[ip]
      b == [a EXCEPT !.entries[i].families = @ \cup fam]
  IN  IF a.head = i THEN b ELSE PushFront(Unlink(b, i), i)

\* Mutant of Enter: the slot keeps what the evicted host had learnt.
EnterKeepsAsn(a, ip, fam) ==
  LET full == Cardinality(DOMAIN a.index) >= ArenaCap
      b == IF full THEN EvictTail(a) ELSE a
      i == IF full THEN a.tail ELSE Len(a.entries) + 1
      e == Fresh(ip, a.next_id, fam)
  IN  PushFront(
        [b EXCEPT !.entries =
                    IF full THEN [b.entries EXCEPT ![i] = [e EXCEPT !.asn = a.entries[i].asn]]
                            ELSE Append(b.entries, e),
                  !.index = Insert(b.index, ip, i),
                  !.next_id = NextId(b.next_id)], i)

\* touch, for a new host: it takes a new slot, or the one of the oldest host.
Enter(a, ip, fam) ==
  LET full == Cardinality(DOMAIN a.index) >= ArenaCap
      b == IF full THEN EvictTail(a) ELSE a
      i == IF full THEN a.tail ELSE Len(a.entries) + 1
      e == Fresh(ip, a.next_id, fam)
  IN  PushFront(
        [b EXCEPT !.entries = IF full THEN [b.entries EXCEPT ![i] = e]
                                      ELSE Append(b.entries, e),
                  !.index = Insert(b.index, ip, i),
                  !.next_id = NextId(b.next_id)], i)

Touch(a, ip, fam) == IF Known(a, ip) THEN Renew(a, ip, fam) ELSE Enter(a, ip, fam)

\* refresh: touch that never inserts.
Refresh(a, ip, fam) == IF Known(a, ip) THEN Touch(a, ip, fam) ELSE a

\* A host that has spoken uTP or DHT.
IsTorrenting(a, ip) == Known(a, ip) /\ Entry(a, ip).families # {}

\* The slot that follows slot i, if i is one.
After(a, i) == IF i = NIL THEN NIL ELSE a.entries[i].next

\* The slots met by following next from the head.  One step more than there are
\* slots, so that a list that runs in a circle shows.
Walk(a) ==
  LET at[k \in 1 .. Len(a.entries) + 1] ==
        IF k = 1 THEN a.head ELSE After(a, at[k - 1])
  IN  at

\* iter_mru, as slots: the walk up to its end.
Slots(a) ==
  LET at == Walk(a) IN SubSeq(at, 1, Cardinality({k \in DOMAIN at : at[k] # NIL}))

IterMru(a) == LET s == Slots(a) IN [k \in DOMAIN s |-> a.entries[s[k]].ip]
=============================================================================
