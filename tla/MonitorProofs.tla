---------------------------- MODULE MonitorProofs ----------------------------
(***************************************************************************)
(* Proofs about Monitor, for every set of packets and every capacity.      *)
(*                                                                         *)
(* The arena's slab, links and index are one list of distinct hosts in     *)
(* order of recency (Good), in which the hosts of the live flows come      *)
(* first (HostsInOrder).  From there: what is known of a host's network is *)
(* its own (NetworksAreOwn), a tick unmasks every torrent                  *)
(* (TorrentsAreUnmasked), a live host keeps its row and its id as long as  *)
(* ids last (LiveHostsAreKept), the monitor implements HostMemory          *)
(* (MemoryIsImplemented), and the totals are those of the rows             *)
(* (TotalsAreOfRows).                                                      *)
(***************************************************************************)
EXTENDS Monitor, FiniteSetTheorems, Induction, TLAPS

-----------------------------------------------------------------------------
(* Sequences                                                               *)

\* One element is put in front.
LEMMA FrontFacts ==
  ASSUME NEW S, NEW s \in Seq(S), NEW e \in S
  PROVE  /\ <<e>> \o s \in Seq(S)
         /\ Len(<<e>> \o s) = Len(s) + 1
         /\ (<<e>> \o s)[1] = e
         /\ \A j \in 2 .. Len(s) + 1 : (<<e>> \o s)[j] = s[j - 1]
OBVIOUS

\* One element is taken out.
LEMMA RemoveAtFacts ==
  ASSUME NEW S, NEW s \in Seq(S), NEW k \in 1 .. Len(s)
  PROVE  /\ RemoveAt(s, k) \in Seq(S)
         /\ Len(RemoveAt(s, k)) = Len(s) - 1
         /\ \A j \in 1 .. Len(s) - 1 :
              RemoveAt(s, k)[j] = IF j < k THEN s[j] ELSE s[j + 1]
<1>1. PICK u : u = SubSeq(s, 1, k - 1)
  OBVIOUS
<1>2. PICK v : v = SubSeq(s, k + 1, Len(s))
  OBVIOUS
<1>3. u \in Seq(S) /\ Len(u) = k - 1 /\ \A j \in 1 .. k - 1 : u[j] = s[j]
  BY <1>1
<1>4. v \in Seq(S) /\ Len(v) = Len(s) - k /\ \A j \in 1 .. Len(s) - k : v[j] = s[k + j]
  BY <1>2
<1>5. RemoveAt(s, k) = u \o v
  BY <1>1, <1>2 DEF RemoveAt
<1>6. u \o v \in Seq(S) /\ Len(u \o v) = Len(s) - 1
  BY <1>3, <1>4
<1>7. ASSUME NEW j \in 1 .. Len(s) - 1
      PROVE  (u \o v)[j] = IF j < k THEN s[j] ELSE s[j + 1]
  <2>1. CASE j < k
    BY <1>3, <1>4, <2>1
  <2>2. CASE ~(j < k)
    <3>1. (u \o v)[j] = v[j - (k - 1)] /\ j - (k - 1) \in 1 .. Len(s) - k
      BY <1>3, <1>4, <2>2
    <3> QED
      BY <1>4, <2>2, <3>1
  <2> QED
    BY <2>1, <2>2
<1> QED
  BY <1>5, <1>6, <1>7

LEMMA SeqIsFunction ==
  ASSUME NEW S, NEW s \in Seq(S)
  PROVE  s \in [1 .. Len(s) -> S] /\ Len(s) \in Nat
OBVIOUS

\* c is a, of m elements, followed by b, of n.
Joins(c, m, n, a, b) ==
  /\ DOMAIN a = 1 .. m /\ DOMAIN b = 1 .. n /\ DOMAIN c = 1 .. m + n
  /\ \A i \in 1 .. m : c[i] = a[i]
  /\ \A i \in 1 .. n : c[m + i] = b[i]

LEMMA JoinedFacts ==
  ASSUME NEW S, NEW a \in Seq(S), NEW b \in Seq(S)
  PROVE  /\ a \o b \in Seq(S) /\ Len(a \o b) = Len(a) + Len(b)
         /\ Joins(a \o b, Len(a), Len(b), a, b)
BY DEF Joins

\* A sequence is cut in two.
LEMMA CutFacts ==
  ASSUME NEW S, NEW c \in Seq(S), NEW e \in Nat, NEW d \in Nat, Len(c) = e + d,
         NEW u, u = SubSeq(c, 1, e), NEW v, v = SubSeq(c, e + 1, Len(c))
  PROVE  u \in Seq(S) /\ v \in Seq(S) /\ Joins(c, e, d, u, v)
<1>1. u \in Seq(S) /\ Len(u) = e
  OBVIOUS
<1>2. v \in Seq(S) /\ Len(v) = d
  OBVIOUS
<1>3. \A i \in 1 .. e : c[i] = u[i]
  OBVIOUS
<1>4. \A i \in 1 .. d : c[e + i] = v[i]
  OBVIOUS
<1>5. DOMAIN u = 1 .. e
  BY <1>1, SeqIsFunction
<1>6. DOMAIN v = 1 .. d
  BY <1>2, SeqIsFunction
<1>7. DOMAIN c = 1 .. e + d
  BY SeqIsFunction
<1> QED
  BY <1>1, <1>2, <1>3, <1>4, <1>5, <1>6, <1>7 DEF Joins

-----------------------------------------------------------------------------
(* The list in the arena                                                   *)

Host == {p.remote : p \in AllPackets}
Asns == {"none"} \cup {Block[h] : h \in Host}

Families == SUBSET {"Utp", "Dht"}

EntryRec == [ip : Host, id : Nat, families : Families, asn : Asns,
             prev : Nat, next : Nat]
ArenaRec == [entries : Seq(EntryRec), index : UNION {[D -> Nat] : D \in SUBSET Host},
             head : Nat, tail : Nat, next_id : Nat]

\* The n slots in s, in their order, are the list that the links of a make.
Threaded(a, s, n) ==
  /\ n \in Nat /\ s \in [1 .. n -> 1 .. Len(a.entries)]
  /\ \A i, j \in 1 .. n : s[i] = s[j] => i = j
  /\ a.head = IF n = 0 THEN NIL ELSE s[1]
  /\ a.tail = IF n = 0 THEN NIL ELSE s[n]
  /\ \A k \in 1 .. n :
       /\ a.entries[s[k]].next = IF k = n THEN NIL ELSE s[k + 1]
       /\ a.entries[s[k]].prev = IF k = 1 THEN NIL ELSE s[k - 1]

\* s, of n slots, without its k-th, and with slot i in front.
Dropped(s, n, k) == [j \in 1 .. n - 1 |-> IF j < k THEN s[j] ELSE s[j + 1]]
Pushed(s, n, i) == [j \in 1 .. n + 1 |-> IF j = 1 THEN i ELSE s[j - 1]]

\* The entries of a and b differ in their links alone.
SameHosts(a, b) ==
  /\ b.index = a.index /\ b.next_id = a.next_id
  /\ Len(b.entries) = Len(a.entries)
  /\ \A i \in 1 .. Len(a.entries) :
       /\ b.entries[i].ip = a.entries[i].ip /\ b.entries[i].id = a.entries[i].id
       /\ b.entries[i].families = a.entries[i].families
       /\ b.entries[i].asn = a.entries[i].asn

\* What unlink writes.
LEMMA UnlinkFields ==
  ASSUME NEW a \in ArenaRec, NEW i \in 1 .. Len(a.entries)
  PROVE  LET b == Unlink(a, i)
             p == a.entries[i].prev
             n == a.entries[i].next
         IN  /\ b \in ArenaRec /\ SameHosts(a, b)
             /\ b.head = IF p = NIL THEN n ELSE a.head
             /\ b.tail = IF n = NIL THEN p ELSE a.tail
             /\ \A j \in 1 .. Len(a.entries) :
                  /\ b.entries[j].next = IF j = i THEN NIL ELSE IF j = p THEN n
                                         ELSE a.entries[j].next
                  /\ b.entries[j].prev = IF j = i THEN NIL ELSE IF j = n THEN p
                                         ELSE a.entries[j].prev
<1> DEFINE E == a.entries
           p == a.entries[i].prev
           n == a.entries[i].next
           h == IF p = NIL THEN n ELSE a.head
           t == IF n = NIL THEN p ELSE a.tail
           link(j) == Linked(E[j], IF j = i THEN NIL ELSE IF j = n THEN p ELSE E[j].prev,
                                   IF j = i THEN NIL ELSE IF j = p THEN n ELSE E[j].next)
           F == [j \in DOMAIN E |-> link(j)]
           b == Unlink(a, i)
<1>1. b = [a EXCEPT !.head = h, !.tail = t, !.entries = F]
  BY DEF Unlink
<1>2. E \in Seq(EntryRec) /\ DOMAIN E = 1 .. Len(E) /\ a.head \in Nat /\ a.tail \in Nat
  BY DEF ArenaRec
<1>3. E[i] \in EntryRec
  BY <1>2
<1>4. p \in Nat /\ n \in Nat
  BY <1>3 DEF EntryRec
<1>5. h \in Nat /\ t \in Nat
  BY <1>2, <1>4
<1> HIDE DEF E, p, n, h, t, b
<1>6. ASSUME NEW j \in 1 .. Len(E)
      PROVE  /\ link(j) \in EntryRec
             /\ link(j).next = IF j = i THEN NIL ELSE IF j = p THEN n ELSE E[j].next
             /\ link(j).prev = IF j = i THEN NIL ELSE IF j = n THEN p ELSE E[j].prev
             /\ link(j).ip = E[j].ip /\ link(j).id = E[j].id
             /\ link(j).families = E[j].families /\ link(j).asn = E[j].asn
  <2>1. E[j] \in EntryRec
    BY <1>2
  <2> QED
    BY <1>4, <2>1 DEF EntryRec, NIL, Linked
<1> HIDE DEF link
<1>7. F \in Seq(EntryRec) /\ Len(F) = Len(E) /\ \A j \in 1 .. Len(E) : F[j] = link(j)
  BY <1>2, <1>6
<1> HIDE DEF F
<1>8. /\ b \in ArenaRec /\ b.entries = F /\ b.index = a.index /\ b.next_id = a.next_id
      /\ b.head = h /\ b.tail = t
  BY <1>1, <1>5, <1>7 DEF ArenaRec
<1>9. SameHosts(a, b)
  BY <1>6, <1>7, <1>8 DEF SameHosts, E
<1>10. \A j \in 1 .. Len(a.entries) :
         /\ b.entries[j].next = IF j = i THEN NIL ELSE IF j = p THEN n ELSE a.entries[j].next
         /\ b.entries[j].prev = IF j = i THEN NIL ELSE IF j = n THEN p ELSE a.entries[j].prev
  BY <1>6, <1>7, <1>8 DEF E
<1>11. b.head = (IF p = NIL THEN n ELSE a.head) /\ b.tail = (IF n = NIL THEN p ELSE a.tail)
  BY <1>8 DEF h, t
<1> QED
  BY <1>8, <1>9, <1>10, <1>11 DEF b, p, n

\* What push_front writes.
LEMMA PushFrontFields ==
  ASSUME NEW a \in ArenaRec, NEW i \in 1 .. Len(a.entries)
  PROVE  LET b == PushFront(a, i)
         IN  /\ b \in ArenaRec /\ SameHosts(a, b)
             /\ b.head = i
             /\ b.tail = IF a.head = NIL THEN i ELSE a.tail
             /\ \A j \in 1 .. Len(a.entries) :
                  /\ b.entries[j].next = IF j = i THEN a.head ELSE a.entries[j].next
                  /\ b.entries[j].prev = IF j = i THEN NIL ELSE IF j = a.head THEN i
                                         ELSE a.entries[j].prev
<1> DEFINE E == a.entries
           old == a.head
           t == IF old = NIL THEN i ELSE a.tail
           link(j) == Linked(E[j], IF j = i THEN NIL ELSE IF j = old THEN i ELSE E[j].prev,
                                   IF j = i THEN old ELSE E[j].next)
           F == [j \in DOMAIN E |-> link(j)]
           b == PushFront(a, i)
<1>1. b = [a EXCEPT !.head = i, !.tail = t, !.entries = F]
  BY DEF PushFront
<1>2. E \in Seq(EntryRec) /\ DOMAIN E = 1 .. Len(E) /\ old \in Nat /\ a.tail \in Nat
  BY DEF ArenaRec
<1>3. i \in Nat /\ t \in Nat
  BY <1>2
<1> HIDE DEF E, old, t, b
<1>4. ASSUME NEW j \in 1 .. Len(E)
      PROVE  /\ link(j) \in EntryRec
             /\ link(j).next = IF j = i THEN old ELSE E[j].next
             /\ link(j).prev = IF j = i THEN NIL ELSE IF j = old THEN i ELSE E[j].prev
             /\ link(j).ip = E[j].ip /\ link(j).id = E[j].id
             /\ link(j).families = E[j].families /\ link(j).asn = E[j].asn
  <2>1. E[j] \in EntryRec
    BY <1>2
  <2> QED
    BY <1>2, <1>3, <2>1 DEF EntryRec, NIL, Linked
<1> HIDE DEF link
<1>5. F \in Seq(EntryRec) /\ Len(F) = Len(E) /\ \A j \in 1 .. Len(E) : F[j] = link(j)
  BY <1>2, <1>4
<1> HIDE DEF F
<1>6. /\ b \in ArenaRec /\ b.entries = F /\ b.index = a.index /\ b.next_id = a.next_id
      /\ b.head = i /\ b.tail = t
  BY <1>1, <1>3, <1>5 DEF ArenaRec
<1>7. SameHosts(a, b)
  BY <1>4, <1>5, <1>6 DEF SameHosts, E
<1>8. \A j \in 1 .. Len(a.entries) :
        /\ b.entries[j].next = IF j = i THEN old ELSE a.entries[j].next
        /\ b.entries[j].prev = IF j = i THEN NIL ELSE IF j = old THEN i ELSE a.entries[j].prev
  BY <1>4, <1>5, <1>6 DEF E
<1>9. b.tail = IF old = NIL THEN i ELSE a.tail
  BY <1>6 DEF t
<1> QED
  BY <1>6, <1>7, <1>8, <1>9 DEF b, old

\* unlink takes one slot out of the list.
LEMMA UnlinkThreaded ==
  ASSUME NEW a \in ArenaRec, NEW s, NEW n, Threaded(a, s, n), NEW k \in 1 .. n
  PROVE  /\ Unlink(a, s[k]) \in ArenaRec /\ SameHosts(a, Unlink(a, s[k]))
         /\ Threaded(Unlink(a, s[k]), Dropped(s, n, k), n - 1)
<1> DEFINE N == Len(a.entries)
           i == s[k]
           b == Unlink(a, i)
           t == Dropped(s, n, k)
           p == a.entries[i].prev
           q == a.entries[i].next
<1>1. /\ s \in [1 .. n -> 1 .. N] /\ i \in 1 .. N /\ n \in Nat /\ N \in Nat
  BY DEF Threaded, ArenaRec
<1>2. /\ b \in ArenaRec /\ SameHosts(a, b)
      /\ b.head = IF p = NIL THEN q ELSE a.head
      /\ b.tail = IF q = NIL THEN p ELSE a.tail
      /\ \A j \in 1 .. N :
           /\ b.entries[j].next = IF j = i THEN NIL ELSE IF j = p THEN q ELSE a.entries[j].next
           /\ b.entries[j].prev = IF j = i THEN NIL ELSE IF j = q THEN p ELSE a.entries[j].prev
  BY SMTT(30), <1>1, UnlinkFields
<1>3. Len(b.entries) = N
  BY <1>2 DEF SameHosts
<1>4. /\ p = IF k = 1 THEN NIL ELSE s[k - 1]
      /\ q = IF k = n THEN NIL ELSE s[k + 1]
  BY DEF Threaded
<1>5. /\ \A j, m \in 1 .. n : s[j] = s[m] => j = m
      /\ a.head = s[1] /\ a.tail = s[n]
      /\ \A j \in 1 .. n :
           /\ a.entries[s[j]].next = IF j = n THEN NIL ELSE s[j + 1]
           /\ a.entries[s[j]].prev = IF j = 1 THEN NIL ELSE s[j - 1]
  BY <1>1 DEF Threaded
<1>6. t \in [1 .. n - 1 -> 1 .. N] /\ \A j \in 1 .. n - 1 : t[j] = IF j < k THEN s[j] ELSE s[j + 1]
  BY <1>1 DEF Dropped
<1> HIDE DEF b, t, p, q, i, N
<1> USE DEF i, NIL
<1>12. ASSUME NEW j \in 1 .. n - 1
       PROVE  /\ j < k => j \in 1 .. n /\ t[j] = s[j]
              /\ ~(j < k) => j + 1 \in 1 .. n /\ t[j] = s[j + 1]
  BY <1>1, <1>6
<1>7. ASSUME NEW j \in 1 .. n - 1, NEW m \in 1 .. n - 1, t[j] = t[m] PROVE j = m
  <2> DEFINE u == IF j < k THEN j ELSE j + 1
             v == IF m < k THEN m ELSE m + 1
  <2>1. u \in 1 .. n /\ v \in 1 .. n /\ s[u] = s[v]
    BY <1>7, <1>12
  <2>2. u = v => j = m
    BY <1>1
  <2> HIDE DEF u, v
  <2> QED
    BY <1>5, <2>1, <2>2
<1>8. b.head = IF n - 1 = 0 THEN NIL ELSE t[1]
  BY SMTT(30), <1>1, <1>2, <1>4, <1>5, <1>6
<1>9. b.tail = IF n - 1 = 0 THEN NIL ELSE t[n - 1]
  BY <1>1, <1>2, <1>4, <1>5, <1>6
<1>10. ASSUME NEW j \in 1 .. n - 1
       PROVE  /\ b.entries[t[j]].next = IF j = n - 1 THEN NIL ELSE t[j + 1]
              /\ b.entries[t[j]].prev = IF j = 1 THEN NIL ELSE t[j - 1]
  <2>1. t[j] # i /\ t[j] \in 1 .. N
    <3>1. CASE j < k
      BY <1>1, <1>5, <1>6, <1>12, <3>1
    <3>2. CASE ~(j < k)
      <4>1. t[j] = s[j + 1] /\ j + 1 \in 1 .. n /\ j + 1 # k
        BY <1>12, <3>2
      <4> QED
        BY <1>1, <1>5, <1>6, <4>1
    <3> QED
      BY <3>1, <3>2
  <2>2. b.entries[t[j]].next = IF j = n - 1 THEN NIL ELSE t[j + 1]
    <3>1. b.entries[t[j]].next = IF t[j] = p THEN q ELSE a.entries[t[j]].next
      BY <1>2, <2>1
    <3>2. CASE j < k - 1
      <4>1. /\ t[j] = s[j] /\ j \in 1 .. n /\ j + 1 \in 1 .. n - 1 /\ t[j + 1] = s[j + 1]
            /\ k - 1 \in 1 .. n /\ j # k - 1 /\ j # n /\ j # n - 1 /\ k # 1
        BY <1>1, <1>6, <1>12, <3>2
      <4>2. t[j] # p
        BY <1>4, <1>5, <4>1
      <4> QED
        BY <1>5, <3>1, <4>1, <4>2
    <3>3. CASE j = k - 1
      BY <1>1, <1>4, <1>5, <1>6, <3>1, <3>3
    <3>4. CASE j > k - 1
      <4>1. /\ t[j] = s[j + 1] /\ j + 1 \in 1 .. n /\ k - 1 # j + 1
            /\ k # 1 => k - 1 \in 1 .. n
            /\ j # n - 1 => (t[j + 1] = s[j + 2] /\ j + 1 # n)
        BY <1>1, <1>6, <1>12, <3>4
      <4>2. t[j] # p
        BY SMTT(30), <1>1, <1>4, <1>5, <4>1
      <4>3. a.entries[t[j]].next = IF j + 1 = n THEN NIL ELSE s[(j + 1) + 1]
        BY <1>5, <4>1
      <4> QED
        BY <1>1, <3>1, <4>1, <4>2, <4>3
    <3> QED
      BY <1>1, <1>6, <3>2, <3>3, <3>4
  <2>3. b.entries[t[j]].prev = IF j = 1 THEN NIL ELSE t[j - 1]
    <3>1. b.entries[t[j]].prev = IF t[j] = q THEN p ELSE a.entries[t[j]].prev
      BY <1>2, <2>1
    <3>2. CASE j < k
      <4>1. /\ t[j] = s[j] /\ j \in 1 .. n /\ k + 1 # j
            /\ k # n => k + 1 \in 1 .. n
            /\ j # 1 => t[j - 1] = s[j - 1]
        BY <1>1, <1>6, <1>12, <3>2
      <4>2. t[j] # q
        BY <1>1, <1>4, <1>5, <4>1
      <4> QED
        BY <1>5, <3>1, <4>1, <4>2
    <3>3. CASE j = k
      BY <1>1, <1>4, <1>5, <1>6, <3>1, <3>3
    <3>4. CASE j > k
      <4>1. /\ t[j] = s[j + 1] /\ j + 1 \in 1 .. n /\ j + 1 # k + 1 /\ j # 1
            /\ k # n => k + 1 \in 1 .. n
            /\ t[j - 1] = s[j]
        BY <1>1, <1>6, <1>12, <3>4
      <4>2. t[j] # q
        <5>1. CASE k = n
          BY <1>1, <1>4, <2>1, <5>1
        <5>2. CASE k # n
          <6>1. q = s[k + 1] /\ k + 1 \in 1 .. n
            BY <1>4, <4>1, <5>2
          <6> QED
            BY <1>5, <4>1, <6>1
        <5> QED
          BY <5>1, <5>2
      <4>3. a.entries[t[j]].prev = IF j + 1 = 1 THEN NIL ELSE s[(j + 1) - 1]
        BY <1>5, <4>1
      <4> QED
        BY <1>1, <3>1, <4>1, <4>2, <4>3
    <3> QED
      BY <1>1, <1>6, <3>2, <3>3, <3>4
  <2> QED
    BY <2>2, <2>3
<1>13. n - 1 \in Nat /\ t \in [1 .. n - 1 -> 1 .. Len(b.entries)]
  BY <1>1, <1>3, <1>6
<1>14. \A j, m \in 1 .. n - 1 : t[j] = t[m] => j = m
  BY <1>7
<1>11. Threaded(b, t, n - 1)
  BY <1>8, <1>9, <1>10, <1>13, <1>14 DEF Threaded
<1> QED
  BY <1>2, <1>11 DEF b, t

\* push_front puts a slot that is not in the list at its head.
LEMMA PushFrontThreaded ==
  ASSUME NEW a \in ArenaRec, NEW s, NEW n, Threaded(a, s, n),
         NEW i \in 1 .. Len(a.entries), \A k \in 1 .. n : s[k] # i
  PROVE  /\ PushFront(a, i) \in ArenaRec /\ SameHosts(a, PushFront(a, i))
         /\ Threaded(PushFront(a, i), Pushed(s, n, i), n + 1)
<1> DEFINE N == Len(a.entries)
           b == PushFront(a, i)
           t == Pushed(s, n, i)
           old == a.head
<1>1. s \in [1 .. n -> 1 .. N] /\ n \in Nat /\ N \in Nat
  BY DEF Threaded, ArenaRec
<1>2. /\ b \in ArenaRec /\ SameHosts(a, b)
      /\ b.head = i
      /\ b.tail = IF old = NIL THEN i ELSE a.tail
      /\ \A j \in 1 .. N :
           /\ b.entries[j].next = IF j = i THEN old ELSE a.entries[j].next
           /\ b.entries[j].prev = IF j = i THEN NIL ELSE IF j = old THEN i
                                  ELSE a.entries[j].prev
  BY PushFrontFields
<1>3. Len(b.entries) = N
  BY <1>2 DEF SameHosts
<1>4. /\ \A j, m \in 1 .. n : s[j] = s[m] => j = m
      /\ old = IF n = 0 THEN NIL ELSE s[1]
      /\ a.tail = IF n = 0 THEN NIL ELSE s[n]
      /\ \A j \in 1 .. n :
           /\ a.entries[s[j]].next = IF j = n THEN NIL ELSE s[j + 1]
           /\ a.entries[s[j]].prev = IF j = 1 THEN NIL ELSE s[j - 1]
  BY <1>1 DEF Threaded
<1>5. /\ t \in [1 .. n + 1 -> 1 .. N] /\ t[1] = i
      /\ \A j \in 2 .. n + 1 : t[j] = s[j - 1]
  BY <1>1 DEF Pushed
<1> HIDE DEF b, t, old, N
<1> USE DEF NIL
<1>6. \A j, m \in 1 .. n + 1 : t[j] = t[m] => j = m
  <2> SUFFICES ASSUME NEW j \in 1 .. n + 1, NEW m \in 1 .. n + 1, t[j] = t[m]
               PROVE  j = m
    OBVIOUS
  <2>1. CASE j = 1 \/ m = 1
    BY <1>1, <1>5, <2>1
  <2>2. CASE j # 1 /\ m # 1
    <3>1. j \in 2 .. n + 1 /\ m \in 2 .. n + 1 /\ j - 1 \in 1 .. n /\ m - 1 \in 1 .. n
      BY <1>1, <1>5, <2>2
    <3> QED
      BY <1>1, <1>4, <1>5, <3>1
  <2> QED
    BY <2>1, <2>2
<1>7. b.head = t[1] /\ b.tail = t[n + 1]
  BY <1>1, <1>2, <1>4, <1>5
<1>8. ASSUME NEW j \in 1 .. n + 1
      PROVE  /\ b.entries[t[j]].next = IF j = n + 1 THEN NIL ELSE t[j + 1]
             /\ b.entries[t[j]].prev = IF j = 1 THEN NIL ELSE t[j - 1]
  <2>1. t[j] \in 1 .. N
    BY <1>5
  <2>2. CASE j = 1
    BY <1>1, <1>2, <1>4, <1>5, <2>1, <2>2
  <2>3. CASE j # 1
    <3>1. j - 1 \in 1 .. n /\ j \in 2 .. n + 1 /\ t[j] = s[j - 1] /\ t[j] # i
      BY <1>1, <1>5, <2>3
    <3>2. b.entries[t[j]].next = a.entries[s[j - 1]].next
      BY <1>2, <2>1, <3>1
    <3>3. b.entries[t[j]].next = IF j = n + 1 THEN NIL ELSE t[j + 1]
      BY <1>1, <1>4, <1>5, <3>1, <3>2
    <3>4. b.entries[t[j]].prev = IF t[j] = old THEN i ELSE a.entries[s[j - 1]].prev
      BY <1>2, <2>1, <3>1
    <3>5. CASE j = 2
      BY <1>1, <1>4, <1>5, <3>1, <3>3, <3>4, <3>5
    <3>6. CASE j # 2
      <4>1. j - 2 \in 1 .. n /\ t[j - 1] = s[j - 2] /\ s[j - 1] # s[1]
        BY SMTT(30), <1>1, <1>4, <1>5, <2>3, <3>1, <3>6
      <4> QED
        BY SMTT(30), <1>1, <1>4, <1>5, <3>1, <3>3, <3>4, <3>6, <4>1
    <3> QED
      BY <3>5, <3>6
  <2> QED
    BY <2>2, <2>3
<1>9. Threaded(b, t, n + 1)
  BY <1>1, <1>3, <1>5, <1>6, <1>7, <1>8 DEF Threaded
<1> QED
  BY <1>2, <1>9 DEF b, t

-----------------------------------------------------------------------------
(* A whole arena                                                           *)

\* Every slot holds one host, the index leads to it, and s is the list of all of
\* them.
Indexed(a) ==
  /\ \A i \in 1 .. Len(a.entries) :
       a.entries[i].ip \in DOMAIN a.index /\ a.index[a.entries[i].ip] = i
  /\ \A h \in DOMAIN a.index :
       a.index[h] \in 1 .. Len(a.entries) /\ a.entries[a.index[h]].ip = h

Good(a, s) ==
  /\ a \in ArenaRec
  /\ Threaded(a, s, Len(a.entries))
  /\ \A i \in 1 .. Len(a.entries) : \E k \in 1 .. Len(a.entries) : s[k] = i
  /\ Indexed(a)
  /\ Len(a.entries) <= ArenaCap

\* The hosts in the order of s.
HostOrder(a, s) == [k \in 1 .. Len(a.entries) |-> a.entries[s[k]].ip]

\* s, of n slots, with its k-th moved to the front.
MovedUp(s, n, k) == Pushed(Dropped(s, n, k), n - 1, s[k])

LEMMA MovedUpFacts ==
  ASSUME NEW n \in Nat, NEW s, NEW k \in 1 .. n
  PROVE  MovedUp(s, n, k) =
           [j \in 1 .. n |-> IF j = 1 THEN s[k] ELSE IF j <= k THEN s[j - 1] ELSE s[j]]
<1>1. MovedUp(s, n, k) =
        [j \in 1 .. (n - 1) + 1 |-> IF j = 1 THEN s[k] ELSE Dropped(s, n, k)[j - 1]]
  BY DEF MovedUp, Pushed
<1>2. (n - 1) + 1 = n
  OBVIOUS
<1>3. \A j \in 1 .. n - 1 : Dropped(s, n, k)[j] = IF j < k THEN s[j] ELSE s[j + 1]
  BY DEF Dropped
<1>4. ASSUME NEW j \in 1 .. n, j # 1
      PROVE  Dropped(s, n, k)[j - 1] = IF j <= k THEN s[j - 1] ELSE s[j]
  <2>1. j - 1 \in 1 .. n - 1 /\ (j - 1) + 1 = j /\ (j - 1 < k <=> j <= k)
    BY <1>4
  <2> QED
    BY <1>3, <2>1
<1> QED
  BY <1>1, <1>2, <1>4

\* Moving a slot up keeps the set of slots.
LEMMA MovedUpOnto ==
  ASSUME NEW n \in Nat, NEW s, NEW k \in 1 .. n, NEW m \in 1 .. n
  PROVE  \E j \in 1 .. n : MovedUp(s, n, k)[j] = s[m]
<1>0. \A j \in 1 .. n : MovedUp(s, n, k)[j] =
                          IF j = 1 THEN s[k] ELSE IF j <= k THEN s[j - 1] ELSE s[j]
  BY SMTT(30), MovedUpFacts
<1>1. CASE m = k
  <2>1. 1 \in 1 .. n
    OBVIOUS
  <2> QED
    BY <1>0, <1>1, <2>1
<1>2. CASE m < k
  <2>1. m + 1 \in 1 .. n /\ m + 1 # 1 /\ m + 1 <= k /\ (m + 1) - 1 = m
    BY <1>2
  <2>2. MovedUp(s, n, k)[m + 1] = s[(m + 1) - 1]
    BY <1>0, <2>1
  <2> QED
    BY <2>1, <2>2
<1>3. CASE m > k
  <2>1. m # 1 /\ ~(m <= k)
    BY <1>3
  <2> QED
    BY <1>0, <2>1
<1> QED
  BY <1>1, <1>2, <1>3

\* The same entries and index under other links.
LEMMA IndexedKept ==
  ASSUME NEW a, NEW b, SameHosts(a, b), Indexed(a)
  PROVE  Indexed(b)
<1>1. /\ b.index = a.index /\ Len(b.entries) = Len(a.entries)
      /\ \A i \in 1 .. Len(a.entries) : b.entries[i].ip = a.entries[i].ip
  BY DEF SameHosts
<1>2. /\ \A i \in 1 .. Len(a.entries) :
           a.entries[i].ip \in DOMAIN a.index /\ a.index[a.entries[i].ip] = i
      /\ \A h \in DOMAIN a.index :
           a.index[h] \in 1 .. Len(a.entries) /\ a.entries[a.index[h]].ip = h
  BY DEF Indexed
<1>3. ASSUME NEW i \in 1 .. Len(b.entries)
      PROVE  b.entries[i].ip \in DOMAIN b.index /\ b.index[b.entries[i].ip] = i
  BY <1>1, <1>2
<1>4. ASSUME NEW h \in DOMAIN b.index
      PROVE  b.index[h] \in 1 .. Len(b.entries) /\ b.entries[b.index[h]].ip = h
  BY <1>1, <1>2
<1> QED
  BY <1>3, <1>4 DEF Indexed

\* b differs from a in its links, and in the families of ip, which gained fam.
Relearnt(a, b, ip, fam) ==
  /\ Len(b.entries) = Len(a.entries) /\ b.index = a.index /\ b.next_id = a.next_id
  /\ \A i \in 1 .. Len(a.entries) :
       /\ b.entries[i].ip = a.entries[i].ip /\ b.entries[i].id = a.entries[i].id
       /\ b.entries[i].asn = a.entries[i].asn
       /\ b.entries[i].families = IF i = a.index[ip] THEN a.entries[i].families \cup fam
                                  ELSE a.entries[i].families

\* touch of a known host: its slot moves up, and it learns of the families.
LEMMA RenewGood ==
  ASSUME NEW a, NEW s, Good(a, s), NEW ip \in DOMAIN a.index,
         NEW fam \in Families, NEW b, b = Renew(a, ip, fam)
  PROVE  /\ Relearnt(a, b, ip, fam)
         /\ \E k \in 1 .. Len(a.entries) :
              HostOrder(a, s)[k] = ip /\ Good(b, MovedUp(s, Len(a.entries), k))
<1> DEFINE N == Len(a.entries)
           i == a.index[ip]
           c == [a EXCEPT !.entries[i].families = @ \cup fam]
<1>1. /\ a \in ArenaRec /\ Threaded(a, s, N) /\ Indexed(a) /\ N <= ArenaCap
      /\ i \in 1 .. N /\ a.entries[i].ip = ip
  BY DEF Good, Indexed
<1>2. PICK k \in 1 .. N : s[k] = i
  BY <1>1 DEF Good
<1>3. N \in Nat /\ s \in [1 .. N -> 1 .. N] /\ a.entries \in Seq(EntryRec)
  BY <1>1 DEF Threaded, ArenaRec
<1> HIDE DEF i
<1>4. /\ c \in ArenaRec /\ c.index = a.index /\ c.next_id = a.next_id
      /\ c.head = a.head /\ c.tail = a.tail /\ Len(c.entries) = N
      /\ \A j \in 1 .. N :
           /\ c.entries[j].ip = a.entries[j].ip /\ c.entries[j].id = a.entries[j].id
           /\ c.entries[j].asn = a.entries[j].asn
           /\ c.entries[j].prev = a.entries[j].prev /\ c.entries[j].next = a.entries[j].next
           /\ c.entries[j].families = IF j = i THEN a.entries[j].families \cup fam
                                      ELSE a.entries[j].families
  <2>1. a.entries[i] \in EntryRec
    BY <1>1, <1>3
  <2>2. PICK e : e = [a.entries[i] EXCEPT !.families = a.entries[i].families \cup fam]
    OBVIOUS
  <2>3. /\ e \in EntryRec /\ e.ip = a.entries[i].ip /\ e.id = a.entries[i].id
        /\ e.asn = a.entries[i].asn /\ e.prev = a.entries[i].prev
        /\ e.next = a.entries[i].next /\ e.families = a.entries[i].families \cup fam
    BY <2>1, <2>2 DEF EntryRec, Families
  <2>4. PICK F : F = [a.entries EXCEPT ![i] = e]
    OBVIOUS
  <2>5. F \in Seq(EntryRec) /\ Len(F) = N /\ \A j \in 1 .. N : F[j] = IF j = i THEN e ELSE a.entries[j]
    BY <1>1, <1>3, <2>3, <2>4
  <2>6. c = [a EXCEPT !.entries = F]
    BY <2>2, <2>4
  <2>7. /\ c \in ArenaRec /\ c.entries = F /\ c.index = a.index /\ c.next_id = a.next_id
        /\ c.head = a.head /\ c.tail = a.tail
    BY <1>1, <2>5, <2>6 DEF ArenaRec
  <2> HIDE DEF c, N
  <2> QED
    BY <1>1, <2>3, <2>5, <2>7
<1>5. b = IF a.head = i THEN c ELSE PushFront(Unlink(c, i), i)
  BY DEF Renew, i
<1> HIDE DEF c, N
<1>6. Threaded(c, s, N) /\ Indexed(c)
  <2>2. Len(a.entries) = N
    BY DEF N
  <2>4. \A j \in 1 .. N : c.entries[s[j]].prev = a.entries[s[j]].prev
                         /\ c.entries[s[j]].next = a.entries[s[j]].next
    BY <1>3, <1>4
  <2>5. c.head = a.head /\ c.tail = a.tail /\ Len(c.entries) = Len(a.entries)
    BY <1>4, <2>2
  <2>1. Threaded(c, s, N)
    BY <1>1, <2>4, <2>5 DEF Threaded
  <2>6. c.index = a.index /\ \A j \in 1 .. Len(a.entries) : c.entries[j].ip = a.entries[j].ip
    BY <1>4, <2>2
  <2>3. Indexed(c)
    BY ZenonT(30), <1>1, <2>5, <2>6 DEF Indexed
  <2> QED
    BY <2>1, <2>3
<1>7. /\ b \in ArenaRec /\ Threaded(b, MovedUp(s, N, k), N) /\ SameHosts(c, b)
  <2>1. CASE a.head = i
    <3>1. a.head = s[1] /\ 1 \in 1 .. N
      BY <1>1, <1>2, <1>3 DEF Threaded
    <3>2. k = 1
      BY <1>1, <1>2, <2>1, <3>1 DEF Threaded
    <3>3. MovedUp(s, N, k) =
            [j \in 1 .. N |-> IF j = 1 THEN s[k] ELSE IF j <= k THEN s[j - 1] ELSE s[j]]
      BY <1>3, MovedUpFacts
    <3>4. MovedUp(s, N, k) = s
      BY SMTT(30), <1>3, <3>2, <3>3
    <3> QED
      BY <1>4, <1>5, <1>6, <2>1, <3>4 DEF SameHosts
  <2>2. CASE a.head # i
    <3>1. PICK u : u = Unlink(c, i)
      OBVIOUS
    <3>2. u \in ArenaRec /\ SameHosts(c, u) /\ Threaded(u, Dropped(s, N, k), N - 1)
      BY <1>2, <1>3, <1>4, <1>6, <3>1, UnlinkThreaded
    <3>3. ASSUME NEW j \in 1 .. N - 1 PROVE Dropped(s, N, k)[j] # i
      <4>1. \A x, y \in 1 .. N : s[x] = s[y] => x = y
        BY <1>1 DEF Threaded
      <4>2. Dropped(s, N, k)[j] = IF j < k THEN s[j] ELSE s[j + 1]
        BY <1>3 DEF Dropped
      <4>3. CASE j < k
        BY <1>2, <1>3, <4>1, <4>2, <4>3
      <4>4. CASE ~(j < k)
        <5>1. j + 1 \in 1 .. N /\ j + 1 # k
          BY <1>3, <4>4
        <5> QED
          BY <1>2, <4>1, <4>2, <4>4, <5>1
      <4> QED
        BY <4>3, <4>4
    <3>4. i \in 1 .. Len(u.entries)
      BY <1>1, <1>4, <3>2 DEF SameHosts, N
    <3>5. PICK v : v = PushFront(u, i)
      OBVIOUS
    <3>6. v \in ArenaRec /\ SameHosts(u, v) /\ Threaded(v, Pushed(Dropped(s, N, k), N - 1, i), (N - 1) + 1)
      BY <3>2, <3>3, <3>4, <3>5, PushFrontThreaded
    <3>7. SameHosts(c, v)
      BY <3>2, <3>6 DEF SameHosts
    <3>8. b = v /\ (N - 1) + 1 = N
      BY <1>3, <1>5, <2>2, <3>1, <3>5
    <3>9. Pushed(Dropped(s, N, k), N - 1, i) = MovedUp(s, N, k)
      BY <1>2 DEF MovedUp
    <3> QED
      BY <3>6, <3>7, <3>8, <3>9
  <2> QED
    BY <2>1, <2>2
<1>12. Len(b.entries) = Len(c.entries) /\ b.index = c.index /\ b.next_id = c.next_id
  BY <1>7 DEF SameHosts
<1>8. Len(b.entries) = N /\ b.index = a.index /\ b.next_id = a.next_id
  BY <1>4, <1>12
<1>9. \A j \in 1 .. N :
        /\ b.entries[j].ip = a.entries[j].ip /\ b.entries[j].id = a.entries[j].id
        /\ b.entries[j].asn = a.entries[j].asn
        /\ b.entries[j].families = IF j = i THEN a.entries[j].families \cup fam
                                   ELSE a.entries[j].families
  <2>1. \A j \in 1 .. Len(c.entries) :
          /\ b.entries[j].ip = c.entries[j].ip /\ b.entries[j].id = c.entries[j].id
          /\ b.entries[j].asn = c.entries[j].asn
          /\ b.entries[j].families = c.entries[j].families
    BY <1>7 DEF SameHosts
  <2>2. Len(c.entries) = N
    BY <1>4
  <2> QED
    BY ZenonT(30), <1>4, <2>1, <2>2
<1>10. Good(b, MovedUp(s, N, k))
  <2>1. Indexed(b)
    BY <1>6, <1>7, IndexedKept
  <2>2. ASSUME NEW j \in 1 .. N PROVE \E x \in 1 .. N : MovedUp(s, N, k)[x] = j
    <3>1. PICK m \in 1 .. N : s[m] = j
      BY DEF Good, N
    <3>2. \E x \in 1 .. N : MovedUp(s, N, k)[x] = s[m]
      <4>1. N \in Nat /\ k \in 1 .. N /\ m \in 1 .. N
        BY <1>2, <1>3, <3>1
      <4>2. PICK t : t = MovedUp(s, N, k)
        OBVIOUS
      <4>3. \E x \in 1 .. N : t[x] = s[m]
        BY <4>1, <4>2, MovedUpOnto
      <4> QED
        BY <4>2, <4>3
    <3> QED
      BY <3>1, <3>2
  <2> QED
    BY <1>1, <1>7, <1>8, <2>1, <2>2 DEF Good
<1>11. HostOrder(a, s)[k] = ip
  BY <1>1, <1>2 DEF HostOrder, N
<1> QED
  BY <1>8, <1>9, <1>10, <1>11 DEF N, i, Relearnt

-----------------------------------------------------------------------------
(* A new host                                                              *)

\* As many hosts are known as there are slots.
LEMMA KnownCount ==
  ASSUME NEW a \in ArenaRec, Indexed(a)
  PROVE  IsFiniteSet(DOMAIN a.index) /\ Cardinality(DOMAIN a.index) = Len(a.entries)
<1> DEFINE N == Len(a.entries)
           f == [i \in 1 .. N |-> a.entries[i].ip]
<1>1. N \in Nat
  BY DEF ArenaRec
<1>2. f \in [1 .. N -> DOMAIN a.index]
  BY DEF Indexed
<1>3. \A i, j \in 1 .. N : f[i] = f[j] => i = j
  BY DEF Indexed
<1>4. \A h \in DOMAIN a.index : \E i \in 1 .. N : f[i] = h
  BY DEF Indexed
<1> HIDE DEF f, N
<1>5. f \in Bijection(1 .. N, DOMAIN a.index)
  BY <1>2, <1>3, <1>4 DEF Bijection, Injection, Surjection, IsInjective
<1>6. ExistsBijection(1 .. N, DOMAIN a.index)
  BY <1>5 DEF ExistsBijection
<1> QED
  BY <1>1, <1>6, FS_CountingElements, FS_NatBijection DEF N

\* Of the n slots, u, of m, lacks slot i alone.
Lacks(u, m, i, n) ==
  /\ \A k \in 1 .. m : u[k] # i
  /\ \A j \in 1 .. n : j = i \/ \E k \in 1 .. m : u[k] = j

\* push_front of the one slot that the list lacks completes the arena.
LEMMA CompletedGood ==
  ASSUME NEW c \in ArenaRec, NEW u, NEW m, Threaded(c, u, m), m + 1 = Len(c.entries),
         NEW i \in 1 .. Len(c.entries), Lacks(u, m, i, Len(c.entries)),
         Indexed(c), Len(c.entries) <= ArenaCap
  PROVE  /\ Good(PushFront(c, i), Pushed(u, m, i))
         /\ SameHosts(c, PushFront(c, i))
<1>1. PICK b : b = PushFront(c, i)
  OBVIOUS
<1>2. PICK t : t = Pushed(u, m, i)
  OBVIOUS
<1>3. b \in ArenaRec /\ SameHosts(c, b) /\ Threaded(b, t, m + 1)
  BY <1>1, <1>2, PushFrontThreaded DEF Lacks
<1>4. Len(b.entries) = Len(c.entries) /\ Indexed(b)
  BY <1>3, IndexedKept DEF SameHosts
<1>5. m \in Nat
  BY DEF Threaded
<1>6. ASSUME NEW j \in 1 .. Len(c.entries) PROVE \E k \in 1 .. Len(c.entries) : t[k] = j
  <2>1. CASE j = i
    <3>1. 1 \in 1 .. m + 1 /\ t[1] = j
      BY <1>2, <1>5, <2>1 DEF Pushed
    <3> QED
      BY <3>1
  <2>2. CASE j # i
    <3>1. PICK k \in 1 .. m : u[k] = j
      BY <2>2 DEF Lacks
    <3>2. k + 1 \in 1 .. m + 1 /\ k + 1 # 1 /\ (k + 1) - 1 = k
      BY <1>5
    <3>3. t[k + 1] = j
      BY <1>2, <3>1, <3>2 DEF Pushed
    <3> QED
      BY <3>2, <3>3
  <2> QED
    BY <2>1, <2>2
<1> QED
  BY <1>1, <1>2, <1>3, <1>4, <1>6 DEF Good

\* The entry of a new host.
LEMMA FreshFacts ==
  ASSUME NEW ip \in Host, NEW id \in Nat, NEW fam \in Families
  PROVE  /\ Fresh(ip, id, fam) \in EntryRec
         /\ Fresh(ip, id, fam).ip = ip /\ Fresh(ip, id, fam).id = id
         /\ Fresh(ip, id, fam).families = fam /\ Fresh(ip, id, fam).asn = "none"
BY DEF Fresh, EntryRec, Asns, NIL

\* The index of a well-formed arena.
LEMMA IndexFacts ==
  ASSUME NEW a \in ArenaRec
  PROVE  /\ DOMAIN a.index \in SUBSET Host /\ a.index \in [DOMAIN a.index -> Nat]
         /\ a.entries \in Seq(EntryRec) /\ Len(a.entries) \in Nat /\ a.next_id \in Nat
         /\ DOMAIN a.entries = 1 .. Len(a.entries)
BY DEF ArenaRec

\* The arena, with a slot in hand for a new host.
Seated(a, ip, fam, F, I, i) ==
  [a EXCEPT !.entries = F, !.index = Insert(I, ip, i), !.next_id = NextId(a.next_id)]

LEMMA NextIdNat ==
  ASSUME NEW id \in Nat
  PROVE  NextId(id) \in Nat
BY ArenaAssumption DEF NextId

\* While there is room, the new host's slot comes after the others.
LEMMA SpareSlot ==
  ASSUME NEW a, NEW s, Good(a, s), NEW ip \in Host, ip \notin DOMAIN a.index,
         NEW fam \in Families
  PROVE  LET N == Len(a.entries)
             e == Fresh(ip, a.next_id, fam)
             c == Seated(a, ip, fam, Append(a.entries, e), a.index, N + 1)
         IN  /\ c \in ArenaRec /\ Threaded(c, s, N) /\ Indexed(c)
             /\ Len(c.entries) = N + 1 /\ c.next_id = NextId(a.next_id)
             /\ c.entries[N + 1] = e /\ \A j \in 1 .. N : c.entries[j] = a.entries[j]
<1> DEFINE N == Len(a.entries)
<1>1. PICK e : e = Fresh(ip, a.next_id, fam)
  OBVIOUS
<1>2. PICK F : F = Append(a.entries, e)
  OBVIOUS
<1>3. PICK I : I = Insert(a.index, ip, N + 1)
  OBVIOUS
<1>4. PICK c : c = [a EXCEPT !.entries = F, !.index = I, !.next_id = NextId(a.next_id)]
  OBVIOUS
<1>5. a \in ArenaRec /\ Threaded(a, s, N) /\ Indexed(a)
  BY DEF Good
<1>6. /\ DOMAIN a.index \in SUBSET Host /\ a.index \in [DOMAIN a.index -> Nat]
      /\ a.entries \in Seq(EntryRec) /\ N \in Nat /\ a.next_id \in Nat
  BY <1>5, IndexFacts
<1>7. e \in EntryRec /\ e.ip = ip
  BY <1>1, <1>6, FreshFacts
<1> HIDE DEF N
<1>17. Len(a.entries) = N
  BY DEF N
<1>8. F \in Seq(EntryRec) /\ Len(F) = N + 1 /\ F[N + 1] = e /\ \A j \in 1 .. N : F[j] = a.entries[j]
  BY <1>2, <1>6, <1>7, <1>17
<1>9. /\ I \in [DOMAIN a.index \cup {ip} -> Nat] /\ I[ip] = N + 1
      /\ \A h \in DOMAIN a.index : h # ip => I[h] = a.index[h]
  BY <1>3, <1>6 DEF Insert
<1>10. /\ c \in ArenaRec /\ c.entries = F /\ c.index = I /\ c.next_id = NextId(a.next_id)
       /\ c.head = a.head /\ c.tail = a.tail
  <2>1. PICK D : D = DOMAIN a.index \cup {ip}
    OBVIOUS
  <2>2. PICK id : id = NextId(a.next_id)
    OBVIOUS
  <2>3. D \in SUBSET Host /\ I \in [D -> Nat] /\ id \in Nat
    BY <1>6, <1>9, <2>1, <2>2, NextIdNat
  <2>4. c = [a EXCEPT !.entries = F, !.index = I, !.next_id = id]
    BY <1>4, <2>2
  <2>5. F \in Seq(EntryRec) /\ a \in ArenaRec
    BY <1>5, <1>8
  <2>6. /\ c \in ArenaRec /\ c.entries = F /\ c.index = I /\ c.next_id = id
        /\ c.head = a.head /\ c.tail = a.tail
    <3>1. I \in UNION {[E -> Nat] : E \in SUBSET Host}
      BY <2>3
    <3> QED
      BY <2>3, <2>4, <2>5, <3>1 DEF ArenaRec
  <2> QED
    BY <2>2, <2>6
<1>11. Threaded(c, s, N)
  <2>1. /\ s \in [1 .. N -> 1 .. N]
        /\ \A i, j \in 1 .. N : s[i] = s[j] => i = j
        /\ a.head = IF N = 0 THEN NIL ELSE s[1]
        /\ a.tail = IF N = 0 THEN NIL ELSE s[N]
        /\ \A k \in 1 .. N :
             /\ a.entries[s[k]].next = IF k = N THEN NIL ELSE s[k + 1]
             /\ a.entries[s[k]].prev = IF k = 1 THEN NIL ELSE s[k - 1]
    BY <1>5, <1>17 DEF Threaded
  <2>2. \A k \in 1 .. N : s[k] \in 1 .. N /\ s[k] \in 1 .. N + 1 /\ F[s[k]] = a.entries[s[k]]
    BY <1>6, <1>8, <2>1
  <2>3. s \in [1 .. N -> 1 .. Len(c.entries)]
    BY <1>6, <1>8, <1>10, <2>1, <2>2
  <2> QED
    BY ZenonT(30), <1>6, <1>10, <2>1, <2>2, <2>3 DEF Threaded
<1>12. Indexed(c)
  <2>1. ASSUME NEW j \in 1 .. N + 1 PROVE F[j].ip \in DOMAIN I /\ I[F[j].ip] = j
    <3>1. CASE j = N + 1
      BY <1>7, <1>8, <1>9, <3>1
    <3>2. CASE j # N + 1
      <4>1. j \in 1 .. N
        BY <1>6, <3>2
      <4>2. a.entries[j].ip \in DOMAIN a.index /\ a.index[a.entries[j].ip] = j
        BY <1>5, <1>17, <4>1 DEF Indexed
      <4> QED
        BY <1>8, <1>9, <4>1, <4>2
    <3> QED
      BY <3>1, <3>2
  <2>2. ASSUME NEW h \in DOMAIN I PROVE I[h] \in 1 .. N + 1 /\ F[I[h]].ip = h
    <3>1. CASE h = ip
      BY <1>6, <1>7, <1>8, <1>9, <3>1
    <3>2. CASE h # ip
      <4>1. h \in DOMAIN a.index
        BY <1>9, <3>2
      <4>2. a.index[h] \in 1 .. N /\ a.entries[a.index[h]].ip = h
        BY <1>5, <1>17, <4>1 DEF Indexed
      <4> QED
        BY <1>6, <1>8, <1>9, <3>2, <4>1, <4>2
    <3> QED
      BY <3>1, <3>2
  <2> QED
    BY <1>8, <1>10, <2>1, <2>2 DEF Indexed
<1>13. c = Seated(a, ip, fam, Append(a.entries, e), a.index, N + 1)
  BY <1>2, <1>3, <1>4 DEF Seated
<1> QED
  BY <1>1, <1>8, <1>10, <1>11, <1>12, <1>13, <1>17

\* When there is no room, it takes the slot of the host at the tail.
Reseated(a, ip, fam) ==
  Seated(EvictTail(a), ip, fam,
         [EvictTail(a).entries EXCEPT ![a.tail] = Fresh(ip, a.next_id, fam)],
         EvictTail(a).index, a.tail)

LEMMA FreedSlot ==
  ASSUME NEW a, NEW s, Good(a, s), Len(a.entries) # 0, NEW ip \in Host, ip \notin DOMAIN a.index,
         NEW fam \in Families, NEW c, c = Reseated(a, ip, fam)
  PROVE  LET N == Len(a.entries)
         IN  /\ c \in ArenaRec /\ Threaded(c, Dropped(s, N, N), N - 1) /\ Indexed(c)
             /\ a.tail = s[N] /\ Len(c.entries) = N /\ c.next_id = NextId(a.next_id)
             /\ c.entries[s[N]] = Fresh(ip, a.next_id, fam)
             /\ \A j \in 1 .. N : j # s[N] =>
                  /\ c.entries[j].ip = a.entries[j].ip /\ c.entries[j].id = a.entries[j].id
                  /\ c.entries[j].families = a.entries[j].families
                  /\ c.entries[j].asn = a.entries[j].asn
<1> DEFINE N == Len(a.entries)
<1>1. PICK e : e = Fresh(ip, a.next_id, fam)
  OBVIOUS
<1>2. PICK i : i = a.tail
  OBVIOUS
<1>3. PICK u : u = Unlink(a, i)
  OBVIOUS
<1>4. PICK old : old = a.entries[i].ip
  OBVIOUS
<1>5. PICK J : J = [h \in DOMAIN a.index \ {old} |-> a.index[h]]
  OBVIOUS
<1>6. PICK t : t = Dropped(s, N, N)
  OBVIOUS
<1>7. a \in ArenaRec /\ Threaded(a, s, N) /\ Indexed(a)
  BY DEF Good
<1>8. /\ DOMAIN a.index \in SUBSET Host /\ a.index \in [DOMAIN a.index -> Nat]
      /\ a.entries \in Seq(EntryRec) /\ N \in Nat /\ a.next_id \in Nat
  BY <1>7, IndexFacts
<1> HIDE DEF N
<1>9. Len(a.entries) = N /\ N # 0
  BY DEF N
<1>10. /\ N \in 1 .. N /\ i = s[N] /\ s \in [1 .. N -> 1 .. N] /\ i \in 1 .. N
       /\ \A x, y \in 1 .. N : s[x] = s[y] => x = y
  BY <1>2, <1>7, <1>8, <1>9 DEF Threaded
<1>11. u \in ArenaRec /\ SameHosts(a, u) /\ Threaded(u, t, N - 1)
  BY <1>3, <1>6, <1>7, <1>10, UnlinkThreaded
<1>12. /\ u.index = a.index /\ u.next_id = a.next_id /\ Len(u.entries) = N
       /\ u.entries \in Seq(EntryRec)
       /\ \A j \in 1 .. N :
            /\ u.entries[j].ip = a.entries[j].ip /\ u.entries[j].id = a.entries[j].id
            /\ u.entries[j].families = a.entries[j].families
            /\ u.entries[j].asn = a.entries[j].asn
  BY <1>9, <1>11, IndexFacts DEF SameHosts
<1>13. PICK v : v = [u EXCEPT !.index = J]
  OBVIOUS
<1>14. EvictTail(a) = v
  <2>1. v = [u EXCEPT !.index = [h \in DOMAIN a.index \ {old} |-> a.index[h]]]
    BY <1>5, <1>13
  <2> QED
    BY <1>2, <1>3, <1>4, <2>1 DEF EvictTail
<1>15. /\ v.entries = u.entries /\ v.index = J /\ v.next_id = a.next_id
       /\ v.head = u.head /\ v.tail = u.tail
  BY <1>11, <1>12, <1>13 DEF ArenaRec
<1>16. PICK F : F = [u.entries EXCEPT ![i] = e]
  OBVIOUS
<1>17. e \in EntryRec /\ e.ip = ip
  <2>1. PICK id : id = a.next_id
    OBVIOUS
  <2>2. id \in Nat /\ e = Fresh(ip, id, fam)
    BY <1>1, <1>8, <2>1
  <2> QED
    <3>1. Fresh(ip, id, fam) \in EntryRec /\ Fresh(ip, id, fam).ip = ip
      BY <2>2, FreshFacts
    <3> QED
      BY <2>2, <3>1
<1>18. /\ F \in Seq(EntryRec) /\ Len(F) = N /\ F[i] = e
       /\ \A j \in 1 .. N : j # i => F[j] = u.entries[j]
  BY <1>10, <1>12, <1>16, <1>17
<1>19. PICK I : I = Insert(J, ip, i)
  OBVIOUS
<1>20. /\ old \in DOMAIN a.index /\ a.index[old] = i /\ old # ip
       /\ I \in [(DOMAIN a.index \ {old}) \cup {ip} -> Nat] /\ I[ip] = i
       /\ \A h \in DOMAIN a.index : h # old => I[h] = a.index[h]
  <2>1. old \in DOMAIN a.index /\ a.index[old] = i
    BY <1>4, <1>7, <1>9, <1>10 DEF Indexed
  <2>2. I = [x \in (DOMAIN a.index \ {old}) \cup {ip} |-> IF x = ip THEN i ELSE J[x]]
    BY <1>5, <1>19 DEF Insert
  <2>3. i \in Nat
    BY <1>10
  <2> QED
    BY <1>5, <1>8, <2>1, <2>2, <2>3
<1>21. c = [v EXCEPT !.entries = F, !.index = I, !.next_id = NextId(v.next_id)]
  <2>1. c = Seated(v, ip, fam, [v.entries EXCEPT ![i] = e], v.index, i)
    BY <1>1, <1>2, <1>14 DEF Reseated
  <2> QED
    BY <1>15, <1>16, <1>19, <2>1 DEF Seated
<1>22. /\ c \in ArenaRec /\ c.entries = F /\ c.index = I /\ c.next_id = NextId(a.next_id)
       /\ c.head = u.head /\ c.tail = u.tail
  <2>1. PICK id : id = NextId(a.next_id)
    OBVIOUS
  <2>2. id \in Nat
    BY <1>8, <2>1, NextIdNat
  <2>3. c = [u EXCEPT !.entries = F, !.index = I, !.next_id = id]
    BY <1>11, <1>13, <1>15, <1>21, <2>1 DEF ArenaRec
  <2>4. I \in UNION {[E -> Nat] : E \in SUBSET Host}
    <3>1. (DOMAIN a.index \ {old}) \cup {ip} \in SUBSET Host
      BY <1>8
    <3> QED
      BY <1>20, <3>1
  <2> QED
    BY <1>11, <1>18, <2>1, <2>2, <2>3, <2>4 DEF ArenaRec
<1>23. Threaded(c, t, N - 1)
  <2>1. /\ N - 1 \in Nat /\ t \in [1 .. N - 1 -> 1 .. N]
        /\ \A x, y \in 1 .. N - 1 : t[x] = t[y] => x = y
        /\ u.head = IF N - 1 = 0 THEN NIL ELSE t[1]
        /\ u.tail = IF N - 1 = 0 THEN NIL ELSE t[N - 1]
        /\ \A k \in 1 .. N - 1 :
             /\ u.entries[t[k]].next = IF k = N - 1 THEN NIL ELSE t[k + 1]
             /\ u.entries[t[k]].prev = IF k = 1 THEN NIL ELSE t[k - 1]
    BY <1>11, <1>12 DEF Threaded
  <2>2. \A k \in 1 .. N - 1 : t[k] = s[k] /\ k \in 1 .. N /\ k # N
    BY <1>6, <1>8 DEF Dropped
  <2>3. \A k \in 1 .. N - 1 : t[k] # i
    BY <1>10, <2>2
  <2>4. \A k \in 1 .. N - 1 : c.entries[t[k]] = u.entries[t[k]]
    BY <1>18, <1>22, <2>1, <2>3
  <2>5. Len(c.entries) = N /\ c.head = u.head /\ c.tail = u.tail
    BY <1>18, <1>22
  <2>6. t \in [1 .. N - 1 -> 1 .. Len(c.entries)]
    BY <2>1, <2>5
  <2>7. \A k \in 1 .. N - 1 :
          /\ c.entries[t[k]].next = IF k = N - 1 THEN NIL ELSE t[k + 1]
          /\ c.entries[t[k]].prev = IF k = 1 THEN NIL ELSE t[k - 1]
    BY <2>1, <2>4
  <2> QED
    BY <2>1, <2>5, <2>6, <2>7 DEF Threaded
<1>24. Indexed(c)
  <2>1. ASSUME NEW j \in 1 .. N PROVE F[j].ip \in DOMAIN I /\ I[F[j].ip] = j
    <3>1. CASE j = i
      BY <1>17, <1>18, <1>20, <3>1
    <3>2. CASE j # i
      <4>1. a.entries[j].ip \in DOMAIN a.index /\ a.index[a.entries[j].ip] = j
        BY <1>7, <1>9 DEF Indexed
      <4>2. a.entries[j].ip # old
        BY <1>20, <3>2, <4>1
      <4> QED
        BY <1>12, <1>18, <1>20, <3>2, <4>1, <4>2
    <3> QED
      BY <3>1, <3>2
  <2>2. ASSUME NEW h \in DOMAIN I PROVE I[h] \in 1 .. N /\ F[I[h]].ip = h
    <3>1. CASE h = ip
      BY <1>10, <1>17, <1>18, <1>20, <3>1
    <3>2. CASE h # ip
      <4>1. h \in DOMAIN a.index /\ h # old
        BY <1>20, <3>2
      <4>2. a.index[h] \in 1 .. N /\ a.entries[a.index[h]].ip = h
        BY <1>7, <1>9, <4>1 DEF Indexed
      <4>3. a.index[h] # i
        BY <1>4, <4>1, <4>2
      <4> QED
        BY <1>12, <1>18, <1>20, <4>1, <4>2, <4>3
    <3> QED
      BY <3>1, <3>2
  <2> QED
    BY <1>18, <1>22, <2>1, <2>2 DEF Indexed
<1>26. \A j \in 1 .. N : j # i =>
         /\ c.entries[j].ip = a.entries[j].ip /\ c.entries[j].id = a.entries[j].id
         /\ c.entries[j].families = a.entries[j].families
         /\ c.entries[j].asn = a.entries[j].asn
  BY <1>12, <1>18, <1>22
<1>29. /\ Threaded(c, Dropped(s, N, N), N - 1) /\ a.tail = s[N] /\ Len(c.entries) = N
       /\ c.entries[s[N]] = Fresh(ip, a.next_id, fam)
       /\ \A j \in 1 .. N : j # s[N] =>
            /\ c.entries[j].ip = a.entries[j].ip /\ c.entries[j].id = a.entries[j].id
            /\ c.entries[j].families = a.entries[j].families
            /\ c.entries[j].asn = a.entries[j].asn
  BY <1>1, <1>2, <1>4, <1>6, <1>10, <1>18, <1>22, <1>23, <1>26
<1> QED
  BY <1>22, <1>24, <1>29 DEF N

\* The room for hosts once one more is known.
Room(a) == IF Len(a.entries) < ArenaCap THEN Len(a.entries) + 1 ELSE Len(a.entries)

\* c is a with the new host ip in slot i, which is not in the list yet: the list is
\* that of a, or all of it but the tail.
Seating(a, s, ip, fam, c, u, i) ==
  LET M == Room(a)
  IN  /\ c \in ArenaRec /\ Threaded(c, u, M - 1) /\ Indexed(c)
      /\ Len(c.entries) = M /\ c.next_id = NextId(a.next_id)
      /\ i \in 1 .. M /\ \A k \in 1 .. M - 1 : u[k] = s[k] /\ s[k] # i
      /\ \A j \in 1 .. M : j = i \/ \E k \in 1 .. M - 1 : u[k] = j
      /\ c.entries[i] = Fresh(ip, a.next_id, fam)
      /\ \A j \in 1 .. M : j # i =>
           /\ j \in 1 .. Len(a.entries)
           /\ c.entries[j].ip = a.entries[j].ip /\ c.entries[j].id = a.entries[j].id
           /\ c.entries[j].families = a.entries[j].families
           /\ c.entries[j].asn = a.entries[j].asn

\* touch of a new host seats it and pushes its slot to the front.
LEMMA EnterSeats ==
  ASSUME NEW a, NEW s, Good(a, s), NEW ip \in Host, ip \notin DOMAIN a.index,
         NEW fam \in Families
  PROVE  \E c, u, i : Seating(a, s, ip, fam, c, u, i) /\ Enter(a, ip, fam) = PushFront(c, i)
<1> DEFINE N == Len(a.entries)
<1>1. /\ a \in ArenaRec /\ Threaded(a, s, N) /\ Indexed(a) /\ N <= ArenaCap /\ N \in Nat
      /\ Cardinality(DOMAIN a.index) = N /\ ArenaCap \in Nat \ {0}
      /\ \A i \in 1 .. N : \E k \in 1 .. N : s[k] = i
  BY KnownCount, IndexFacts, ArenaAssumption DEF Good
<1>2. s \in [1 .. N -> 1 .. N] /\ \A x, y \in 1 .. N : s[x] = s[y] => x = y
  BY <1>1 DEF Threaded
<1>3. CASE N < ArenaCap
  <2>1. PICK e : e = Fresh(ip, a.next_id, fam)
    OBVIOUS
  <2>2. PICK c : c = Seated(a, ip, fam, Append(a.entries, e), a.index, N + 1)
    OBVIOUS
  <2>3. /\ c \in ArenaRec /\ Threaded(c, s, N) /\ Indexed(c)
        /\ Len(c.entries) = N + 1 /\ c.next_id = NextId(a.next_id)
        /\ c.entries[N + 1] = e /\ \A j \in 1 .. N : c.entries[j] = a.entries[j]
    BY <2>1, <2>2, SpareSlot
  <2>4. Enter(a, ip, fam) = PushFront(c, N + 1)
    <3>1. ~(Cardinality(DOMAIN a.index) >= ArenaCap)
      BY <1>1, <1>3
    <3> QED
      BY <2>1, <2>2, <3>1 DEF Enter, Seated
  <2>5. Room(a) = N + 1 /\ Room(a) - 1 = N
    BY <1>1, <1>3 DEF Room
  <2> HIDE DEF N
  <2>6. \A k \in 1 .. N : s[k] # N + 1
    BY <1>1, <1>2
  <2>7. \A j \in 1 .. N + 1 : j = N + 1 \/ \E k \in 1 .. N : s[k] = j
    BY <1>1
  <2>8. \A j \in 1 .. N + 1 : j # N + 1 => j \in 1 .. Len(a.entries) /\ c.entries[j] = a.entries[j]
    <3>1. N \in Nat /\ N = Len(a.entries)
      BY <1>1 DEF N
    <3>2. \A j \in 1 .. N + 1 : j # N + 1 => j \in 1 .. N
      BY <3>1
    <3> QED
      BY <2>3, <3>1, <3>2
  <2>9. Seating(a, s, ip, fam, c, s, N + 1)
    <3>1. PICK M : M = Room(a)
      OBVIOUS
    <3>2. M = N + 1 /\ M - 1 = N /\ N + 1 \in 1 .. M
      BY <1>1, <2>5, <3>1
    <3> QED
      BY <2>1, <2>3, <2>6, <2>7, <2>8, <3>1, <3>2 DEF Seating
  <2> QED
    BY <2>4, <2>9
<1>4. CASE ~(N < ArenaCap)
  <2>0. N = ArenaCap /\ N # 0
    BY <1>1, <1>4
  <2>1. PICK e : e = Fresh(ip, a.next_id, fam)
    OBVIOUS
  <2>2. PICK v : v = EvictTail(a)
    OBVIOUS
  <2>3. PICK c : c = Reseated(a, ip, fam)
    OBVIOUS
  <2>12. c = Seated(v, ip, fam, [v.entries EXCEPT ![a.tail] = e], v.index, a.tail)
    BY <2>1, <2>2, <2>3 DEF Reseated
  <2>4. /\ c \in ArenaRec /\ Threaded(c, Dropped(s, N, N), N - 1) /\ Indexed(c)
        /\ a.tail = s[N] /\ Len(c.entries) = N /\ c.next_id = NextId(a.next_id)
        /\ c.entries[s[N]] = e
        /\ \A j \in 1 .. N : j # s[N] =>
             /\ c.entries[j].ip = a.entries[j].ip /\ c.entries[j].id = a.entries[j].id
             /\ c.entries[j].families = a.entries[j].families
             /\ c.entries[j].asn = a.entries[j].asn
    BY <2>0, <2>1, <2>3, FreedSlot
  <2>5. Enter(a, ip, fam) = PushFront(c, a.tail)
    <3>1. Cardinality(DOMAIN a.index) >= ArenaCap
      BY <1>1, <2>0
    <3> QED
      BY <2>1, <2>2, <2>12, <3>1 DEF Enter, Seated
  <2>6. Room(a) = N
    BY <1>4 DEF Room
  <2>7. PICK u : u = Dropped(s, N, N)
    OBVIOUS
  <2> HIDE DEF N
  <2>8. \A k \in 1 .. N - 1 : u[k] = s[k] /\ s[k] # s[N]
    <3>1. \A k \in 1 .. N - 1 : k \in 1 .. N /\ N \in 1 .. N /\ k # N /\ k < N
      BY <1>1, <2>0
    <3> QED
      BY <1>2, <2>7, <3>1 DEF Dropped
  <2>9. ASSUME NEW j \in 1 .. N, j # s[N] PROVE \E k \in 1 .. N - 1 : u[k] = j
    <3>1. PICK k \in 1 .. N : s[k] = j
      BY <1>1
    <3>2. k \in 1 .. N - 1
      BY <1>1, <2>9, <3>1
    <3> QED
      BY <2>8, <3>1, <3>2
  <2>10. s[N] \in 1 .. N /\ Len(a.entries) = N
    BY <1>1, <1>2, <2>0 DEF N
  <2>11. Seating(a, s, ip, fam, c, u, s[N])
    BY <2>1, <2>4, <2>6, <2>7, <2>8, <2>9, <2>10 DEF Seating
  <2> QED
    BY <2>4, <2>5, <2>11
<1> QED
  BY <1>3, <1>4

\* The order of an arena names every host it knows, once.
LEMMA OrderFacts ==
  ASSUME NEW a, NEW s, Good(a, s)
  PROVE  LET o == HostOrder(a, s)
             N == Len(a.entries)
         IN  /\ N \in Nat /\ N <= ArenaCap /\ DOMAIN a.index \subseteq Host
             /\ o \in [1 .. N -> DOMAIN a.index]
             /\ \A j, k \in 1 .. N : o[j] = o[k] => j = k
             /\ \A h \in DOMAIN a.index : \E k \in 1 .. N : o[k] = h
             /\ \A k \in 1 .. N : Entry(a, o[k]) = a.entries[s[k]]
<1> DEFINE N == Len(a.entries)
           o == HostOrder(a, s)
<1>1. /\ a \in ArenaRec /\ N <= ArenaCap
      /\ s \in [1 .. N -> 1 .. N] /\ \A x, y \in 1 .. N : s[x] = s[y] => x = y
      /\ \A i \in 1 .. N : \E k \in 1 .. N : s[k] = i
      /\ \A i \in 1 .. N : a.entries[i].ip \in DOMAIN a.index /\ a.index[a.entries[i].ip] = i
      /\ \A h \in DOMAIN a.index : a.index[h] \in 1 .. N /\ a.entries[a.index[h]].ip = h
  BY DEF Good, Threaded, Indexed
<1>2. N \in Nat /\ DOMAIN a.index \subseteq Host
  BY <1>1, IndexFacts
<1>3. o = [k \in 1 .. N |-> a.entries[s[k]].ip]
  BY DEF HostOrder
<1> HIDE DEF N, o
<1>4. o \in [1 .. N -> DOMAIN a.index] /\ \A k \in 1 .. N : a.index[o[k]] = s[k]
  BY <1>1, <1>3
<1>5. ASSUME NEW j \in 1 .. N, NEW k \in 1 .. N, o[j] = o[k] PROVE j = k
  <2>1. s[j] = s[k]
    BY <1>4, <1>5
  <2> QED
    BY <1>1, <2>1
<1>6. ASSUME NEW h \in DOMAIN a.index PROVE \E k \in 1 .. N : o[k] = h
  <2>1. PICK k \in 1 .. N : s[k] = a.index[h]
    BY <1>1
  <2> QED
    BY <1>1, <1>3, <2>1
<1>7. \A k \in 1 .. N : Entry(a, o[k]) = a.entries[s[k]]
  BY <1>4 DEF Entry
<1> QED
  BY <1>1, <1>2, <1>4, <1>5, <1>6, <1>7 DEF N, o

\* What b remembers of h is what a remembers.
Kept(a, b, h) ==
  /\ h \in DOMAIN a.index /\ h \in DOMAIN b.index
  /\ Entry(b, h).id = Entry(a, h).id /\ Entry(b, h).asn = Entry(a, h).asn
  /\ Entry(b, h).families = Entry(a, h).families

\* touch of a new host puts it in front of the order, which loses its last host
\* when there is no room; the others are remembered as before.
LEMMA EnterGood ==
  ASSUME NEW a, NEW s, Good(a, s), NEW ip \in Host, ip \notin DOMAIN a.index,
         NEW fam \in Families
  PROVE  \E b, t : /\ b = Enter(a, ip, fam) /\ Good(b, t)
                   /\ Len(b.entries) = Room(a) /\ b.next_id = NextId(a.next_id)
                   /\ HostOrder(b, t) = [j \in 1 .. Room(a) |->
                        IF j = 1 THEN ip ELSE HostOrder(a, s)[j - 1]]
                   /\ ip \in DOMAIN b.index /\ Entry(b, ip).id = a.next_id
                   /\ Entry(b, ip).families = fam /\ Entry(b, ip).asn = "none"
                   /\ \A h \in DOMAIN b.index : h # ip => Kept(a, b, h)
<1>1. PICK c, u, i : Seating(a, s, ip, fam, c, u, i) /\ Enter(a, ip, fam) = PushFront(c, i)
  BY EnterSeats
<1>2. PICK b : b = PushFront(c, i)
  OBVIOUS
<1>3. PICK M : M = Room(a)
  OBVIOUS
<1>4. PICK t : t = Pushed(u, M - 1, i)
  OBVIOUS
<1>5. /\ c \in ArenaRec /\ Threaded(c, u, M - 1) /\ Indexed(c)
      /\ Len(c.entries) = M /\ c.next_id = NextId(a.next_id)
      /\ i \in 1 .. M /\ \A k \in 1 .. M - 1 : u[k] = s[k] /\ s[k] # i
      /\ \A j \in 1 .. M : j = i \/ \E k \in 1 .. M - 1 : u[k] = j
      /\ c.entries[i] = Fresh(ip, a.next_id, fam)
      /\ \A j \in 1 .. M : j # i =>
           /\ j \in 1 .. Len(a.entries)
           /\ c.entries[j].ip = a.entries[j].ip /\ c.entries[j].id = a.entries[j].id
           /\ c.entries[j].families = a.entries[j].families
           /\ c.entries[j].asn = a.entries[j].asn
  BY <1>1, <1>3 DEF Seating
<1>6. /\ a \in ArenaRec /\ Len(a.entries) \in Nat /\ Len(a.entries) <= ArenaCap /\ Indexed(a)
      /\ ArenaCap \in Nat
  BY IndexFacts, ArenaAssumption DEF Good
<1>7. M \in Nat /\ M <= ArenaCap /\ (M - 1) + 1 = M /\ M - 1 <= Len(a.entries)
  BY <1>3, <1>6 DEF Room
<1>8. Good(b, t) /\ SameHosts(c, b)
  <2>1. \A k \in 1 .. M - 1 : u[k] # i
    BY <1>5
  <2> QED
    <3>1. PICK m : m = M - 1
      OBVIOUS
    <3>2. /\ Threaded(c, u, m) /\ m + 1 = Len(c.entries) /\ i \in 1 .. Len(c.entries)
          /\ Lacks(u, m, i, Len(c.entries)) /\ Len(c.entries) <= ArenaCap
      BY <1>5, <1>7, <2>1, <3>1 DEF Lacks
    <3>3. Good(PushFront(c, i), Pushed(u, m, i)) /\ SameHosts(c, PushFront(c, i))
      BY <1>5, <3>2, CompletedGood
    <3> QED
      BY <1>2, <1>4, <3>1, <3>3
<1>9. PICK e : e = Fresh(ip, a.next_id, fam)
  OBVIOUS
<1>10. e.ip = ip /\ e.id = a.next_id /\ e.families = fam /\ e.asn = "none"
  BY <1>9 DEF Fresh
<1>11. /\ Len(b.entries) = M /\ b.next_id = NextId(a.next_id)
       /\ b.entries[i].ip = ip /\ b.entries[i].id = a.next_id
       /\ b.entries[i].families = fam /\ b.entries[i].asn = "none"
       /\ \A j \in 1 .. M : j # i =>
            /\ j \in 1 .. Len(a.entries)
            /\ b.entries[j].ip = a.entries[j].ip /\ b.entries[j].id = a.entries[j].id
            /\ b.entries[j].families = a.entries[j].families
            /\ b.entries[j].asn = a.entries[j].asn
  BY <1>5, <1>8, <1>9, <1>10 DEF SameHosts
<1>12. Indexed(b)
  BY <1>8 DEF Good
<1>13. ip \in DOMAIN b.index /\ b.index[ip] = i
  BY <1>5, <1>11, <1>12 DEF Indexed
<1>14. ASSUME NEW h \in DOMAIN b.index, h # ip PROVE Kept(a, b, h)
  <2>1. PICK j \in 1 .. M : j = b.index[h] /\ b.entries[j].ip = h
    BY <1>11, <1>12 DEF Indexed
  <2>2. j # i /\ j \in 1 .. Len(a.entries) /\ a.entries[j].ip = h
    BY <1>11, <1>14, <2>1
  <2>3. h \in DOMAIN a.index /\ a.index[h] = j
    BY <1>6, <2>2 DEF Indexed
  <2> QED
    BY <1>11, <2>1, <2>2, <2>3 DEF Kept, Entry
<1>15. HostOrder(b, t) = [j \in 1 .. M |-> IF j = 1 THEN ip ELSE HostOrder(a, s)[j - 1]]
  <2>1. HostOrder(b, t) = [j \in 1 .. M |-> b.entries[t[j]].ip]
    BY <1>11 DEF HostOrder
  <2>2. ASSUME NEW j \in 1 .. M
        PROVE  b.entries[t[j]].ip = IF j = 1 THEN ip ELSE HostOrder(a, s)[j - 1]
    <3>1. t[j] = IF j = 1 THEN i ELSE u[j - 1]
      BY <1>4, <1>7 DEF Pushed
    <3>2. CASE j = 1
      BY <1>11, <3>1, <3>2
    <3>3. CASE j # 1
      <4>1. j - 1 \in 1 .. M - 1 /\ j - 1 \in 1 .. Len(a.entries)
        BY <1>6, <1>7, <3>3
      <4>2. u[j - 1] = s[j - 1] /\ s[j - 1] # i
        BY <1>5, <4>1
      <4>3. u[j - 1] \in 1 .. M
        BY <1>5, <4>1 DEF Threaded
      <4>4. b.entries[t[j]].ip = a.entries[s[j - 1]].ip
        BY <1>11, <3>1, <3>3, <4>2, <4>3
      <4> QED
        BY <3>3, <4>1, <4>4 DEF HostOrder
    <3> QED
      BY <3>2, <3>3
  <2> QED
    BY <2>1, <2>2
<1>16. Entry(b, ip).id = a.next_id /\ Entry(b, ip).families = fam /\ Entry(b, ip).asn = "none"
  BY <1>11, <1>13 DEF Entry
<1>17. b = Enter(a, ip, fam)
  BY <1>1, <1>2
<1> QED
  BY <1>3, <1>8, <1>11, <1>13, <1>14, <1>15, <1>16, <1>17

\* touch of a known host moves it to the front of the order.
LEMMA RenewHosts ==
  ASSUME NEW a, NEW s, Good(a, s), NEW ip \in DOMAIN a.index, NEW fam \in Families
  PROVE  \E b, t, k : /\ b = Renew(a, ip, fam) /\ Good(b, t) /\ k \in 1 .. Len(a.entries)
                      /\ Len(b.entries) = Len(a.entries) /\ b.next_id = a.next_id
                      /\ DOMAIN b.index = DOMAIN a.index
                      /\ HostOrder(a, s)[k] = ip
                      /\ HostOrder(b, t) = MovedUp(HostOrder(a, s), Len(a.entries), k)
                      /\ Entry(b, ip).id = Entry(a, ip).id /\ Entry(b, ip).asn = Entry(a, ip).asn
                      /\ Entry(b, ip).families = Entry(a, ip).families \cup fam
                      /\ \A h \in DOMAIN b.index : h # ip => Kept(a, b, h)
<1>1. PICK N : N = Len(a.entries)
  OBVIOUS
<1>2. PICK b : b = Renew(a, ip, fam)
  OBVIOUS
<1>3. /\ Len(b.entries) = N /\ b.index = a.index /\ b.next_id = a.next_id
      /\ \A i \in 1 .. N :
           /\ b.entries[i].ip = a.entries[i].ip /\ b.entries[i].id = a.entries[i].id
           /\ b.entries[i].asn = a.entries[i].asn
           /\ b.entries[i].families = IF i = a.index[ip] THEN a.entries[i].families \cup fam
                                      ELSE a.entries[i].families
      /\ \E k \in 1 .. N : HostOrder(a, s)[k] = ip /\ Good(b, MovedUp(s, N, k))
  <2>1. /\ Relearnt(a, b, ip, fam)
        /\ \E k \in 1 .. Len(a.entries) :
             HostOrder(a, s)[k] = ip /\ Good(b, MovedUp(s, Len(a.entries), k))
    BY <1>2, RenewGood
  <2> QED
    BY <1>1, <2>1 DEF Relearnt
<1>4. PICK k \in 1 .. N : HostOrder(a, s)[k] = ip /\ Good(b, MovedUp(s, N, k))
  BY <1>3
<1>5. PICK t : t = MovedUp(s, N, k)
  OBVIOUS
<1>6. /\ N \in Nat /\ s \in [1 .. N -> 1 .. N]
      /\ \A h \in DOMAIN a.index : a.index[h] \in 1 .. N /\ a.entries[a.index[h]].ip = h
  BY <1>1, IndexFacts DEF Good, Threaded, Indexed
<1>7. HostOrder(b, t) = MovedUp(HostOrder(a, s), N, k)
  <2>1. PICK o : o = HostOrder(a, s)
    OBVIOUS
  <2>2. MovedUp(o, N, k) =
          [j \in 1 .. N |-> IF j = 1 THEN o[k] ELSE IF j <= k THEN o[j - 1] ELSE o[j]]
    BY SMTT(30), <1>6, MovedUpFacts
  <2>3. t = [j \in 1 .. N |-> IF j = 1 THEN s[k] ELSE IF j <= k THEN s[j - 1] ELSE s[j]]
    <3>1. MovedUp(s, N, k) =
            [j \in 1 .. N |-> IF j = 1 THEN s[k] ELSE IF j <= k THEN s[j - 1] ELSE s[j]]
      BY ZenonT(30), <1>6, MovedUpFacts
    <3> QED
      BY <1>5, <3>1
  <2>4. HostOrder(b, t) = [j \in 1 .. N |-> b.entries[t[j]].ip]
    BY <1>3 DEF HostOrder
  <2>5. o = [j \in 1 .. N |-> a.entries[s[j]].ip]
    BY <1>1, <2>1 DEF HostOrder
  <2>6. ASSUME NEW j \in 1 .. N
        PROVE  b.entries[t[j]].ip = IF j = 1 THEN o[k] ELSE IF j <= k THEN o[j - 1] ELSE o[j]
    <3>1. \A x \in 1 .. N : b.entries[s[x]].ip = o[x]
      BY <1>3, <1>6, <2>5
    <3>2. CASE j = 1
      BY <2>3, <3>1, <3>2
    <3>3. CASE j # 1 /\ j <= k
      <4>1. j - 1 \in 1 .. N
        BY <1>6, <3>3
      <4> QED
        BY <2>3, <3>1, <3>3, <4>1
    <3>4. CASE j # 1 /\ ~(j <= k)
      BY <2>3, <3>1, <3>4
    <3> QED
      BY <3>2, <3>3, <3>4
  <2> QED
    BY <2>1, <2>2, <2>4, <2>6
<1>8. /\ Entry(b, ip).id = Entry(a, ip).id /\ Entry(b, ip).asn = Entry(a, ip).asn
      /\ Entry(b, ip).families = Entry(a, ip).families \cup fam
  BY <1>3, <1>6 DEF Entry
<1>9. ASSUME NEW h \in DOMAIN b.index, h # ip PROVE Kept(a, b, h)
  <2>0. DOMAIN b.index = DOMAIN a.index
    BY <1>3
  <2>1. h \in DOMAIN a.index /\ a.index[h] \in 1 .. N /\ a.index[h] # a.index[ip]
    <3>1. \A g \in DOMAIN a.index : a.index[g] \in 1 .. N /\ a.entries[a.index[g]].ip = g
      BY <1>6
    <3> QED
      BY <2>0, <3>1, <1>9
  <2> QED
    BY ZenonT(30), <1>3, <2>1 DEF Kept, Entry
<1> QED
  BY <1>1, <1>2, <1>3, <1>4, <1>5, <1>7, <1>8, <1>9

-----------------------------------------------------------------------------
(* touch                                                                   *)

\* b, in the order of t, is a, in the order of s, after ip was seen, with fam.
Touched(a, s, ip, fam, b, t) ==
  /\ Good(b, t) /\ ip \in DOMAIN b.index
  /\ \A h \in DOMAIN b.index : h # ip => Kept(a, b, h)
  /\ fam \subseteq Entry(b, ip).families
  /\ IF ip \in DOMAIN a.index
     THEN /\ DOMAIN b.index = DOMAIN a.index /\ b.next_id = a.next_id
          /\ Entry(b, ip).id = Entry(a, ip).id /\ Entry(b, ip).asn = Entry(a, ip).asn
          /\ Entry(b, ip).families = Entry(a, ip).families \cup fam
          /\ Len(b.entries) = Len(a.entries)
          /\ \E k \in 1 .. Len(a.entries) :
               /\ HostOrder(a, s)[k] = ip
               /\ HostOrder(b, t) = MovedUp(HostOrder(a, s), Len(a.entries), k)
     ELSE /\ b.next_id = NextId(a.next_id)
          /\ Entry(b, ip).id = a.next_id /\ Entry(b, ip).asn = "none"
          /\ Entry(b, ip).families = fam
          /\ Len(b.entries) = Room(a)
          /\ HostOrder(b, t) = [j \in 1 .. Room(a) |->
               IF j = 1 THEN ip ELSE HostOrder(a, s)[j - 1]]

LEMMA TouchGood ==
  ASSUME NEW a, NEW s, Good(a, s), NEW ip \in Host, NEW fam \in Families
  PROVE  \E t : Touched(a, s, ip, fam, Touch(a, ip, fam), t)
<1>1. CASE ip \in DOMAIN a.index
  <2>1. PICK b, t, k :
          /\ b = Renew(a, ip, fam) /\ Good(b, t) /\ k \in 1 .. Len(a.entries)
          /\ Len(b.entries) = Len(a.entries) /\ b.next_id = a.next_id
          /\ DOMAIN b.index = DOMAIN a.index
          /\ HostOrder(a, s)[k] = ip
          /\ HostOrder(b, t) = MovedUp(HostOrder(a, s), Len(a.entries), k)
          /\ Entry(b, ip).id = Entry(a, ip).id /\ Entry(b, ip).asn = Entry(a, ip).asn
          /\ Entry(b, ip).families = Entry(a, ip).families \cup fam
          /\ \A h \in DOMAIN b.index : h # ip => Kept(a, b, h)
    BY <1>1, RenewHosts
  <2>2. b = Touch(a, ip, fam)
    BY <1>1, <2>1 DEF Touch, Known
  <2>3. Touched(a, s, ip, fam, b, t)
    BY <1>1, <2>1 DEF Touched
  <2> QED
    BY <2>2, <2>3
<1>2. CASE ip \notin DOMAIN a.index
  <2>1. PICK b, t :
          /\ b = Enter(a, ip, fam) /\ Good(b, t)
          /\ Len(b.entries) = Room(a) /\ b.next_id = NextId(a.next_id)
          /\ HostOrder(b, t) = [j \in 1 .. Room(a) |->
               IF j = 1 THEN ip ELSE HostOrder(a, s)[j - 1]]
          /\ ip \in DOMAIN b.index /\ Entry(b, ip).id = a.next_id
          /\ Entry(b, ip).families = fam /\ Entry(b, ip).asn = "none"
          /\ \A h \in DOMAIN b.index : h # ip => Kept(a, b, h)
    BY <1>2, EnterGood
  <2>2. b = Touch(a, ip, fam)
    BY <1>2, <2>1 DEF Touch, Known
  <2>3. Touched(a, s, ip, fam, b, t)
    BY <1>2, <2>1 DEF Touched
  <2> QED
    BY <2>2, <2>3
<1> QED
  BY <1>1, <1>2

\* The hosts in L are known and come first in the order s of a.
Fronted(a, s, L) ==
  /\ L \subseteq DOMAIN a.index
  /\ \A i, j \in 1 .. Len(a.entries) :
       (i < j /\ HostOrder(a, s)[j] \in L) => HostOrder(a, s)[i] \in L

\* The host at the end of a full arena is none of fewer hosts that come first.
LEMMA LastIsOld ==
  ASSUME NEW a, NEW s, Good(a, s), NEW L, Fronted(a, s, L),
         IsFiniteSet(L), Cardinality(L) < ArenaCap, ~(Len(a.entries) < ArenaCap)
  PROVE  HostOrder(a, s)[Len(a.entries)] \notin L
<1> DEFINE N == Len(a.entries)
           o == HostOrder(a, s)
<1>1. /\ N = ArenaCap /\ N \in Nat /\ N # 0 /\ o \in [1 .. N -> DOMAIN a.index]
      /\ \A j, k \in 1 .. N : o[j] = o[k] => j = k
  <2>1. /\ N \in Nat /\ N <= ArenaCap /\ o \in [1 .. N -> DOMAIN a.index]
        /\ \A j, k \in 1 .. N : o[j] = o[k] => j = k
    BY OrderFacts
  <2> QED
    BY <2>1, ArenaAssumption
<1>2. SUFFICES ASSUME o[N] \in L PROVE FALSE
  OBVIOUS
<1>3. \A i \in 1 .. N : o[i] \in L
  BY <1>1, <1>2 DEF Fronted
<1> HIDE DEF N, o
<1>4. o \in [1 .. N -> L]
  BY <1>1, <1>3
<1>5. o \in Injection(1 .. N, L)
  BY <1>1, <1>4 DEF Injection, IsInjective
<1>6. Cardinality(1 .. N) = N
  BY <1>1, FS_Interval
<1>7. Cardinality(1 .. N) <= Cardinality(L) /\ Cardinality(L) \in Nat
  BY <1>5, FS_Injection, FS_CardinalityType
<1> QED
  BY <1>1, <1>6, <1>7

\* Seeing a known host again leaves those that came first, and it, in front.
LEMMA RenewFronted ==
  ASSUME NEW a, NEW s, Good(a, s), NEW ip \in DOMAIN a.index, NEW fam, NEW b, NEW t,
         Touched(a, s, ip, fam, b, t), NEW L, Fronted(a, s, L)
  PROVE  Fronted(b, t, L \cup {ip})
<1> DEFINE N == Len(a.entries)
           o == HostOrder(a, s)
           q == HostOrder(b, t)
<1>1. N \in Nat /\ \A j, k \in 1 .. N : o[j] = o[k] => j = k
  BY OrderFacts
<1>2. DOMAIN b.index = DOMAIN a.index /\ Len(b.entries) = N
  BY DEF Touched
<1>3. PICK k \in 1 .. N : o[k] = ip /\ q = MovedUp(o, N, k)
  BY DEF Touched
<1>4. \A i, j \in 1 .. N : (i < j /\ o[j] \in L) => o[i] \in L
  BY DEF Fronted
<1> HIDE DEF N, o, q
<1>5. q = [j \in 1 .. N |-> IF j = 1 THEN o[k] ELSE IF j <= k THEN o[j - 1] ELSE o[j]]
  BY <1>1, <1>3, MovedUpFacts
<1>6. ASSUME NEW i \in 1 .. N, NEW j \in 1 .. N, i < j, q[j] \in L \cup {ip}
      PROVE  q[i] \in L \cup {ip}
  <2>1. CASE i = 1
    BY <1>3, <1>5, <2>1
  <2>2. CASE i # 1
    <3> DEFINE u(x) == IF x <= k THEN x - 1 ELSE x
    <3>1. /\ u(i) \in 1 .. N /\ u(j) \in 1 .. N /\ u(i) < u(j) /\ u(j) # k
          /\ i # 1 /\ j # 1
      BY <1>1, <1>6, <2>2
    <3>2. q[i] = o[u(i)] /\ q[j] = o[u(j)]
      BY <1>5, <3>1
    <3> HIDE DEF u
    <3>3. q[j] # ip
      BY <1>1, <1>3, <3>1, <3>2
    <3> QED
      BY <1>4, <1>6, <3>1, <3>2, <3>3
  <2> QED
    BY <2>1, <2>2
<1> QED
  BY <1>2, <1>6 DEF Fronted, q

\* So does seeing a new host, when the hosts that came first are fewer than there is
\* room for.
LEMMA EnterFronted ==
  ASSUME NEW a, NEW s, Good(a, s), NEW ip, ip \notin DOMAIN a.index, NEW fam, NEW b, NEW t,
         Touched(a, s, ip, fam, b, t), NEW L, Fronted(a, s, L),
         IsFiniteSet(L), Cardinality(L) < ArenaCap
  PROVE  Fronted(b, t, L \cup {ip})
<1> DEFINE N == Len(a.entries)
           M == Room(a)
           o == HostOrder(a, s)
           q == HostOrder(b, t)
<1>1. /\ N \in Nat /\ N <= ArenaCap /\ ArenaCap \in Nat
      /\ M = IF N < ArenaCap THEN N + 1 ELSE N
      /\ \A h \in DOMAIN a.index : \E k \in 1 .. N : o[k] = h
  <2>1. /\ N \in Nat /\ N <= ArenaCap
        /\ \A h \in DOMAIN a.index : \E k \in 1 .. N : o[k] = h
    BY OrderFacts
  <2> QED
    BY <2>1, ArenaAssumption DEF Room
<1>2. Good(b, t) /\ Len(b.entries) = M /\ q = [j \in 1 .. M |-> IF j = 1 THEN ip ELSE o[j - 1]]
  BY DEF Touched
<1>3. q \in [1 .. M -> DOMAIN b.index]
  <2>1. q \in [1 .. Len(b.entries) -> DOMAIN b.index]
    BY <1>2, OrderFacts
  <2> QED
    BY <1>2, <2>1
<1>4. /\ \A i, j \in 1 .. N : (i < j /\ o[j] \in L) => o[i] \in L
      /\ L \subseteq DOMAIN a.index
  BY DEF Fronted
<1>5. ~(N < ArenaCap) => o[N] \notin L
  BY LastIsOld
<1> HIDE DEF N, M, o, q
<1>6. ASSUME NEW h \in L \cup {ip} PROVE h \in DOMAIN b.index
  <2>1. CASE h = ip
    BY <2>1 DEF Touched
  <2>2. CASE h # ip
    <3>1. PICK k \in 1 .. N : o[k] = h
      BY <1>1, <1>4, <2>2
    <3>2. k + 1 \in 1 .. M
      BY <1>1, <1>5, <2>2, <3>1
    <3>3. k + 1 # 1 /\ (k + 1) - 1 = k
      BY <1>1
    <3>4. q[k + 1] = h
      BY <1>2, <3>1, <3>2, <3>3
    <3> QED
      BY <1>3, <3>2, <3>4
  <2> QED
    BY <2>1, <2>2
<1>7. ASSUME NEW i \in 1 .. M, NEW j \in 1 .. M, i < j, q[j] \in L \cup {ip}
      PROVE  q[i] \in L \cup {ip}
  <2>1. CASE i = 1
    BY <1>2, <2>1
  <2>2. CASE i # 1
    <3>1. /\ i - 1 \in 1 .. N /\ j - 1 \in 1 .. N /\ i - 1 < j - 1 /\ j # 1
      BY <1>1, <1>7, <2>2
    <3>2. q[i] = o[i - 1] /\ q[j] = o[j - 1]
      BY <1>2, <2>2, <3>1
    <3>3. o[j - 1] # ip
      <4>1. N \in Nat /\ o \in [1 .. N -> DOMAIN a.index]
        BY OrderFacts DEF N, o
      <4> QED
        BY <3>1, <4>1
    <3> QED
      BY <1>4, <1>7, <3>1, <3>2, <3>3
  <2> QED
    BY <2>1, <2>2
<1> QED
  BY <1>2, <1>6, <1>7 DEF Fronted, q

-----------------------------------------------------------------------------
(* iter_mru                                                                *)

\* Following next from the head meets the slots of s, in their order.
LEMMA WalkIs ==
  ASSUME NEW a \in ArenaRec, NEW s, Threaded(a, s, Len(a.entries))
  PROVE  Walk(a) = [k \in 1 .. Len(a.entries) + 1 |->
                      IF k <= Len(a.entries) THEN s[k] ELSE NIL]
<1> DEFINE N == Len(a.entries)
           at[k \in 1 .. N + 1] == IF k = 1 THEN a.head ELSE After(a, at[k - 1])
           g == [k \in 1 .. N + 1 |-> IF k <= N THEN s[k] ELSE NIL]
<1>1. /\ N \in Nat /\ s \in [1 .. N -> 1 .. N]
      /\ a.head = IF N = 0 THEN NIL ELSE s[1]
      /\ \A k \in 1 .. N : a.entries[s[k]].next = IF k = N THEN NIL ELSE s[k + 1]
  BY IndexFacts DEF Threaded
<1>2. Walk(a) = at
  BY DEF Walk
<1> HIDE DEF N, at
<1>3. g[1] = a.head
  BY <1>1
<1>4. ASSUME NEW k \in 2 .. N + 1 PROVE g[k] = After(a, g[k - 1])
  <2>1. k - 1 \in 1 .. N /\ k - 1 <= N /\ (k - 1) + 1 = k
    BY <1>1
  <2>2. g[k - 1] = s[k - 1] /\ s[k - 1] # NIL
    BY <1>1, <2>1 DEF NIL
  <2>3. After(a, g[k - 1]) = IF k - 1 = N THEN NIL ELSE s[k]
    BY <1>1, <2>1, <2>2 DEF After
  <2> QED
    BY <1>1, <2>1, <2>3
<1> HIDE DEF g
<1>5. g = [k \in 1 .. N + 1 |-> IF k = 1 THEN a.head ELSE After(a, g[k - 1])]
  <2>1. \A k \in 1 .. N + 1 : g[k] = IF k = 1 THEN a.head ELSE After(a, g[k - 1])
    <3>1. \A k \in 1 .. N + 1 : k # 1 => k \in 2 .. N + 1
      BY <1>1
    <3> QED
      BY <1>3, <1>4, <3>1
  <2>2. g = [k \in 1 .. N + 1 |-> g[k]]
    BY DEF g
  <2> QED
    BY <2>1, <2>2
<1>6. at = [k \in 1 .. N + 1 |-> IF k = 1 THEN a.head ELSE After(a, at[k - 1])]
  BY <1>5 DEF at
<1>7. \A k \in 1 .. N + 1 : at[k] = g[k]
  <2> DEFINE S == {k \in Nat : k + 1 <= N + 1 => at[k + 1] = g[k + 1]}
  <2>1. 0 \in S
    <3>1. 1 \in 1 .. N + 1
      BY <1>1
    <3>2. at[1] = a.head
      BY <1>6, <3>1
    <3> QED
      BY <1>3, <3>2
  <2>2. ASSUME NEW k \in 1 .. N, k - 1 \in S PROVE k \in S
    <3>1. k + 1 \in 1 .. N + 1 /\ k + 1 # 1 /\ (k + 1) - 1 = k /\ (k - 1) + 1 = k
      BY <1>1
    <3>2. at[k] = g[k]
      BY <1>1, <2>2, <3>1
    <3>3. at[k + 1] = After(a, at[k])
      BY <1>6, <3>1
    <3>4. g[k + 1] = After(a, g[k])
      BY <1>5, <3>1
    <3> QED
      BY <3>2, <3>3, <3>4
  <2> HIDE DEF S
  <2>3. 0 .. N \subseteq S
    BY <1>1, <2>1, <2>2, UpTo
  <2>4. ASSUME NEW k \in 1 .. N + 1 PROVE at[k] = g[k]
    <3>1. k - 1 \in 0 .. N /\ (k - 1) + 1 = k
      BY <1>1
    <3>2. k - 1 \in S
      BY <2>3, <3>1
    <3> QED
      BY <3>1, <3>2 DEF S
  <2> QED
    BY <2>4
<1>8. at = g
  <2>1. at = [k \in 1 .. N + 1 |-> at[k]]
    BY <1>6
  <2>2. g = [k \in 1 .. N + 1 |-> g[k]]
    BY <1>5
  <2> QED
    BY <1>7, <2>1, <2>2
<1> QED
  BY <1>2, <1>8 DEF g, N

\* iter_mru goes through the hosts in the order of the list.
LEMMA IterMruIs ==
  ASSUME NEW a, NEW s, Good(a, s)
  PROVE  IterMru(a) = HostOrder(a, s)
<1> DEFINE N == Len(a.entries)
<1>1. PICK at : at = Walk(a)
  OBVIOUS
<1>2. /\ N \in Nat /\ s \in [1 .. N -> 1 .. N] /\ a \in ArenaRec /\ Threaded(a, s, N)
  BY IndexFacts DEF Good, Threaded
<1>3. at = [k \in 1 .. N + 1 |-> IF k <= N THEN s[k] ELSE NIL]
  BY <1>1, <1>2, WalkIs
<1> HIDE DEF N
<1>4. {k \in DOMAIN at : at[k] # NIL} = 1 .. N
  BY <1>2, <1>3 DEF NIL
<1>5. Cardinality(1 .. N) = N
  BY <1>2, FS_Interval
<1>6. at \in Seq(Nat) /\ Len(at) = N + 1
  BY <1>2, <1>3 DEF NIL
<1>7. PICK u : u = SubSeq(at, 1, N)
  OBVIOUS
<1>8. DOMAIN u = 1 .. N /\ \A k \in 1 .. N : u[k] = at[k]
  BY <1>2, <1>6, <1>7
<1>9. Slots(a) = u
  BY <1>1, <1>4, <1>5, <1>7 DEF Slots
<1>10. ASSUME NEW k \in 1 .. N PROVE u[k] = s[k]
  <2>1. k \in 1 .. N + 1 /\ k <= N
    BY <1>2
  <2>2. at[k] = s[k]
    BY <1>3, <2>1
  <2> QED
    BY <1>8, <2>2
<1>11. IterMru(a) = [k \in 1 .. N |-> a.entries[u[k]].ip]
  BY <1>8, <1>9 DEF IterMru
<1> QED
  BY <1>10, <1>11 DEF HostOrder, N

-----------------------------------------------------------------------------
(* The invariant                                                           *)

Keys == {Parse(p).key : p \in AllPackets}
FlowRec == [app : Labels, bytes : Nat, age : Nat, status : {"Active"} \cup Notes,
            origin : {"Host", "Intel"}]
Totals == [Labels -> Nat]

Types ==
  /\ flows \in UNION {[D -> FlowRec] : D \in SUBSET Keys}
  /\ IsFiniteSet(DOMAIN flows) /\ Cardinality(DOMAIN flows) <= MaxLiveFlows
  /\ proto_bytes \in Totals
  /\ enricher \in [pc : {"idle", "mark", "send", "wait"}, ip : Host \cup {"none"}]
  /\ enricher.pc # "idle" => enricher.ip \in Host
  /\ events \in 0 .. MaxEvents

\* The hosts of the live flows are the ones seen last.
HostsFronted == \E s : Good(peers, s) /\ Fronted(peers, s, LiveHosts)

\* What a live flow has been labelled its host is known for.
FamiliesKnown ==
  \A k \in DOMAIN flows : Family(flows[k].app) \subseteq Entry(peers, k.remote).families

\* What the cache holds for a block is about that block.
CacheOfOwnBlock == \A c \in DOMAIN asn_cache : asn_cache[c] \in {"none", c}

MonitorInv ==
  Types /\ HostsFronted /\ FamiliesKnown /\ AsnOfOwnBlock /\ CacheOfOwnBlock

-----------------------------------------------------------------------------
(* Labels                                                                  *)

LEMMA RankNat ==
  ASSUME NEW app
  PROVE  Rank(app) \in Nat
BY DEF Rank

LEMMA FamilyFacts ==
  ASSUME NEW app
  PROVE  Family(app) \in Families
BY DEF Family, Families

LEMMA ObfuscatedFacts ==
  /\ "Obfuscated" \in Labels /\ "ObfuscatedBt" \in Labels
  /\ Family("Obfuscated") = {} /\ Family("ObfuscatedBt") = {}
BY DEF Labels, Family

\* What a packet is taken for.
LEMMA ParseFacts ==
  ASSUME NEW p \in AllPackets, ~Unparsed(p)
  PROVE  /\ Parse(p).key \in Keys /\ Parse(p).key.remote = p.remote
         /\ Parse(p).key.remote \in Host
         /\ Parse(p).app \in Labels /\ Parse(p).len \in Nat
<1>1. Parse(p).key \in Keys
  BY DEF Keys
<1>2. Parse(p).app \in Labels
  BY DEF Labels
<1>3. Parse(p).key.remote = p.remote /\ Parse(p).len = p.len
  BY DEF Parse, Finish
<1> QED
  BY <1>1, <1>2, <1>3, PacketAssumption DEF Host

LEMMA KeyFacts ==
  ASSUME NEW k \in Keys
  PROVE  k.remote \in Host
<1>1. PICK p \in AllPackets : k = Parse(p).key
  BY DEF Keys
<1>2. k.remote = p.remote
  BY <1>1 DEF Parse, Finish
<1> QED
  BY <1>2 DEF Host

-----------------------------------------------------------------------------
(* relabel                                                                 *)

LEMMA MovedTotals ==
  ASSUME NEW pb \in Totals, NEW from \in Labels, NEW to \in Labels, NEW n \in Nat
  PROVE  Moved(pb, from, to, n) \in Totals
<1>1. CASE n = 0
  BY <1>1 DEF Moved
<1>2. CASE n # 0
  <2>1. PICK x : x = IF pb[from] >= n THEN pb[from] - n ELSE 0
    OBVIOUS
  <2>2. pb[from] \in Nat /\ x \in Nat
    BY <2>1 DEF Totals
  <2>3. PICK c : c = [pb EXCEPT ![from] = x]
    OBVIOUS
  <2>4. c \in Totals
    BY <2>2, <2>3 DEF Totals
  <2>5. c[to] + n \in Nat
    BY <2>4 DEF Totals
  <2>6. Moved(pb, from, to, n) = [c EXCEPT ![to] = c[to] + n]
    BY <1>2, <2>1, <2>3 DEF Moved
  <2> QED
    BY <2>4, <2>5, <2>6 DEF Totals
<1> QED
  BY <1>1, <1>2

\* The flow of a packet or of tick's loop, the totals and the arena.
Working == [flow : FlowRec, totals : Totals, arena : ArenaRec]

LEMMA UnmaskedFacts ==
  ASSUME NEW w \in Working, NEW ip
  PROVE  LET x == Unmasked(w, ip)
         IN  /\ x \in Working /\ x.arena = w.arena
             /\ Family(x.flow.app) = Family(w.flow.app)
             /\ x.flow.app = "Obfuscated" => ~IsTorrenting(w.arena, ip)
<1> DEFINE x == Unmasked(w, ip)
<1>1. CASE w.flow.app = "Obfuscated" /\ IsTorrenting(w.arena, ip)
  <2>1. PICK f : f = [w.flow EXCEPT !.app = "ObfuscatedBt"]
    OBVIOUS
  <2>2. w.flow \in FlowRec /\ w.totals \in Totals /\ w.arena \in ArenaRec
    BY DEF Working
  <2>3. f \in FlowRec /\ f.app = "ObfuscatedBt"
    BY <2>1, <2>2, ObfuscatedFacts DEF FlowRec
  <2>4. PICK m : m = Moved(w.totals, "Obfuscated", "ObfuscatedBt", w.flow.bytes)
    OBVIOUS
  <2>5. m \in Totals
    <3>1. w.flow.bytes \in Nat
      BY <2>2 DEF FlowRec
    <3> QED
      BY <2>2, <2>4, <3>1, ObfuscatedFacts, MovedTotals
  <2>6. x = [w EXCEPT !.flow = f, !.totals = m]
    BY <1>1, <2>1, <2>4 DEF Unmasked
  <2>7. x \in Working /\ x.flow = f /\ x.arena = w.arena
    BY <2>2, <2>3, <2>5, <2>6 DEF Working
  <2> QED
    BY <1>1, <2>3, <2>7, ObfuscatedFacts
<1>2. CASE ~(w.flow.app = "Obfuscated" /\ IsTorrenting(w.arena, ip))
  BY <1>2 DEF Unmasked
<1> QED
  BY <1>1, <1>2

-----------------------------------------------------------------------------
(* record                                                                  *)

LEMMA TouchRec ==
  ASSUME NEW a, NEW s, Good(a, s), NEW ip \in Host, NEW fam \in Families
  PROVE  Touch(a, ip, fam) \in ArenaRec
<1>1. PICK b : b = Touch(a, ip, fam)
  OBVIOUS
<1>2. PICK t : Touched(a, s, ip, fam, b, t)
  BY <1>1, TouchGood
<1> QED
  BY <1>1, <1>2 DEF Touched, Good

\* A better label either comes too late or touches the host.
LEMMA UpgradedFacts ==
  ASSUME NEW w \in Working, NEW s, Good(w.arena, s), NEW ip \in Host, NEW app \in Labels
  PROVE  LET x == Upgraded(w, ip, app)
         IN  /\ x \in Working
             /\ \/ x = w
                \/ /\ x.arena = Touch(w.arena, ip, Family(app))
                   /\ x.flow.app = app /\ Rank(app) > Rank(w.flow.app)
<1> DEFINE x == Upgraded(w, ip, app)
<1>1. CASE Rank(app) <= Rank(w.flow.app)
  BY <1>1 DEF Upgraded
<1>2. CASE ~(Rank(app) <= Rank(w.flow.app))
  <2>1. PICK f : f = [w.flow EXCEPT !.app = app]
    OBVIOUS
  <2>2. w.flow \in FlowRec /\ w.totals \in Totals
    BY DEF Working
  <2>3. f \in FlowRec /\ f.app = app /\ w.flow.app \in Labels /\ w.flow.bytes \in Nat
    BY <2>1, <2>2 DEF FlowRec
  <2>4. PICK m : m = Moved(w.totals, w.flow.app, app, w.flow.bytes)
    OBVIOUS
  <2>5. m \in Totals
    BY <2>2, <2>3, <2>4, MovedTotals
  <2>6. PICK b : b = Touch(w.arena, ip, Family(app))
    OBVIOUS
  <2>7. b \in ArenaRec
    <3>1. PICK fam : fam = Family(app)
      OBVIOUS
    <3>2. fam \in Families
      BY <3>1, FamilyFacts
    <3>3. PICK a : a = w.arena
      OBVIOUS
    <3>4. Good(a, s)
      BY <3>3
    <3> QED
      BY <2>6, <3>1, <3>2, <3>3, <3>4, TouchRec
  <2>8. x = [flow |-> f, totals |-> m, arena |-> b]
    BY <1>2, <2>1, <2>4, <2>6 DEF Upgraded
  <2>9. x \in Working /\ x.flow = f /\ x.arena = b
    BY <2>3, <2>5, <2>7, <2>8 DEF Working
  <2>10. Rank(app) > Rank(w.flow.app)
    BY <1>2, RankNat
  <2> QED
    BY <2>3, <2>6, <2>9, <2>10
<1> QED
  BY <1>1, <1>2

\* What a packet of flow k does to the flows and to the hosts: the flow is g
\* afterwards, and its host was seen unless the label is what it was.
Noted(k, g) ==
  /\ k \in Keys /\ g \in FlowRec /\ flows' = Insert(flows, k, g)
  /\ k \in DOMAIN flows \/ Cardinality(DOMAIN flows) < MaxLiveFlows
  /\ \/ /\ k \in DOMAIN flows /\ peers' = peers
        /\ Family(g.app) = Family(flows[k].app)
     \/ \E fam \in Families : /\ peers' = Touch(peers, k.remote, fam)
                              /\ Family(g.app) \subseteq fam

\* The rest of record, after the first label was found.
LEMMA CountedFacts ==
  ASSUME NEW f \in FlowRec, proto_bytes \in Totals, NEW a, NEW s, Good(a, s),
         NEW q, q.key.remote \in Host, q.app \in Labels, q.len \in Nat,
         Counted([flow |-> f, totals |-> proto_bytes, arena |-> a], q)
  PROVE  /\ proto_bytes' \in Totals
         /\ \E g \in FlowRec :
              /\ flows' = Insert(flows, q.key, g)
              /\ \/ peers' = a /\ Family(g.app) = Family(f.app)
                 \/ /\ peers' = Touch(a, q.key.remote, Family(q.app))
                    /\ Family(g.app) = Family(q.app) /\ Rank(q.app) > Rank(f.app)
<1>1. PICK w : w = [flow |-> f, totals |-> proto_bytes, arena |-> a]
  OBVIOUS
<1>2. w \in Working /\ w.flow = f /\ w.arena = a
  BY <1>1 DEF Working, Good
<1>3. PICK ip : ip = q.key.remote
  OBVIOUS
<1>4. PICK x : x = Upgraded(w, ip, q.app)
  OBVIOUS
<1>5. /\ x \in Working
      /\ \/ x = w
         \/ /\ x.arena = Touch(a, ip, Family(q.app))
            /\ x.flow.app = q.app /\ Rank(q.app) > Rank(f.app)
  <2>1. PICK app : app = q.app
    OBVIOUS
  <2>2. app \in Labels /\ ip \in Host /\ Good(w.arena, s)
    BY <1>2, <1>3, <2>1
  <2>3. /\ x \in Working
        /\ \/ x = w
           \/ /\ x.arena = Touch(w.arena, ip, Family(app))
              /\ x.flow.app = app /\ Rank(app) > Rank(w.flow.app)
    BY <1>2, <1>4, <2>1, <2>2, UpgradedFacts
  <2> QED
    BY <1>2, <2>1, <2>3
<1>6. PICK t : t = Unmasked(x, ip)
  OBVIOUS
<1>7. t \in Working /\ t.arena = x.arena /\ Family(t.flow.app) = Family(x.flow.app)
  BY <1>5, <1>6, UnmaskedFacts
<1>8. PICK g : g = [t.flow EXCEPT !.bytes = t.flow.bytes + q.len, !.age = 0]
  OBVIOUS
<1>9. t.flow \in FlowRec /\ t.totals \in Totals
  BY <1>7 DEF Working
<1>10. g \in FlowRec /\ g.app = t.flow.app /\ t.flow.app \in Labels
  <2>1. PICK f2 : f2 = t.flow
    OBVIOUS
  <2>2. f2 \in FlowRec /\ f2.bytes \in Nat
    BY <1>9, <2>1 DEF FlowRec
  <2>3. PICK n : n = f2.bytes + q.len
    OBVIOUS
  <2>4. n \in Nat
    BY <2>2, <2>3
  <2>5. g = [f2 EXCEPT !.bytes = n, !.age = 0]
    BY <1>8, <2>1, <2>3
  <2>6. g \in FlowRec /\ g.app = f2.app /\ f2.app \in Labels
    BY <2>2, <2>4, <2>5 DEF FlowRec
  <2> QED
    BY <2>1, <2>6
<1>11. flows' = Insert(flows, q.key, g)
  BY <1>1, <1>3, <1>4, <1>6, <1>8 DEF Counted
<1>12. peers' = t.arena
  BY <1>1, <1>3, <1>4, <1>6 DEF Counted
<1>13. proto_bytes' \in Totals
  <2>1. proto_bytes' = [t.totals EXCEPT ![t.flow.app] = t.totals[t.flow.app] + q.len]
    BY <1>1, <1>3, <1>4, <1>6 DEF Counted
  <2>2. t.totals[t.flow.app] + q.len \in Nat
    BY <1>9, <1>10 DEF Totals
  <2> QED
    BY <1>9, <1>10, <2>1, <2>2 DEF Totals
<1>14. \/ peers' = a /\ Family(g.app) = Family(f.app)
       \/ /\ peers' = Touch(a, ip, Family(q.app))
          /\ Family(g.app) = Family(q.app) /\ Rank(q.app) > Rank(f.app)
  <2>1. CASE x = w
    BY <1>2, <1>7, <1>10, <1>12, <2>1
  <2>2. CASE x # w
    BY <1>5, <1>7, <1>10, <1>12, <2>2
  <2> QED
    BY <2>1, <2>2
<1> QED
  BY <1>3, <1>10, <1>11, <1>13, <1>14

LEMMA FlowsFacts ==
  ASSUME Types
  PROVE  /\ DOMAIN flows \in SUBSET Keys /\ flows \in [DOMAIN flows -> FlowRec]
         /\ \A k \in DOMAIN flows : flows[k] \in FlowRec /\ k.remote \in Host
BY KeyFacts DEF Types

\* There are no more live hosts than live flows.
LEMMA LiveHostsFew ==
  ASSUME Types
  PROVE  IsFiniteSet(LiveHosts) /\ Cardinality(LiveHosts) <= Cardinality(DOMAIN flows)
         /\ LiveHosts \subseteq Host
<1> DEFINE D == DOMAIN flows
           f == [k \in D |-> k.remote]
<1>1. f \in [D -> LiveHosts] /\ \A h \in LiveHosts : \E k \in D : f[k] = h
  BY DEF LiveHosts
<1>2. IsFiniteSet(D) /\ LiveHosts \subseteq Host
  BY FlowsFacts DEF Types, LiveHosts
<1> HIDE DEF D, f
<1>3. f \in Surjection(D, LiveHosts)
  BY <1>1 DEF Surjection
<1> QED
  BY <1>2, <1>3, FS_Surjection DEF D

LEMMA RecordFacts ==
  ASSUME Types, HostsFronted, NEW p \in AllPackets, Record(p)
  PROVE  /\ proto_bytes' \in Totals /\ events' \in 0 .. MaxEvents
         /\ \/ flows' = flows /\ peers' = peers
            \/ /\ events' = events + 1
               /\ \E k, g : Noted(k, g)
<1>1. PICK q : q = Parse(p)
  OBVIOUS
<1>2. q.key \in Keys /\ q.key.remote \in Host /\ q.app \in Labels /\ q.len \in Nat
  BY <1>1, ParseFacts DEF Record
<1>3. RecordDeclined(q) \/ RecordOpen(q) \/ RecordKnown(q)
  BY <1>1 DEF Record
<1>4. PICK s : Good(peers, s) /\ Fronted(peers, s, LiveHosts)
  BY DEF HostsFronted
<1>5. MaxEvents \in Nat /\ ArenaCap = MaxLiveFlows
  BY MonitorAssumption
<1>6. events' = events + 1 /\ events' \in 0 .. MaxEvents
  BY <1>3, <1>5 DEF RecordDeclined, RecordOpen, RecordKnown, See, Types
<1>7. PICK ip : ip = q.key.remote
  OBVIOUS
<1>8. PICK fam : fam = Family(q.app)
  OBVIOUS
<1>9. fam \in Families /\ ip \in Host
  BY <1>2, <1>7, <1>8, FamilyFacts
<1>10. proto_bytes \in Totals
  BY DEF Types
<1>11. CASE RecordDeclined(q)
  <2>1. flows' = flows /\ peers' = peers
    BY <1>11 DEF RecordDeclined
  <2>2. proto_bytes' = [proto_bytes EXCEPT ![q.app] = proto_bytes[q.app] + q.len]
    BY <1>11 DEF RecordDeclined
  <2>3. proto_bytes[q.app] + q.len \in Nat
    BY <1>2, <1>10 DEF Totals
  <2>4. proto_bytes' \in Totals
    BY <1>10, <2>2, <2>3 DEF Totals
  <2> QED
    BY <1>6, <2>1, <2>4
<1>12. CASE RecordOpen(q)
  <2>1. PICK f : f = [app |-> q.app, bytes |-> 0, age |-> 0, status |-> "Active",
                      origin |-> IF q.key \in DOMAIN own THEN "Intel" ELSE "Host"]
    OBVIOUS
  <2>2. f \in FlowRec /\ f.app = q.app
    BY <1>2, <2>1 DEF FlowRec
  <2>3. PICK a : a = Touch(peers, ip, fam)
    OBVIOUS
  <2>4. PICK t : Touched(peers, s, ip, fam, a, t)
    BY <1>4, <1>9, <2>3, TouchGood
  <2>5. Good(a, t)
    BY <2>4 DEF Touched
  <2>6. Counted([flow |-> f, totals |-> proto_bytes, arena |-> a], q)
    BY <1>7, <1>8, <1>12, <2>1, <2>3 DEF RecordOpen
  <2>7. proto_bytes' \in Totals
    BY <1>2, <1>10, <2>2, <2>5, <2>6, CountedFacts
  <2>8. PICK g \in FlowRec :
          /\ flows' = Insert(flows, q.key, g)
          /\ \/ peers' = a /\ Family(g.app) = Family(f.app)
             \/ /\ peers' = Touch(a, q.key.remote, Family(q.app))
                /\ Family(g.app) = Family(q.app) /\ Rank(q.app) > Rank(f.app)
    BY <1>2, <1>10, <2>2, <2>5, <2>6, CountedFacts
  <2>9. peers' = a /\ Family(g.app) = fam
    <3>1. ~(Rank(q.app) > Rank(f.app))
      BY <2>2, RankNat
    <3> QED
      BY <1>8, <2>2, <2>8, <3>1
  <2>10. Cardinality(DOMAIN flows) < MaxLiveFlows
    <3>1. ~(Cardinality(DOMAIN flows) >= MaxLiveFlows)
      BY <1>12 DEF RecordOpen, Full
    <3>2. Cardinality(DOMAIN flows) \in Nat /\ MaxLiveFlows \in Nat
      BY <1>5, ArenaAssumption, FS_CardinalityType DEF Types
    <3> QED
      BY <3>1, <3>2
  <2>11. Noted(q.key, g)
    BY <1>2, <1>7, <1>9, <2>3, <2>8, <2>9, <2>10 DEF Noted
  <2> QED
    BY <1>6, <2>7, <2>11
<1>13. CASE RecordKnown(q)
  <2>1. q.key \in DOMAIN flows
    BY <1>13 DEF RecordKnown
  <2>2. PICK f : f = flows[q.key]
    OBVIOUS
  <2>3. f \in FlowRec
    BY <2>1, <2>2, FlowsFacts
  <2>4. Counted([flow |-> f, totals |-> proto_bytes, arena |-> peers], q)
    BY <1>13, <2>2 DEF RecordKnown
  <2>5. proto_bytes' \in Totals
    BY <1>2, <1>4, <1>10, <2>3, <2>4, CountedFacts
  <2>6. PICK g \in FlowRec :
          /\ flows' = Insert(flows, q.key, g)
          /\ \/ peers' = peers /\ Family(g.app) = Family(f.app)
             \/ /\ peers' = Touch(peers, q.key.remote, Family(q.app))
                /\ Family(g.app) = Family(q.app) /\ Rank(q.app) > Rank(f.app)
    BY <1>2, <1>4, <1>10, <2>3, <2>4, CountedFacts
  <2>7. Noted(q.key, g)
    BY <1>2, <1>8, <1>9, <2>1, <2>2, <2>6 DEF Noted
  <2> QED
    BY <1>6, <2>5, <2>7
<1> QED
  BY <1>3, <1>11, <1>12, <1>13

\* The flows after a packet.
LEMMA NotedFlows ==
  ASSUME Types, NEW k, NEW g, Noted(k, g)
  PROVE  /\ DOMAIN flows' = DOMAIN flows \cup {k}
         /\ flows'[k] = g /\ \A j \in DOMAIN flows : j # k => flows'[j] = flows[j]
         /\ flows' \in UNION {[D -> FlowRec] : D \in SUBSET Keys}
         /\ IsFiniteSet(DOMAIN flows') /\ Cardinality(DOMAIN flows') <= MaxLiveFlows
         /\ LiveHosts' = LiveHosts \cup {k.remote}
<1>1. k \in Keys /\ g \in FlowRec
  BY DEF Noted
<1>2. flows' = [x \in DOMAIN flows \cup {k} |-> IF x = k THEN g ELSE flows[x]]
  BY DEF Noted, Insert
<1>3. DOMAIN flows \in SUBSET Keys /\ \A j \in DOMAIN flows : flows[j] \in FlowRec
  BY FlowsFacts
<1>4. PICK D : D = DOMAIN flows \cup {k}
  OBVIOUS
<1>5. flows' \in [D -> FlowRec] /\ D \in SUBSET Keys /\ DOMAIN flows' = D
  BY <1>1, <1>2, <1>3, <1>4
<1>6. IsFiniteSet(D) /\ Cardinality(D) <= MaxLiveFlows
  <2>1. IsFiniteSet(DOMAIN flows) /\ Cardinality(DOMAIN flows) <= MaxLiveFlows
    BY DEF Types
  <2>2. /\ IsFiniteSet(D)
        /\ Cardinality(D) = IF k \in DOMAIN flows THEN Cardinality(DOMAIN flows)
                            ELSE Cardinality(DOMAIN flows) + 1
    BY <1>4, <2>1, FS_AddElement
  <2>3. k \in DOMAIN flows \/ Cardinality(DOMAIN flows) < MaxLiveFlows
    BY DEF Noted
  <2>4. Cardinality(DOMAIN flows) \in Nat /\ MaxLiveFlows \in Nat
    BY <2>1, FS_CardinalityType, MonitorAssumption, ArenaAssumption
  <2> QED
    BY <2>1, <2>2, <2>3, <2>4
<1>7. LiveHosts' = LiveHosts \cup {k.remote}
  BY <1>4, <1>5 DEF LiveHosts
<1>8. flows'[k] = g /\ \A j \in DOMAIN flows : j # k => flows'[j] = flows[j]
  BY <1>2
<1> QED
  BY <1>4, <1>5, <1>6, <1>7, <1>8

\* The hosts after a packet.
LEMMA NotedHosts ==
  ASSUME Types, NEW s, Good(peers, s), Fronted(peers, s, LiveHosts), NEW k, NEW g, Noted(k, g)
  PROVE  \/ peers' = peers /\ k \in DOMAIN flows /\ Family(g.app) = Family(flows[k].app)
         \/ \E fam \in Families : \E t :
              /\ Touched(peers, s, k.remote, fam, peers', t)
              /\ Family(g.app) \subseteq fam
              /\ Fronted(peers', t, LiveHosts \cup {k.remote})
<1>1. PICK ip : ip = k.remote
  OBVIOUS
<1>2. ip \in Host
  BY <1>1, KeyFacts DEF Noted
<1>3. SUFFICES ASSUME NEW fam \in Families, peers' = Touch(peers, ip, fam),
                      Family(g.app) \subseteq fam
               PROVE  \E t : /\ Touched(peers, s, ip, fam, peers', t)
                             /\ Fronted(peers', t, LiveHosts \cup {ip})
  BY <1>1 DEF Noted
<1>4. PICK b : b = Touch(peers, ip, fam)
  OBVIOUS
<1>5. PICK t : Touched(peers, s, ip, fam, b, t)
  BY <1>2, <1>4, TouchGood
<1>6. Fronted(b, t, LiveHosts \cup {ip})
  <2>1. CASE ip \in DOMAIN peers.index
    BY <1>5, <2>1, RenewFronted
  <2>2. CASE ip \notin DOMAIN peers.index
    <3>1. k \notin DOMAIN flows
      BY <1>1, <2>2 DEF Fronted, LiveHosts
    <3>2. Cardinality(DOMAIN flows) < ArenaCap
      BY <3>1, MonitorAssumption DEF Noted
    <3>3. IsFiniteSet(LiveHosts) /\ Cardinality(LiveHosts) < ArenaCap
      <4>1. IsFiniteSet(LiveHosts) /\ Cardinality(LiveHosts) <= Cardinality(DOMAIN flows)
        BY LiveHostsFew
      <4>2. /\ Cardinality(LiveHosts) \in Nat /\ Cardinality(DOMAIN flows) \in Nat
            /\ ArenaCap \in Nat
        BY <4>1, FS_CardinalityType, ArenaAssumption DEF Types
      <4> QED
        BY <3>2, <4>1, <4>2
    <3> QED
      BY <1>5, <2>2, <3>3, EnterFronted
  <2> QED
    BY <2>1, <2>2
<1> QED
  BY <1>3, <1>4, <1>5, <1>6

\* A packet keeps what holds of the hosts.
LEMMA NotedKeeps ==
  ASSUME MonitorInv, NEW k, NEW g, Noted(k, g)
  PROVE  HostsFronted' /\ FamiliesKnown' /\ AsnOfOwnBlock'
<1>1. PICK s : Good(peers, s) /\ Fronted(peers, s, LiveHosts)
  BY DEF MonitorInv, HostsFronted
<1>2. Types /\ FamiliesKnown /\ AsnOfOwnBlock
  BY DEF MonitorInv
<1>3. /\ DOMAIN flows' = DOMAIN flows \cup {k}
      /\ flows'[k] = g /\ \A j \in DOMAIN flows : j # k => flows'[j] = flows[j]
      /\ LiveHosts' = LiveHosts \cup {k.remote}
  BY <1>2, NotedFlows
<1>4. CASE peers' = peers /\ k \in DOMAIN flows /\ Family(g.app) = Family(flows[k].app)
  <2>1. LiveHosts' = LiveHosts
    BY <1>3, <1>4 DEF LiveHosts
  <2>2. HostsFronted'
    BY <1>1, <1>4, <2>1 DEF HostsFronted
  <2>3. FamiliesKnown'
    <3>1. ASSUME NEW j \in DOMAIN flows'
          PROVE  Family(flows'[j].app) \subseteq Entry(peers', j.remote).families
      BY <1>2, <1>3, <1>4 DEF FamiliesKnown
    <3> QED
      BY <3>1 DEF FamiliesKnown
  <2>4. AsnOfOwnBlock'
    BY <1>2, <1>4 DEF AsnOfOwnBlock
  <2> QED
    BY <2>2, <2>3, <2>4
<1>5. CASE ~(peers' = peers /\ k \in DOMAIN flows /\ Family(g.app) = Family(flows[k].app))
  <2>1. PICK fam, t :
          /\ fam \in Families
          /\ Touched(peers, s, k.remote, fam, peers', t)
          /\ Family(g.app) \subseteq fam
          /\ Fronted(peers', t, LiveHosts \cup {k.remote})
    BY <1>1, <1>2, <1>5, NotedHosts
  <2>2. PICK ip : ip = k.remote
    OBVIOUS
  <2>3. PICK b : b = peers'
    OBVIOUS
  <2>4. /\ Good(b, t) /\ Fronted(b, t, LiveHosts \cup {ip}) /\ ip \in DOMAIN b.index
        /\ \A h \in DOMAIN b.index : h # ip => Kept(peers, b, h)
        /\ fam \subseteq Entry(b, ip).families
        /\ ip \in DOMAIN peers.index =>
             /\ Entry(b, ip).families = Entry(peers, ip).families \cup fam
             /\ Entry(b, ip).asn = Entry(peers, ip).asn
        /\ ip \notin DOMAIN peers.index => Entry(b, ip).asn = "none"
    BY <2>1, <2>2, <2>3 DEF Touched
  <2>5. HostsFronted'
    BY <1>3, <2>2, <2>3, <2>4 DEF HostsFronted
  <2>6. ASSUME NEW j \in DOMAIN flows'
        PROVE  Family(flows'[j].app) \subseteq Entry(b, j.remote).families
    <3>1. CASE j = k
      BY <1>3, <2>1, <2>2, <2>4, <3>1
    <3>2. CASE j # k
      <4>1. /\ j \in DOMAIN flows /\ flows'[j] = flows[j] /\ j.remote \in LiveHosts
            /\ Family(flows[j].app) \subseteq Entry(peers, j.remote).families
        BY <1>2, <1>3, <3>2 DEF FamiliesKnown, LiveHosts
      <4>2. j.remote \in DOMAIN peers.index /\ j.remote \in DOMAIN b.index
        BY <1>1, <2>4, <4>1 DEF Fronted
      <4>3. CASE j.remote = ip
        BY <2>4, <4>1, <4>2, <4>3
      <4>4. CASE j.remote # ip
        BY <2>4, <4>1, <4>2, <4>4 DEF Kept
      <4> QED
        BY <4>3, <4>4
    <3> QED
      BY <3>1, <3>2
  <2>7. ASSUME NEW h \in DOMAIN b.index PROVE Entry(b, h).asn \in {"none", Block[h]}
    <3>1. CASE h = ip
      BY <1>2, <2>4, <3>1 DEF AsnOfOwnBlock
    <3>2. CASE h # ip
      BY <1>2, <2>4, <3>2 DEF AsnOfOwnBlock, Kept
    <3> QED
      BY <3>1, <3>2
  <2>8. FamiliesKnown'
    BY <2>3, <2>6 DEF FamiliesKnown
  <2>9. AsnOfOwnBlock'
    BY <2>3, <2>7 DEF AsnOfOwnBlock
  <2> QED
    BY <2>5, <2>8, <2>9
<1> QED
  BY <1>4, <1>5

-----------------------------------------------------------------------------
(* The enricher                                                            *)

\* b says something else than a about the networks of its hosts.
Annotated(a, b) ==
  /\ b \in ArenaRec
  /\ b.index = a.index /\ b.head = a.head /\ b.tail = a.tail /\ b.next_id = a.next_id
  /\ Len(b.entries) = Len(a.entries)
  /\ \A i \in 1 .. Len(a.entries) :
       /\ b.entries[i].ip = a.entries[i].ip /\ b.entries[i].id = a.entries[i].id
       /\ b.entries[i].families = a.entries[i].families
       /\ b.entries[i].prev = a.entries[i].prev /\ b.entries[i].next = a.entries[i].next

LEMMA AnnotatedGood ==
  ASSUME NEW a, NEW s, Good(a, s), NEW b, Annotated(a, b)
  PROVE  /\ Good(b, s) /\ HostOrder(b, s) = HostOrder(a, s)
         /\ \A L : Fronted(a, s, L) => Fronted(b, s, L)
         /\ \A h \in DOMAIN a.index :
              /\ Entry(b, h).id = Entry(a, h).id
              /\ Entry(b, h).families = Entry(a, h).families
<1>1. PICK N : N = Len(a.entries)
  OBVIOUS
<1>2. /\ Threaded(a, s, N) /\ Indexed(a) /\ N <= ArenaCap
      /\ \A i \in 1 .. N : \E k \in 1 .. N : s[k] = i
  BY <1>1 DEF Good
<1>3. s \in [1 .. N -> 1 .. N] /\ Len(b.entries) = N
  BY <1>1, <1>2 DEF Threaded, Annotated
<1>4. /\ \A i, j \in 1 .. N : s[i] = s[j] => i = j
      /\ b.head = (IF N = 0 THEN NIL ELSE s[1]) /\ b.tail = (IF N = 0 THEN NIL ELSE s[N])
      /\ N \in Nat
  BY <1>2 DEF Threaded, Annotated
<1>5. \A k \in 1 .. N :
        /\ b.entries[s[k]].next = IF k = N THEN NIL ELSE s[k + 1]
        /\ b.entries[s[k]].prev = IF k = 1 THEN NIL ELSE s[k - 1]
        /\ b.entries[s[k]].ip = a.entries[s[k]].ip
  <2>1. \A k \in 1 .. N :
          /\ a.entries[s[k]].next = IF k = N THEN NIL ELSE s[k + 1]
          /\ a.entries[s[k]].prev = IF k = 1 THEN NIL ELSE s[k - 1]
    BY <1>2 DEF Threaded
  <2>2. \A i \in 1 .. N : /\ b.entries[i].prev = a.entries[i].prev
                          /\ b.entries[i].next = a.entries[i].next
                          /\ b.entries[i].ip = a.entries[i].ip
    BY <1>1 DEF Annotated
  <2> QED
    <3> SUFFICES ASSUME NEW k \in 1 .. N
                 PROVE  /\ b.entries[s[k]].next = IF k = N THEN NIL ELSE s[k + 1]
                        /\ b.entries[s[k]].prev = IF k = 1 THEN NIL ELSE s[k - 1]
                        /\ b.entries[s[k]].ip = a.entries[s[k]].ip
      OBVIOUS
    <3>1. s[k] \in 1 .. N
      BY <1>3
    <3>2. /\ b.entries[s[k]].prev = a.entries[s[k]].prev
          /\ b.entries[s[k]].next = a.entries[s[k]].next
          /\ b.entries[s[k]].ip = a.entries[s[k]].ip
      BY <2>2, <3>1
    <3> QED
      BY <2>1, <3>2
<1>6. Threaded(b, s, N)
  BY <1>3, <1>4, <1>5 DEF Threaded
<1>7. Indexed(b)
  <2>1. /\ b.index = a.index /\ \A i \in 1 .. N : b.entries[i].ip = a.entries[i].ip
    BY <1>1 DEF Annotated
  <2>2. /\ \A i \in 1 .. N : a.entries[i].ip \in DOMAIN a.index /\ a.index[a.entries[i].ip] = i
        /\ \A h \in DOMAIN a.index : a.index[h] \in 1 .. N /\ a.entries[a.index[h]].ip = h
    BY <1>1, <1>2 DEF Indexed
  <2> QED
    BY <1>3, <2>1, <2>2 DEF Indexed
<1>8. Good(b, s)
  BY <1>2, <1>3, <1>6, <1>7 DEF Good, Annotated
<1>9. HostOrder(b, s) = HostOrder(a, s)
  BY <1>1, <1>3, <1>5 DEF HostOrder
<1>10. ASSUME NEW L, Fronted(a, s, L) PROVE Fronted(b, s, L)
  BY <1>1, <1>3, <1>9, <1>10 DEF Fronted, Annotated
<1>11. ASSUME NEW h \in DOMAIN a.index
       PROVE  /\ Entry(b, h).id = Entry(a, h).id
              /\ Entry(b, h).families = Entry(a, h).families
  <2>1. a.index[h] \in 1 .. N
    BY <1>1, <1>2 DEF Indexed
  <2> QED
    BY <1>1, <2>1 DEF Entry, Annotated
<1> QED
  BY <1>8, <1>9, <1>10, <1>11

\* Writing networks into entries.
LEMMA AnnotatedBy ==
  ASSUME NEW a \in ArenaRec, NEW F, F \in Seq(EntryRec), Len(F) = Len(a.entries),
         \A i \in 1 .. Len(a.entries) :
           F[i] = a.entries[i] \/ \E x \in Asns : F[i] = [a.entries[i] EXCEPT !.asn = x]
  PROVE  Annotated(a, [a EXCEPT !.entries = F])
<1>1. PICK b : b = [a EXCEPT !.entries = F]
  OBVIOUS
<1>2. /\ b \in ArenaRec /\ b.entries = F /\ b.index = a.index /\ b.head = a.head
      /\ b.tail = a.tail /\ b.next_id = a.next_id
  BY <1>1 DEF ArenaRec
<1>3. ASSUME NEW i \in 1 .. Len(a.entries)
      PROVE  /\ F[i].ip = a.entries[i].ip /\ F[i].id = a.entries[i].id
             /\ F[i].families = a.entries[i].families
             /\ F[i].prev = a.entries[i].prev /\ F[i].next = a.entries[i].next
  <2>1. PICK e : e = a.entries[i]
    OBVIOUS
  <2>2. e \in EntryRec
    BY <2>1, IndexFacts
  <2>3. ASSUME NEW x \in Asns
        PROVE  LET y == [e EXCEPT !.asn = x]
               IN  /\ y.ip = e.ip /\ y.id = e.id /\ y.families = e.families
                   /\ y.prev = e.prev /\ y.next = e.next
    BY <2>2 DEF EntryRec
  <2>4. CASE F[i] = e
    BY <2>1, <2>4
  <2>5. CASE \E x \in Asns : F[i] = [e EXCEPT !.asn = x]
    <3>1. PICK x \in Asns : F[i] = [e EXCEPT !.asn = x]
      BY <2>5
    <3> QED
      BY <2>1, <2>3, <3>1
  <2> QED
    BY <2>1, <2>4, <2>5
<1> QED
  BY <1>1, <1>2, <1>3 DEF Annotated

\* A step that leaves the labels of the flows alone, and of the arena changes what is
\* said about networks at most.
LEMMA AnnotatedKeeps ==
  ASSUME MonitorInv, Annotated(peers, peers'), DOMAIN flows' = DOMAIN flows,
         \A k \in DOMAIN flows : flows'[k].app = flows[k].app,
         \A h \in DOMAIN peers.index : Entry(peers', h).asn \in {"none", Block[h]}
  PROVE  HostsFronted' /\ FamiliesKnown' /\ AsnOfOwnBlock'
<1>1. PICK s : Good(peers, s) /\ Fronted(peers, s, LiveHosts)
  BY DEF MonitorInv, HostsFronted
<1>2. PICK b : b = peers'
  OBVIOUS
<1>3. /\ Good(b, s) /\ Fronted(b, s, LiveHosts) /\ b.index = peers.index
      /\ \A h \in DOMAIN peers.index : Entry(b, h).families = Entry(peers, h).families
  <2>1. Annotated(peers, b) /\ b.index = peers.index
    BY <1>2 DEF Annotated
  <2> QED
    BY <1>1, <2>1, AnnotatedGood
<1>4. LiveHosts' = LiveHosts
  BY DEF LiveHosts
<1>5. HostsFronted'
  BY <1>2, <1>3, <1>4 DEF HostsFronted
<1>6. ASSUME NEW k \in DOMAIN flows'
      PROVE  Family(flows'[k].app) \subseteq Entry(b, k.remote).families
  <2>1. k \in DOMAIN flows /\ flows'[k].app = flows[k].app /\ k.remote \in LiveHosts
    BY DEF LiveHosts
  <2>2. k.remote \in DOMAIN peers.index
    BY <1>1, <2>1 DEF Fronted
  <2> QED
    BY <1>3, <2>1, <2>2 DEF MonitorInv, FamiliesKnown
<1>7. FamiliesKnown'
  BY <1>2, <1>6 DEF FamiliesKnown
<1>8. AsnOfOwnBlock'
  BY <1>2, <1>3 DEF AsnOfOwnBlock
<1> QED
  BY <1>5, <1>7, <1>8

\* The same for a step that leaves the arena alone.
LEMMA UntouchedKeeps ==
  ASSUME MonitorInv, peers' = peers, DOMAIN flows' = DOMAIN flows,
         \A k \in DOMAIN flows : flows'[k].app = flows[k].app
  PROVE  HostsFronted' /\ FamiliesKnown' /\ AsnOfOwnBlock'
<1>1. peers \in ArenaRec
  BY DEF MonitorInv, HostsFronted, Good
<1>2. Annotated(peers, peers')
  BY <1>1 DEF Annotated
<1>3. \A h \in DOMAIN peers.index : Entry(peers', h).asn \in {"none", Block[h]}
  BY DEF MonitorInv, AsnOfOwnBlock
<1> QED
  BY <1>2, <1>3, AnnotatedKeeps

\* enrich_candidate
LEMMA CandidateKeeps ==
  ASSUME MonitorInv, EnrichCandidate
  PROVE  MonitorInv' /\ Annotated(peers, peers')
<1>1. PICK s : Good(peers, s) /\ Fronted(peers, s, LiveHosts)
  BY DEF MonitorInv, HostsFronted
<1>2. PICK N : N = Len(peers.entries)
  OBVIOUS
<1>3. PICK o : o = HostOrder(peers, s)
  OBVIOUS
<1>4. /\ N \in Nat /\ o \in [1 .. N -> DOMAIN peers.index] /\ DOMAIN peers.index \subseteq Host
      /\ IterMru(peers) = o /\ peers \in ArenaRec /\ Indexed(peers)
  BY <1>1, <1>2, <1>3, OrderFacts, IterMruIs DEF Good
<1>5. DOMAIN o = 1 .. N /\ Len(o) = N
  BY <1>4
<1> DEFINE asks == {i \in DOMAIN o : /\ Unknown(Entry(peers, o[i]))
                                     /\ Block[o[i]] \notin DOMAIN asn_cache}
           upto == IF asks = {} THEN Len(o) ELSE Min(asks) - 1
           filled == {o[i] : i \in {j \in 1 .. upto : Unknown(Entry(peers, o[j]))}}
           F == [i \in DOMAIN peers.entries |->
                   LET e == peers.entries[i]
                   IN  IF e.ip \in filled THEN [e EXCEPT !.asn = asn_cache[Block[e.ip]]]
                                          ELSE e]
<1>6. /\ peers' = [peers EXCEPT !.entries = F]
      /\ enricher' = IF asks = {} THEN Idle ELSE [pc |-> "mark", ip |-> o[Min(asks)]]
      /\ UNCHANGED <<flows, archive, proto_bytes, total, own, asn_cache, events, untracked>>
  BY <1>4 DEF EnrichCandidate
<1>7. asks # {} => Min(asks) \in asks /\ \A i \in asks : Min(asks) <= i
  <2>1. asks \in SUBSET Nat
    BY <1>5
  <2> HIDE DEF asks
  <2>2. asks # {} => \E x \in asks : \A i \in asks : x <= i
    BY <2>1, LeastExists
  <2> QED
    BY <2>2 DEF Min
<1>8. ASSUME NEW h \in filled
      PROVE  h \in DOMAIN peers.index /\ Block[h] \in DOMAIN asn_cache
  <2>1. PICK j \in 1 .. upto : Unknown(Entry(peers, o[j])) /\ h = o[j]
    BY <1>8
  <2>2. upto \in 0 .. N /\ j \notin asks
    <3>1. CASE asks = {}
      BY <1>5, <2>1, <3>1
    <3>2. CASE asks # {}
      <4>1. Min(asks) \in 1 .. N /\ \A i \in asks : Min(asks) <= i /\ i \in 1 .. N
        BY <1>5, <1>7, <3>2
      <4> HIDE DEF asks
      <4> QED
        BY <2>1, <3>2, <4>1, <1>4
    <3> QED
      BY <3>1, <3>2
  <2>3. j \in 1 .. N
    BY <1>4, <2>1, <2>2
  <2> QED
    BY <1>4, <1>5, <2>1, <2>2, <2>3
<1>9. ASSUME NEW h \in filled
      PROVE  asn_cache[Block[h]] \in {"none", Block[h]} /\ asn_cache[Block[h]] \in Asns
  BY <1>4, <1>8 DEF MonitorInv, CacheOfOwnBlock, Asns
<1> HIDE DEF filled, upto, asks
<1>10. /\ DOMAIN F = 1 .. N /\ peers.entries \in Seq(EntryRec)
       /\ \A i \in 1 .. N : peers.entries[i] \in EntryRec
  BY <1>2, <1>4, IndexFacts
<1>11. ASSUME NEW i \in 1 .. N
       PROVE  /\ F[i] \in EntryRec
              /\ \/ F[i] = peers.entries[i]
                 \/ \E x \in Asns : F[i] = [peers.entries[i] EXCEPT !.asn = x]
              /\ F[i].asn = peers.entries[i].asn \/ F[i].asn \in {"none", Block[peers.entries[i].ip]}
  <2>1. PICK e : e = peers.entries[i]
    OBVIOUS
  <2>2. e \in EntryRec
    BY <1>10, <2>1
  <2>3. CASE e.ip \in filled
    <3>1. PICK x \in Asns : x = asn_cache[Block[e.ip]]
      BY <1>9, <2>3
    <3>2. F[i] = [e EXCEPT !.asn = x]
      BY <1>10, <2>1, <2>3, <3>1
    <3>3. [e EXCEPT !.asn = x] \in EntryRec /\ [e EXCEPT !.asn = x].asn = x
      BY <2>2 DEF EntryRec
    <3>4. x \in {"none", Block[e.ip]}
      BY <1>9, <2>3, <3>1
    <3> QED
      BY <2>1, <3>1, <3>2, <3>3, <3>4
  <2>4. CASE e.ip \notin filled
    BY <1>10, <2>1, <2>2, <2>4
  <2> QED
    BY <2>3, <2>4
<1> HIDE DEF F
<1>12. F \in Seq(EntryRec) /\ Len(F) = Len(peers.entries)
  <2>1. \A i \in 1 .. N : F[i] \in EntryRec
    BY <1>11
  <2>2. F = [i \in 1 .. N |-> F[i]]
    BY <1>10 DEF F
  <2>3. F \in [1 .. N -> EntryRec]
    BY <2>1, <2>2
  <2> QED
    BY <1>2, <1>4, <2>3
<1>13. Annotated(peers, [peers EXCEPT !.entries = F])
  BY <1>2, <1>4, <1>11, <1>12, AnnotatedBy
<1>14. ASSUME NEW h \in DOMAIN peers.index
       PROVE  Entry(peers', h).asn \in {"none", Block[h]}
  <2>1. PICK i \in 1 .. N : i = peers.index[h] /\ peers.entries[i].ip = h
    BY <1>2, <1>4 DEF Indexed
  <2>2. Entry(peers', h) = F[i] /\ Entry(peers, h) = peers.entries[i]
    BY <1>4, <1>6, <2>1 DEF Entry, ArenaRec
  <2>3. peers.entries[i].asn \in {"none", Block[h]}
    BY <2>2 DEF MonitorInv, AsnOfOwnBlock
  <2> QED
    BY <1>11, <2>1, <2>2, <2>3
<1>15. HostsFronted' /\ FamiliesKnown' /\ AsnOfOwnBlock'
  BY <1>6, <1>13, <1>14, AnnotatedKeeps
<1>16. /\ enricher' \in [pc : {"idle", "mark", "send", "wait"}, ip : Host \cup {"none"}]
       /\ enricher'.pc # "idle" => enricher'.ip \in Host
  <2>1. CASE asks = {}
    BY <1>6, <2>1 DEF Idle
  <2>2. CASE asks # {}
    <3>1. PICK h \in Host : h = o[Min(asks)]
      BY <1>4, <1>5, <1>7, <2>2 DEF asks
    <3> QED
      BY <1>6, <2>2, <3>1
  <2> QED
    BY <2>1, <2>2
<1>17. Types'
  BY <1>6, <1>16 DEF MonitorInv, Types
<1>18. CacheOfOwnBlock'
  BY <1>6 DEF MonitorInv, CacheOfOwnBlock
<1> QED
  BY <1>6, <1>13, <1>15, <1>17, <1>18 DEF MonitorInv

\* enrich
LEMMA EnrichKeeps ==
  ASSUME MonitorInv, Enrich
  PROVE  MonitorInv' /\ Annotated(peers, peers')
<1>1. PICK info \in {"none", Block[enricher.ip]} :
        /\ asn_cache' = Insert(IF Cardinality(DOMAIN asn_cache) >= AsnCacheMax
                                THEN <<>> ELSE asn_cache, Block[enricher.ip], info)
        /\ peers' = IF info # "none" /\ Known(peers, enricher.ip)
                    THEN [peers EXCEPT !.entries[peers.index[enricher.ip]].asn = info]
                    ELSE peers
  BY DEF Enrich
<1>2. /\ enricher' = Idle /\ enricher.ip \in Host
      /\ UNCHANGED <<flows, archive, proto_bytes, total, own, events, untracked>>
  BY DEF Enrich, MonitorInv, Types
<1>3. Types'
  BY <1>2 DEF MonitorInv, Types, Idle
<1>4. CacheOfOwnBlock'
  <2>1. PICK m : m = IF Cardinality(DOMAIN asn_cache) >= AsnCacheMax THEN <<>> ELSE asn_cache
    OBVIOUS
  <2>2. \A c \in DOMAIN m : m[c] \in {"none", c}
    BY <2>1 DEF MonitorInv, CacheOfOwnBlock
  <2>3. ASSUME NEW c \in DOMAIN asn_cache' PROVE asn_cache'[c] \in {"none", c}
    BY <1>1, <2>1, <2>2 DEF Insert
  <2> QED
    BY <2>3 DEF CacheOfOwnBlock
<1>5. CASE info # "none" /\ Known(peers, enricher.ip)
  <2>1. PICK s : Good(peers, s)
    BY DEF MonitorInv, HostsFronted
  <2>2. /\ peers \in ArenaRec /\ Indexed(peers) /\ peers.entries \in Seq(EntryRec)
        /\ \A i \in 1 .. Len(peers.entries) : peers.entries[i] \in EntryRec
    BY <2>1, IndexFacts DEF Good
  <2>3. PICK n \in 1 .. Len(peers.entries) :
          n = peers.index[enricher.ip] /\ peers.entries[n].ip = enricher.ip
    BY <1>5, <2>2 DEF Indexed, Known
  <2>4. PICK e : e = [peers.entries[n] EXCEPT !.asn = info]
    OBVIOUS
  <2>5. info \in Asns /\ info = Block[enricher.ip]
    BY <1>2, <1>5 DEF Asns
  <2>6. e \in EntryRec /\ e.asn = info
    BY <2>2, <2>4, <2>5 DEF EntryRec
  <2>7. PICK F : F = [peers.entries EXCEPT ![n] = e]
    OBVIOUS
  <2>8. /\ F \in Seq(EntryRec) /\ Len(F) = Len(peers.entries)
        /\ F[n] = e /\ \A i \in 1 .. Len(peers.entries) : i # n => F[i] = peers.entries[i]
    BY <2>2, <2>6, <2>7
  <2>9. peers' = [peers EXCEPT !.entries = F]
    BY <1>1, <1>5, <2>2, <2>3, <2>4, <2>7 DEF ArenaRec
  <2>10. \A i \in 1 .. Len(peers.entries) :
           F[i] = peers.entries[i] \/ \E x \in Asns : F[i] = [peers.entries[i] EXCEPT !.asn = x]
    BY <2>4, <2>5, <2>8
  <2>11. Annotated(peers, peers')
    BY <2>2, <2>8, <2>9, <2>10, AnnotatedBy
  <2>12. ASSUME NEW h \in DOMAIN peers.index
         PROVE  Entry(peers', h).asn \in {"none", Block[h]}
    <3>1. PICK i \in 1 .. Len(peers.entries) : i = peers.index[h] /\ peers.entries[i].ip = h
      BY <2>2 DEF Indexed
    <3>2. Entry(peers', h) = F[i] /\ Entry(peers, h) = peers.entries[i]
      BY <2>2, <2>9, <3>1 DEF Entry, ArenaRec
    <3>3. CASE i = n
      BY <2>3, <2>5, <2>6, <2>8, <3>1, <3>2, <3>3
    <3>4. CASE i # n
      BY <2>8, <3>2, <3>4 DEF MonitorInv, AsnOfOwnBlock
    <3> QED
      BY <3>3, <3>4
  <2>13. HostsFronted' /\ FamiliesKnown' /\ AsnOfOwnBlock'
    BY <1>2, <2>11, <2>12, AnnotatedKeeps
  <2> QED
    BY <1>3, <1>4, <2>11, <2>13 DEF MonitorInv
<1>6. CASE ~(info # "none" /\ Known(peers, enricher.ip))
  <2>1. peers' = peers /\ peers \in ArenaRec
    BY <1>1, <1>6 DEF MonitorInv, HostsFronted, Good
  <2>2. Annotated(peers, peers')
    BY <2>1 DEF Annotated
  <2>3. HostsFronted' /\ FamiliesKnown' /\ AsnOfOwnBlock'
    BY <1>2, <2>1, UntouchedKeeps
  <2> QED
    BY <1>3, <1>4, <2>2, <2>3 DEF MonitorInv
<1> QED
  BY <1>5, <1>6

\* The steps that neither count a packet nor touch the arena.
LEMMA PlainKeeps ==
  ASSUME MonitorInv,
         MarkOwn \/ Age \/ \E k \in DOMAIN flows, status \in Notes : NoteFlow(k, status)
  PROVE  MonitorInv'
<1>1. /\ flows \in [DOMAIN flows -> FlowRec] /\ DOMAIN flows \in SUBSET Keys
      /\ \A k \in DOMAIN flows : flows[k] \in FlowRec
      /\ IsFiniteSet(DOMAIN flows) /\ Cardinality(DOMAIN flows) <= MaxLiveFlows
  BY FlowsFacts DEF MonitorInv, Types
<1>2. /\ UNCHANGED <<peers, asn_cache, proto_bytes>> /\ events' \in 0 .. MaxEvents
      /\ enricher' \in [pc : {"idle", "mark", "send", "wait"}, ip : Host \cup {"none"}]
      /\ enricher'.pc # "idle" => enricher'.ip \in Host
  <2>1. CASE MarkOwn
    BY <2>1 DEF MarkOwn, MonitorInv, Types
  <2>2. CASE Age
    BY <2>2 DEF Age, MonitorInv, Types
  <2>3. CASE \E k \in DOMAIN flows, status \in Notes : NoteFlow(k, status)
    BY <2>3, MonitorAssumption DEF NoteFlow, MonitorInv, Types
  <2> QED
    BY <2>1, <2>2, <2>3
<1>3. /\ DOMAIN flows' = DOMAIN flows /\ flows' \in [DOMAIN flows -> FlowRec]
      /\ \A k \in DOMAIN flows : flows'[k].app = flows[k].app
  <2>1. CASE MarkOwn
    <3>1. CASE OwnKey \in DOMAIN flows
      <4>1. flows' = [flows EXCEPT ![OwnKey].origin = "Intel"]
        BY <2>1, <3>1 DEF MarkOwn
      <4>2. PICK g : g = [flows[OwnKey] EXCEPT !.origin = "Intel"]
        OBVIOUS
      <4>3. g \in FlowRec /\ g.app = flows[OwnKey].app
        BY <1>1, <3>1, <4>2 DEF FlowRec
      <4> QED
        BY <1>1, <4>1, <4>2, <4>3
    <3>2. CASE OwnKey \notin DOMAIN flows
      BY <1>1, <2>1, <3>2 DEF MarkOwn
    <3> QED
      BY <3>1, <3>2
  <2>2. CASE Age
    <3> DEFINE aged(k) == [flows[k] EXCEPT !.age = IF @ < IdleEvict THEN @ + 1 ELSE @]
    <3>1. ASSUME NEW k \in DOMAIN flows PROVE aged(k) \in FlowRec /\ aged(k).app = flows[k].app
      <4>1. PICK g \in FlowRec : g = flows[k]
        BY <1>1
      <4> QED
        BY <4>1 DEF FlowRec
    <3>2. flows' = [k \in DOMAIN flows |-> aged(k)]
      BY <2>2 DEF Age
    <3> HIDE DEF aged
    <3> QED
      BY <3>1, <3>2
  <2>3. CASE \E k \in DOMAIN flows, status \in Notes : NoteFlow(k, status)
    <3>1. PICK k \in DOMAIN flows, status \in Notes : flows' = [flows EXCEPT ![k].status = status]
      BY <2>3 DEF NoteFlow
    <3>2. PICK g : g = [flows[k] EXCEPT !.status = status]
      OBVIOUS
    <3>3. g \in FlowRec /\ g.app = flows[k].app
      BY <1>1, <3>1, <3>2 DEF FlowRec
    <3> QED
      BY <1>1, <3>1, <3>2, <3>3
  <2> QED
    BY <2>1, <2>2, <2>3
<1>4. HostsFronted' /\ FamiliesKnown' /\ AsnOfOwnBlock'
  BY <1>2, <1>3, UntouchedKeeps
<1>5. CacheOfOwnBlock'
  BY <1>2 DEF MonitorInv, CacheOfOwnBlock
<1>6. Types'
  BY <1>1, <1>2, <1>3 DEF MonitorInv, Types
<1> QED
  BY <1>4, <1>5, <1>6 DEF MonitorInv

\* record
LEMMA RecordKeeps ==
  ASSUME MonitorInv, NEW p \in AllPackets, Record(p),
         \/ UNCHANGED enricher
         \/ enricher.pc = "send" /\ enricher' = [enricher EXCEPT !.pc = "wait"]
  PROVE  MonitorInv'
<1>1. /\ proto_bytes' \in Totals /\ events' \in 0 .. MaxEvents
      /\ \/ flows' = flows /\ peers' = peers
         \/ \E k, g : Noted(k, g)
  BY RecordFacts DEF MonitorInv
<1>2. /\ enricher' \in [pc : {"idle", "mark", "send", "wait"}, ip : Host \cup {"none"}]
      /\ enricher'.pc # "idle" => enricher'.ip \in Host
  BY DEF MonitorInv, Types
<1>3. CacheOfOwnBlock'
  BY DEF MonitorInv, CacheOfOwnBlock, Record
<1>4. CASE flows' = flows /\ peers' = peers
  <2>1. HostsFronted' /\ FamiliesKnown' /\ AsnOfOwnBlock'
    BY <1>4, UntouchedKeeps
  <2>2. Types'
    BY <1>1, <1>2, <1>4 DEF MonitorInv, Types
  <2> QED
    BY <1>3, <2>1, <2>2 DEF MonitorInv
<1>5. CASE \E k, g : Noted(k, g)
  <2>1. PICK k, g : Noted(k, g)
    BY <1>5
  <2>2. HostsFronted' /\ FamiliesKnown' /\ AsnOfOwnBlock'
    BY <2>1, NotedKeeps
  <2>3. /\ flows' \in UNION {[D -> FlowRec] : D \in SUBSET Keys}
        /\ IsFiniteSet(DOMAIN flows') /\ Cardinality(DOMAIN flows') <= MaxLiveFlows
    BY <2>1, NotedFlows DEF MonitorInv
  <2>4. Types'
    BY <1>1, <1>2, <2>3 DEF Types
  <2> QED
    BY <1>3, <2>2, <2>4 DEF MonitorInv
<1> QED
  BY <1>1, <1>4, <1>5

\* The monitor starts with nothing.
LEMMA InitInv ==
  ASSUME Init
  PROVE  MonitorInv
<1>1. /\ flows = <<>> /\ peers = EmptyArena /\ asn_cache = <<>> /\ DOMAIN flows = {}
      /\ events = 0 /\ enricher = Idle /\ proto_bytes = [l \in Labels |-> 0]
  BY DEF Init
<1>2. PICK e : e = <<>>
  OBVIOUS
<1>3. /\ e \in Seq(EntryRec) /\ Len(e) = 0 /\ DOMAIN e = {} /\ e \in [{} -> Nat]
      /\ e \in [{} -> FlowRec] /\ 1 .. 0 = {}
  BY <1>2
<1>4. PICK a : a = EmptyArena
  OBVIOUS
<1>5. /\ a.entries = e /\ a.index = e /\ a.head = 0 /\ a.tail = 0 /\ a.next_id = 1
      /\ a = [entries |-> e, index |-> e, head |-> 0, tail |-> 0, next_id |-> 1]
  BY <1>2, <1>4 DEF EmptyArena, NIL
<1>6. a \in ArenaRec
  <2>1. e \in UNION {[D -> Nat] : D \in SUBSET Host}
    BY <1>3
  <2> QED
    BY <1>3, <1>5, <2>1 DEF ArenaRec
<1>7. PICK s \in [1 .. 0 -> 1 .. 0] : TRUE
  BY <1>3
<1>8. Good(a, s)
  <2>1. Threaded(a, s, 0)
    BY <1>3, <1>5, <1>7 DEF Threaded, NIL
  <2>2. Indexed(a)
    BY <1>3, <1>5 DEF Indexed
  <2> QED
    BY <1>3, <1>5, <1>6, <2>1, <2>2, ArenaAssumption DEF Good
<1>9. HostsFronted
  <2>1. LiveHosts = {}
    BY <1>1 DEF LiveHosts
  <2>2. Fronted(a, s, {})
    BY <1>3, <1>5 DEF Fronted
  <2> QED
    BY <1>1, <1>4, <1>8, <2>1, <2>2 DEF HostsFronted
<1>10. FamiliesKnown /\ CacheOfOwnBlock
  BY <1>1 DEF FamiliesKnown, CacheOfOwnBlock
<1>11. AsnOfOwnBlock
  BY <1>1, <1>3, <1>4, <1>5 DEF AsnOfOwnBlock
<1>12. Types
  <2>1. flows \in UNION {[D -> FlowRec] : D \in SUBSET Keys}
    BY <1>1, <1>2, <1>3
  <2>2. IsFiniteSet(DOMAIN flows) /\ Cardinality(DOMAIN flows) <= MaxLiveFlows
    BY <1>1, FS_EmptySet, MonitorAssumption, ArenaAssumption
  <2>3. proto_bytes \in Totals
    BY <1>1 DEF Totals
  <2>4. enricher \in [pc : {"idle", "mark", "send", "wait"}, ip : Host \cup {"none"}]
        /\ enricher.pc = "idle"
    BY <1>1 DEF Idle
  <2>5. events \in 0 .. MaxEvents
    BY <1>1, MonitorAssumption
  <2> QED
    BY <2>1, <2>2, <2>3, <2>4, <2>5 DEF Types
<1> QED
  BY <1>9, <1>10, <1>11, <1>12 DEF MonitorInv

-----------------------------------------------------------------------------
(* The tick                                                                *)

\* A listing of a finite set names each of its elements once.
LEMMA ListingFacts ==
  ASSUME NEW S, IsFiniteSet(S), NEW f \in SetToSeqs(S)
  PROVE  /\ Cardinality(S) \in Nat /\ f \in [1 .. Cardinality(S) -> S]
         /\ Len(f) = Cardinality(S)
         /\ \A i, j \in 1 .. Cardinality(S) : f[i] = f[j] => i = j
         /\ \A x \in S : \E i \in 1 .. Cardinality(S) : f[i] = x
<1>1. PICK n \in Nat : n = Cardinality(S)
  BY FS_CardinalityType
<1>2. f \in [1 .. n -> S] /\ \A i, j \in 1 .. n : f[i] = f[j] => i = j
  BY <1>1 DEF SetToSeqs
<1>3. f \in Injection(1 .. n, S)
  BY <1>2 DEF Injection, IsInjective
<1>4. IsFiniteSet(1 .. n) /\ Cardinality(1 .. n) = n
  BY FS_Interval
<1>5. f \in Surjection(1 .. n, S)
  BY <1>1, <1>3, <1>4, FS_Injection
<1>6. \A x \in S : \E i \in 1 .. n : f[i] = x
  BY <1>5 DEF Surjection
<1>7. Len(f) = n
  BY <1>2
<1> QED
  BY <1>1, <1>2, <1>6, <1>7

\* What the loop of tick works on.
Table(D) == [table : [D -> FlowRec], totals : Totals, arena : ArenaRec]
GoodTable(D) == {x \in Table(D) : \E t : Good(x.arena, t)}

LEMMA RefreshRec ==
  ASSUME NEW a, NEW s, Good(a, s), NEW ip \in Host, NEW fam \in Families
  PROVE  Refresh(a, ip, fam) \in ArenaRec /\ \E t : Good(Refresh(a, ip, fam), t)
<1>1. CASE ip \in DOMAIN a.index
  <2>1. PICK t : Touched(a, s, ip, fam, Touch(a, ip, fam), t)
    BY TouchGood
  <2>2. PICK b : b = Touch(a, ip, fam)
    OBVIOUS
  <2>3. Refresh(a, ip, fam) = b
    BY <1>1, <2>2 DEF Refresh, Known
  <2>4. Good(b, t)
    BY <2>1, <2>2 DEF Touched
  <2> QED
    BY <2>3, <2>4 DEF Good
<1>2. CASE ip \notin DOMAIN a.index
  BY <1>2 DEF Refresh, Known, Good
<1> QED
  BY <1>1, <1>2

\* One flow is looked at again.
LEMMA SweptFacts ==
  ASSUME NEW D \in SUBSET Keys, NEW x \in GoodTable(D), NEW k \in D
  PROVE  LET y == Swept(x, k)
         IN  /\ y \in GoodTable(D)
             /\ y.arena = Refresh(x.arena, k.remote, Family(x.table[k].app))
             /\ \A j \in D : j # k => y.table[j] = x.table[j]
             /\ Family(y.table[k].app) = Family(x.table[k].app)
             /\ y.table[k].app = "Obfuscated" => ~IsTorrenting(y.arena, k.remote)
<1>1. x \in Table(D) /\ x.table \in [D -> FlowRec] /\ x.totals \in Totals
  BY DEF GoodTable, Table
<1>2. PICK s : Good(x.arena, s)
  BY DEF GoodTable
<1>3. PICK f \in FlowRec : f = x.table[k]
  BY <1>1
<1>4. PICK a : a = Refresh(x.arena, k.remote, Family(f.app))
  OBVIOUS
<1>5. a \in ArenaRec /\ \E t : Good(a, t)
  BY <1>2, <1>4, KeyFacts, FamilyFacts, RefreshRec
<1>6. PICK w : w = [flow |-> f, totals |-> x.totals, arena |-> a]
  OBVIOUS
<1>7. w \in Working /\ w.flow = f /\ w.arena = a
  BY <1>1, <1>5, <1>6 DEF Working
<1>8. PICK z : z = Unmasked(w, k.remote)
  OBVIOUS
<1>9. /\ z \in Working /\ z.arena = a /\ Family(z.flow.app) = Family(f.app)
      /\ z.flow.app = "Obfuscated" => ~IsTorrenting(a, k.remote)
  BY <1>7, <1>8, UnmaskedFacts
<1>10. PICK y : y = Swept(x, k)
  OBVIOUS
<1>11. y = [table |-> [x.table EXCEPT ![k] = z.flow], totals |-> z.totals, arena |-> z.arena]
  BY <1>3, <1>4, <1>6, <1>8, <1>10 DEF Swept
<1>12. /\ y.arena = a /\ y.table[k] = z.flow /\ \A j \in D : j # k => y.table[j] = x.table[j]
       /\ y \in Table(D)
  BY <1>1, <1>5, <1>9, <1>11 DEF Table, Working
<1>13. y \in GoodTable(D)
  BY <1>5, <1>12 DEF GoodTable
<1> QED
  BY <1>3, <1>4, <1>9, <1>10, <1>12, <1>13

\* The tables after each flow of the walk.
Passage(f, start, walk, n, S) ==
  /\ f \in [0 .. n -> S] /\ f[0] = start
  /\ \A i \in 1 .. n : f[i] = Swept(f[i - 1], walk[i])

LEMMA SweepsIs ==
  ASSUME NEW D \in SUBSET Keys, NEW n \in Nat, NEW walk \in [1 .. n -> D],
         NEW start \in GoodTable(D)
  PROVE  Passage(Sweeps(start, walk), start, walk, n, GoodTable(D))
<1> DEFINE S == GoodTable(D)
           step == [i \in 1 .. n |-> [x \in S |-> Swept(x, walk[i])]]
           sweep[i \in 0 .. n] == IF i = 0 THEN start ELSE Swept(sweep[i - 1], walk[i])
<1>1. \A x \in S, k \in D : Swept(x, k) \in S
  BY SweptFacts
<1>2. start \in S
  OBVIOUS
<1>3. Len(walk) = n
  OBVIOUS
<1>4. Sweeps(start, walk) = sweep
  BY <1>3 DEF Sweeps
<1> HIDE DEF S, sweep
<1>5. step \in [1 .. n -> [S -> S]]
  BY <1>1
<1>6. \A i \in 1 .. n, x \in S : step[i][x] = Swept(x, walk[i])
  OBVIOUS
<1> HIDE DEF step
<1>7. PICK f : Recursion(f, n, S, start, step)
  BY <1>2, <1>5, RecursionExists
<1>8. \A i \in 0 .. n : f[i] \in S
  BY <1>7 DEF Recursion
<1>9. ASSUME NEW i \in 1 .. n PROVE f[i] = Swept(f[i - 1], walk[i])
  <2>1. i - 1 \in 0 .. n
    OBVIOUS
  <2> QED
    BY <1>6, <1>7, <1>8, <2>1 DEF Recursion
<1>10. f = [i \in 0 .. n |-> IF i = 0 THEN start ELSE Swept(f[i - 1], walk[i])]
  BY <1>7, <1>9 DEF Recursion
<1>11. sweep = [i \in 0 .. n |-> IF i = 0 THEN start ELSE Swept(sweep[i - 1], walk[i])]
  BY <1>10 DEF sweep
<1>12. DOMAIN sweep = 0 .. n /\ sweep[0] = start
  BY <1>11
<1>13. ASSUME NEW i \in 1 .. n PROVE sweep[i] = Swept(sweep[i - 1], walk[i])
  BY <1>11
<1>14. \A i \in 0 .. n : sweep[i] \in S
  <2> DEFINE good == {i \in 0 .. n : sweep[i] \in S}
  <2>1. 0 \in good
    BY <1>2, <1>12
  <2>2. ASSUME NEW i \in 1 .. n, i - 1 \in good PROVE i \in good
    BY <1>1, <1>13, <2>2
  <2> HIDE DEF good
  <2>3. 0 .. n \subseteq good
    BY <2>1, <2>2, UpTo
  <2> QED
    BY <2>3 DEF good
<1>15. sweep = [i \in 0 .. n |-> sweep[i]]
  BY <1>11, <1>12
<1>16. sweep \in [0 .. n -> S]
  BY <1>14, <1>15
<1>17. Passage(sweep, start, walk, n, S)
  BY <1>12, <1>13, <1>16 DEF Passage
<1> QED
  BY <1>4, <1>17 DEF S

\* g comes before h in o, of n elements.
Before(o, n, g, h) == \E i, j \in 1 .. n : i < j /\ o[i] = g /\ o[j] = h

\* q is o with the hosts in R at its front; the others follow in the order of o.
Shuffled(o, q, n, R) ==
  \A i, j \in 1 .. n :
    (i < j /\ q[i] \notin R) => (q[j] \notin R /\ Before(o, n, q[i], q[j]))

\* Nothing is remembered in b that is not in a, nor the other way round.
SameMemory(a, b) ==
  /\ DOMAIN b.index = DOMAIN a.index /\ b.next_id = a.next_id
  /\ Len(b.entries) = Len(a.entries)
  /\ \A h \in DOMAIN a.index : Kept(a, b, h)

LEMMA RaisedShuffled ==
  ASSUME NEW n \in Nat, NEW o, NEW q, NEW R, Shuffled(o, q, n, R),
         \A i, j \in 1 .. n : q[i] = q[j] => i = j, NEW k \in 1 .. n, NEW r,
         r = MovedUp(q, n, k)
  PROVE  Shuffled(o, r, n, R \cup {q[k]})
<1>1. r = [j \in 1 .. n |-> IF j = 1 THEN q[k] ELSE IF j <= k THEN q[j - 1] ELSE q[j]]
  BY MovedUpFacts
<1> DEFINE from(j) == IF j = 1 THEN k ELSE IF j <= k THEN j - 1 ELSE j
<1>2. ASSUME NEW j \in 1 .. n PROVE from(j) \in 1 .. n /\ r[j] = q[from(j)]
  BY <1>1
<1>3. ASSUME NEW i \in 1 .. n, NEW j \in 1 .. n, i < j, r[i] \notin R \cup {q[k]}
      PROVE  r[j] \notin R \cup {q[k]} /\ Before(o, n, r[i], r[j])
  <2>1. i # 1
    BY <1>1, <1>3
  <2>2. from(i) < from(j) /\ from(j) # k
    BY <1>3, <2>1
  <2> HIDE DEF from
  <2>3. q[from(i)] \notin R /\ q[from(j)] # q[k]
    BY <1>2, <1>3, <2>2
  <2>4. q[from(j)] \notin R /\ Before(o, n, q[from(i)], q[from(j)])
    BY <1>2, <2>2, <2>3 DEF Shuffled
  <2> QED
    BY <1>2, <2>3, <2>4
<1> QED
  BY <1>3 DEF Shuffled

\* refresh of a live host teaches the arena nothing and moves the host to the front.
LEMMA RefreshShuffles ==
  ASSUME NEW a, NEW s, Good(a, s), NEW h \in DOMAIN a.index, NEW fam \in Families,
         fam \subseteq Entry(a, h).families, NEW R, NEW o,
         Shuffled(o, HostOrder(a, s), Len(a.entries), R), NEW b, b = Refresh(a, h, fam)
  PROVE  /\ SameMemory(a, b)
         /\ \E t : /\ Good(b, t)
                   /\ Shuffled(o, HostOrder(b, t), Len(a.entries), R \cup {h})
<1>1. PICK N : N = Len(a.entries)
  OBVIOUS
<1>2. PICK q : q = HostOrder(a, s)
  OBVIOUS
<1>3. /\ N \in Nat /\ DOMAIN a.index \subseteq Host
      /\ \A j, k \in 1 .. N : q[j] = q[k] => j = k
  BY <1>1, <1>2, OrderFacts
<1>4. PICK t : Touched(a, s, h, fam, b, t)
  BY <1>3, TouchGood DEF Refresh, Known
<1>5. /\ Good(b, t) /\ DOMAIN b.index = DOMAIN a.index /\ b.next_id = a.next_id
      /\ Entry(b, h).id = Entry(a, h).id /\ Entry(b, h).asn = Entry(a, h).asn
      /\ Entry(b, h).families = Entry(a, h).families \cup fam
      /\ Len(b.entries) = N
      /\ \A g \in DOMAIN b.index : g # h => Kept(a, b, g)
      /\ \E k \in 1 .. N : q[k] = h /\ HostOrder(b, t) = MovedUp(q, N, k)
  BY <1>1, <1>2, <1>4 DEF Touched
<1>6. PICK k \in 1 .. N : q[k] = h /\ HostOrder(b, t) = MovedUp(q, N, k)
  BY <1>5
<1>7. PICK r : r = HostOrder(b, t)
  OBVIOUS
<1>8. Shuffled(o, q, N, R) /\ r = MovedUp(q, N, k)
  BY <1>1, <1>2, <1>6, <1>7
<1>9. Shuffled(o, r, N, R \cup {h})
  BY <1>3, <1>6, <1>8, RaisedShuffled
<1>10. Kept(a, b, h)
  BY <1>5 DEF Kept
<1>11. SameMemory(a, b)
  BY <1>1, <1>5, <1>10 DEF SameMemory
<1> QED
  BY <1>1, <1>5, <1>7, <1>9, <1>11

\* The hosts of the first n flows of the walk.
Met(walk, n) == {walk[i].remote : i \in 1 .. n}

\* What holds of the tables after n flows of the walk; s is the order of the arena
\* before the first.
Underway(x, s, walk, n) ==
  /\ \A k \in DOMAIN x.table : Family(x.table[k].app) = Family(flows[k].app)
  /\ SameMemory(peers, x.arena)
  /\ \E t : /\ Good(x.arena, t)
            /\ Shuffled(HostOrder(peers, s), HostOrder(x.arena, t), Len(peers.entries),
                        Met(walk, n))
  /\ \A i \in 1 .. n :
       x.table[walk[i]].app = "Obfuscated" => ~IsTorrenting(peers, walk[i].remote)

LEMMA SameTorrenting ==
  ASSUME NEW a, NEW b, SameMemory(a, b), NEW h
  PROVE  IsTorrenting(b, h) <=> IsTorrenting(a, h)
BY DEF SameMemory, Kept, IsTorrenting, Known

LEMMA SweepStep ==
  ASSUME FamiliesKnown, LiveHosts \subseteq DOMAIN peers.index, NEW s, Good(peers, s),
         NEW D \in SUBSET Keys, D \subseteq DOMAIN flows, NEW N \in Nat,
         NEW walk \in [1 .. N -> D], \A i, j \in 1 .. N : walk[i] = walk[j] => i = j,
         NEW n \in 1 .. N, NEW x \in GoodTable(D), Underway(x, s, walk, n - 1)
  PROVE  Underway(Swept(x, walk[n]), s, walk, n)
<1>1. PICK k \in D : k = walk[n]
  OBVIOUS
<1>2. PICK y : y = Swept(x, k)
  OBVIOUS
<1>3. /\ y \in GoodTable(D)
      /\ y.arena = Refresh(x.arena, k.remote, Family(x.table[k].app))
      /\ \A j \in D : j # k => y.table[j] = x.table[j]
      /\ Family(y.table[k].app) = Family(x.table[k].app)
      /\ y.table[k].app = "Obfuscated" => ~IsTorrenting(y.arena, k.remote)
  <2>1. LET z == Swept(x, k)
        IN  /\ z \in GoodTable(D)
            /\ z.arena = Refresh(x.arena, k.remote, Family(x.table[k].app))
            /\ \A j \in D : j # k => z.table[j] = x.table[j]
            /\ Family(z.table[k].app) = Family(x.table[k].app)
            /\ z.table[k].app = "Obfuscated" => ~IsTorrenting(z.arena, k.remote)
    BY SweptFacts
  <2> QED
    BY <1>2, <2>1
<1>4. DOMAIN x.table = D /\ DOMAIN y.table = D
  BY <1>3 DEF GoodTable, Table
<1>5. PICK h : h = k.remote
  OBVIOUS
<1>6. PICK fam : fam = Family(x.table[k].app)
  OBVIOUS
<1>7. PICK a : a = x.arena
  OBVIOUS
<1>8. PICK o : o = HostOrder(peers, s)
  OBVIOUS
<1>9. PICK R : R = Met(walk, n - 1)
  OBVIOUS
<1>10. PICK t : Good(a, t) /\ Shuffled(o, HostOrder(a, t), Len(peers.entries), R)
  BY <1>7, <1>8, <1>9 DEF Underway
<1>11. SameMemory(peers, a)
  BY <1>7 DEF Underway
<1>12. h \in LiveHosts /\ h \in DOMAIN peers.index
  BY <1>1, <1>5 DEF LiveHosts
<1>13. h \in DOMAIN a.index /\ Len(a.entries) = Len(peers.entries) /\ Kept(peers, a, h)
  BY <1>11, <1>12 DEF SameMemory
<1>14. fam \in Families /\ fam \subseteq Entry(a, h).families
  <2>1. fam = Family(flows[k].app)
    BY <1>1, <1>4, <1>6 DEF Underway
  <2>2. fam \subseteq Entry(peers, h).families
    BY <1>1, <1>5, <2>1 DEF FamiliesKnown
  <2> QED
    BY <1>6, <1>13, <2>2, FamilyFacts DEF Kept
<1>15. PICK b : b = y.arena
  OBVIOUS
<1>16. b = Refresh(a, h, fam)
  BY <1>3, <1>5, <1>6, <1>7, <1>15
<1>17. /\ SameMemory(a, b)
       /\ \E u : Good(b, u) /\ Shuffled(o, HostOrder(b, u), Len(a.entries), R \cup {h})
  BY <1>10, <1>13, <1>14, <1>16, RefreshShuffles
<1>18. SameMemory(peers, b)
  BY <1>11, <1>17 DEF SameMemory, Kept
<1>19. Met(walk, n) = R \cup {h}
  <2>1. 1 .. n = (1 .. n - 1) \cup {n}
    OBVIOUS
  <2> QED
    BY <1>1, <1>5, <1>9, <2>1 DEF Met
<1>20. \E u : /\ Good(y.arena, u)
              /\ Shuffled(HostOrder(peers, s), HostOrder(y.arena, u), Len(peers.entries),
                          Met(walk, n))
  BY <1>8, <1>13, <1>15, <1>17, <1>19
<1>21. ASSUME NEW j \in D PROVE Family(y.table[j].app) = Family(flows[j].app)
  BY <1>3, <1>4 DEF Underway
<1>22. ASSUME NEW i \in 1 .. n, y.table[walk[i]].app = "Obfuscated"
       PROVE  ~IsTorrenting(peers, walk[i].remote)
  <2>1. CASE i = n
    BY <1>1, <1>3, <1>15, <1>18, <1>22, <2>1, SameTorrenting
  <2>2. CASE i # n
    <3>1. i \in 1 .. n - 1 /\ i \in 1 .. N /\ walk[i] \in D
      BY <2>2
    <3>2. walk[i] # k
      BY <1>1, <2>2, <3>1
    <3> QED
      BY <1>3, <1>22, <3>1, <3>2 DEF Underway
  <2> QED
    BY <2>1, <2>2
<1> QED
  BY <1>1, <1>2, <1>4, <1>15, <1>18, <1>20, <1>21, <1>22 DEF Underway

\* What tick leaves: of the flows the keys in D, their labels as far as families go,
\* and the same memory of the hosts, those of the flows in D first.
Ticked(D, s, t) ==
  /\ D \subseteq DOMAIN flows /\ flows' \in [D -> FlowRec] /\ proto_bytes' \in Totals
  /\ \A k \in D : Family(flows'[k].app) = Family(flows[k].app)
  /\ Good(peers, s) /\ Good(peers', t) /\ SameMemory(peers, peers')
  /\ Shuffled(HostOrder(peers, s), HostOrder(peers', t), Len(peers.entries), LiveHosts')
  /\ \A k \in D : flows'[k].app = "Obfuscated" => ~IsTorrenting(peers', k.remote)

LEMMA TickFacts ==
  ASSUME MonitorInv, Tick
  PROVE  \E D, s, t : Ticked(D, s, t)
<1>1. PICK s : Good(peers, s) /\ Fronted(peers, s, LiveHosts)
  BY DEF MonitorInv, HostsFronted
<1>2. PICK D : D = DOMAIN flows \ {k \in DOMAIN flows : flows[k].age >= IdleEvict}
  OBVIOUS
<1>3. PICK start : start = [table |-> [k \in D |-> flows[k]], totals |-> proto_bytes,
                            arena |-> peers]
  OBVIOUS
<1>4. PICK walk \in SetToSeqs(D) :
        LET x == Sweeps(start, walk)[Len(walk)]
        IN  flows' = x.table /\ proto_bytes' = x.totals /\ peers' = x.arena
  BY <1>2, <1>3 DEF Tick
<1>5. D \in SUBSET Keys /\ D \subseteq DOMAIN flows /\ IsFiniteSet(D)
  BY <1>2, FlowsFacts, FS_Subset DEF MonitorInv, Types
<1>6. PICK N \in Nat : N = Cardinality(D)
  BY <1>5, FS_CardinalityType
<1>7. /\ walk \in [1 .. N -> D] /\ Len(walk) = N
      /\ \A i, j \in 1 .. N : walk[i] = walk[j] => i = j
      /\ \A k \in D : \E i \in 1 .. N : walk[i] = k
  BY <1>5, <1>6, ListingFacts
<1>8. start \in GoodTable(D)
  <2>1. [k \in D |-> flows[k]] \in [D -> FlowRec]
    BY <1>5, FlowsFacts DEF MonitorInv
  <2>2. peers \in ArenaRec
    BY <1>1 DEF Good
  <2> QED
    BY <1>1, <1>3, <2>1, <2>2 DEF GoodTable, Table, MonitorInv, Types
<1>9. PICK f : f = Sweeps(start, walk)
  OBVIOUS
<1>10. Passage(f, start, walk, N, GoodTable(D))
  BY <1>5, <1>7, <1>8, <1>9, SweepsIs
<1>11. LiveHosts \subseteq DOMAIN peers.index
  BY <1>1 DEF Fronted
<1>12. Underway(f[0], s, walk, 0)
  <2>1. f[0] = start /\ start.arena = peers /\ start.table = [k \in D |-> flows[k]]
    BY <1>3, <1>10 DEF Passage
  <2>2. SameMemory(peers, peers)
    BY <1>1 DEF SameMemory, Kept
  <2>3. PICK o : o = HostOrder(peers, s)
    OBVIOUS
  <2>4. PICK n \in Nat : n = Len(peers.entries)
    BY <1>1, OrderFacts
  <2>5. Shuffled(o, o, n, Met(walk, 0))
    <3>1. Met(walk, 0) = {}
      BY DEF Met
    <3> QED
      BY <3>1 DEF Shuffled, Before
  <2> QED
    BY <1>1, <2>1, <2>2, <2>3, <2>4, <2>5 DEF Underway
<1>13. Underway(f[N], s, walk, N)
  <2> DEFINE good == {i \in 0 .. N : Underway(f[i], s, walk, i)}
  <2>1. 0 \in good
    BY <1>12
  <2>2. ASSUME NEW i \in 1 .. N, i - 1 \in good PROVE i \in good
    <3>1. Underway(f[i - 1], s, walk, i - 1) /\ i - 1 \in 0 .. N
      BY <2>2
    <3>2. PICK x \in GoodTable(D) : x = f[i - 1] /\ f[i] = Swept(x, walk[i])
      BY <1>10, <3>1 DEF Passage
    <3>3. Underway(x, s, walk, i - 1)
      BY <3>1, <3>2
    <3>4. FamiliesKnown
      BY DEF MonitorInv
    <3>5. Underway(Swept(x, walk[i]), s, walk, i)
      BY <1>1, <1>5, <1>7, <1>11, <3>3, <3>4, SweepStep
    <3> QED
      BY <3>2, <3>5
  <2> HIDE DEF good
  <2>3. 0 .. N \subseteq good
    BY <2>1, <2>2, UpTo
  <2> QED
    BY <2>3 DEF good
<1>14. PICK x \in GoodTable(D) :
         x = f[N] /\ flows' = x.table /\ proto_bytes' = x.totals /\ peers' = x.arena
  <2>1. f[N] \in GoodTable(D)
    BY <1>10 DEF Passage
  <2> QED
    BY <1>4, <1>7, <1>9, <2>1
<1>15. flows' \in [D -> FlowRec] /\ proto_bytes' \in Totals /\ DOMAIN flows' = D
  BY <1>14 DEF GoodTable, Table
<1>16. LiveHosts' = Met(walk, N)
  BY <1>7, <1>15 DEF LiveHosts, Met
<1>17. /\ \A k \in D : Family(flows'[k].app) = Family(flows[k].app)
       /\ SameMemory(peers, peers')
       /\ \E t : Good(peers', t)
                 /\ Shuffled(HostOrder(peers, s), HostOrder(peers', t), Len(peers.entries),
                             LiveHosts')
       /\ \A i \in 1 .. N :
            flows'[walk[i]].app = "Obfuscated" => ~IsTorrenting(peers, walk[i].remote)
  BY <1>13, <1>14, <1>15, <1>16 DEF Underway
<1>18. \A k \in D : flows'[k].app = "Obfuscated" => ~IsTorrenting(peers', k.remote)
  BY <1>7, <1>17, SameTorrenting
<1> QED
  BY <1>1, <1>5, <1>15, <1>17, <1>18 DEF Ticked

\* tick
LEMMA TickKeeps ==
  ASSUME MonitorInv, Tick
  PROVE  MonitorInv'
<1>1. PICK D, s, t : Ticked(D, s, t)
  BY TickFacts
<1>2. /\ D \subseteq DOMAIN flows /\ flows' \in [D -> FlowRec] /\ proto_bytes' \in Totals
      /\ \A k \in D : Family(flows'[k].app) = Family(flows[k].app)
      /\ Good(peers, s) /\ Good(peers', t)
      /\ DOMAIN flows' = D
  BY <1>1 DEF Ticked
<1>3. /\ DOMAIN peers'.index = DOMAIN peers.index
      /\ Len(peers'.entries) = Len(peers.entries)
      /\ \A h \in DOMAIN peers.index : Kept(peers, peers', h)
      /\ Shuffled(HostOrder(peers, s), HostOrder(peers', t), Len(peers.entries), LiveHosts')
  BY <1>1 DEF Ticked, SameMemory
<1>4. LiveHosts' \subseteq DOMAIN peers.index
  <2>1. LiveHosts' \subseteq LiveHosts
    BY <1>2 DEF LiveHosts
  <2>2. LiveHosts \subseteq DOMAIN peers.index
    BY DEF MonitorInv, HostsFronted, Fronted
  <2> QED
    BY <2>1, <2>2
<1>5. HostsFronted'
  <2>1. PICK b : b = peers'
    OBVIOUS
  <2>2. PICK L : L = LiveHosts'
    OBVIOUS
  <2>3. PICK q : q = HostOrder(b, t)
    OBVIOUS
  <2>4. PICK N \in Nat : N = Len(b.entries)
    BY <1>2, <2>1, OrderFacts
  <2>5. \A i, j \in 1 .. N : (i < j /\ q[j] \in L) => q[i] \in L
    BY <1>3, <2>1, <2>2, <2>3, <2>4 DEF Shuffled
  <2>6. Fronted(b, t, L)
    BY <1>3, <1>4, <2>1, <2>2, <2>3, <2>4, <2>5 DEF Fronted
  <2> QED
    BY <1>2, <2>1, <2>2, <2>6 DEF HostsFronted
<1>6. FamiliesKnown'
  <2>1. ASSUME NEW k \in D
        PROVE  Family(flows'[k].app) \subseteq Entry(peers', k.remote).families
    <3>1. k.remote \in LiveHosts'
      BY <1>2 DEF LiveHosts
    <3>2. Kept(peers, peers', k.remote)
      BY <1>3, <1>4, <3>1
    <3> QED
      BY <1>2, <3>2 DEF Kept, MonitorInv, FamiliesKnown
  <2> QED
    BY <1>2, <2>1 DEF FamiliesKnown
<1>7. AsnOfOwnBlock'
  BY <1>3 DEF Kept, MonitorInv, AsnOfOwnBlock
<1>8. /\ UNCHANGED <<asn_cache, enricher, events>>
  BY DEF Tick
<1>9. CacheOfOwnBlock'
  BY <1>8 DEF MonitorInv, CacheOfOwnBlock
<1>10. Types'
  <2>1. IsFiniteSet(D) /\ Cardinality(D) <= Cardinality(DOMAIN flows)
    BY <1>2, FS_Subset DEF MonitorInv, Types
  <2>2. Cardinality(D) <= MaxLiveFlows
    <3>1. Cardinality(D) \in Nat /\ Cardinality(DOMAIN flows) \in Nat
      BY <2>1, FS_CardinalityType DEF MonitorInv, Types
    <3>2. Cardinality(DOMAIN flows) <= MaxLiveFlows /\ MaxLiveFlows \in Nat
      BY MonitorAssumption, ArenaAssumption DEF MonitorInv, Types
    <3> QED
      BY <2>1, <3>1, <3>2
  <2>3. D \in SUBSET Keys
    BY <1>2, FlowsFacts DEF MonitorInv
  <2>4. flows' \in UNION {[E -> FlowRec] : E \in SUBSET Keys}
    BY <1>2, <2>3
  <2> QED
    BY <1>2, <1>8, <2>1, <2>2, <2>4 DEF MonitorInv, Types
<1> QED
  BY <1>5, <1>6, <1>7, <1>9, <1>10 DEF MonitorInv

-----------------------------------------------------------------------------
(* Theorems                                                                *)

LEMMA NextKeeps ==
  ASSUME MonitorInv, [Next]_vars
  PROVE  MonitorInv'
<1>1. ASSUME NEW p \in Packets, Record(p) /\ UNCHANGED enricher PROVE MonitorInv'
  BY <1>1, RecordKeeps DEF AllPackets
<1>2. CASE Tick
  BY <1>2, TickKeeps
<1>3. CASE Age
  BY <1>3, PlainKeeps
<1>4. CASE \E k \in DOMAIN flows, status \in Notes : NoteFlow(k, status)
  BY <1>4, PlainKeeps
<1>5. CASE EnrichCandidate
  BY <1>5, CandidateKeeps
<1>6. CASE MarkOwn
  BY <1>6, PlainKeeps
<1>7. CASE SendQuery
  BY <1>7, RecordKeeps DEF SendQuery, AllPackets
<1>8. CASE Enrich
  BY <1>8, EnrichKeeps
<1>9. CASE UNCHANGED vars
  <2>1. UNCHANGED <<flows, proto_bytes, peers, asn_cache, enricher, events>>
    BY <1>9 DEF vars
  <2>2. HostsFronted' /\ FamiliesKnown' /\ AsnOfOwnBlock'
    BY <2>1, UntouchedKeeps
  <2> QED
    BY <2>1, <2>2 DEF MonitorInv, Types, CacheOfOwnBlock
<1> QED
  BY <1>1, <1>2, <1>3, <1>4, <1>5, <1>6, <1>7, <1>8, <1>9 DEF Next

\* The slab, its links and its index are at all times one list of distinct hosts, of
\* which those with a live flow are the most recently seen, as the chain of unlink,
\* push_front and evict_tail leaves it.
THEOREM HostsInOrder == Spec => []MonitorInv
<1>1. Init => MonitorInv
  BY InitInv
<1>2. MonitorInv /\ [Next]_vars => MonitorInv'
  BY NextKeeps
<1> QED
  BY <1>1, <1>2, PTL DEF Spec

\* No host is ever said to be in a network that was looked up for another block: not
\* by an answer that comes after its host was evicted, not by a reused slot, and not
\* from the cache.
THEOREM NetworksAreOwn == Spec => []AsnOfOwnBlock
<1>1. MonitorInv => AsnOfOwnBlock
  BY DEF MonitorInv
<1> QED
  BY <1>1, HostsInOrder, PTL

\* A tick leaves no live flow taken for anonymous ciphertext whose host is known to
\* torrent, in whatever order it walks the flow table.
THEOREM TorrentsAreUnmasked == Spec => TorrentsUnmasked
<1>1. ASSUME MonitorInv, Tick, NEW k \in DOMAIN flows', flows'[k].app = "Obfuscated"
      PROVE  ~IsTorrenting(peers', k.remote)
  <2>1. PICK D, s, t : Ticked(D, s, t)
    BY <1>1, TickFacts
  <2> QED
    BY <1>1, <2>1 DEF Ticked
<1>2. MonitorInv /\ [Next]_vars =>
        [(\E k \in DOMAIN flows' :
            flows'[k].app = "Obfuscated" /\ IsTorrenting(peers', k.remote)) => ~Tick]_vars
  BY <1>1
<1> QED
  BY <1>2, HostsInOrder, PTL DEF Spec, TorrentsUnmasked

-----------------------------------------------------------------------------
(* Ids                                                                     *)

\* The ids in an arena are distinct and were all given out already.
IdsFresh(a) ==
  /\ a.next_id \in Nat \ {0}
  /\ \A h \in DOMAIN a.index : Entry(a, h).id \in 1 .. a.next_id - 1
  /\ \A g, h \in DOMAIN a.index : Entry(a, g).id = Entry(a, h).id => g = h

\* While fewer packets were seen than there are ids, none is given out twice.
IdsInv == MonitorInv /\ IdsFresh(peers) /\ peers.next_id <= events + 1

LEMMA SameIds ==
  ASSUME NEW a, NEW b, b.next_id = a.next_id, DOMAIN b.index = DOMAIN a.index,
         \A h \in DOMAIN a.index : Entry(b, h).id = Entry(a, h).id,
         IdsFresh(a)
  PROVE  IdsFresh(b)
BY DEF IdsFresh

\* A new host gets an id that no host in the arena has.
LEMMA TouchedIds ==
  ASSUME NEW a, NEW s, NEW ip, NEW fam, NEW b, NEW t, Touched(a, s, ip, fam, b, t),
         IdsFresh(a), a.next_id < IdMax
  PROVE  IdsFresh(b) /\ b.next_id <= a.next_id + 1
<1>1. \A h \in DOMAIN b.index : h # ip => h \in DOMAIN a.index /\ Entry(b, h).id = Entry(a, h).id
  BY DEF Touched, Kept
<1>2. CASE ip \in DOMAIN a.index
  <2>1. /\ DOMAIN b.index = DOMAIN a.index /\ b.next_id = a.next_id
        /\ Entry(b, ip).id = Entry(a, ip).id
    BY <1>2 DEF Touched
  <2>2. \A h \in DOMAIN a.index : Entry(b, h).id = Entry(a, h).id
    BY <1>1, <2>1
  <2>3. IdsFresh(b)
    BY <2>1, <2>2, SameIds
  <2> QED
    BY <2>1, <2>3 DEF IdsFresh
<1>3. CASE ip \notin DOMAIN a.index
  <2>1. b.next_id = NextId(a.next_id) /\ Entry(b, ip).id = a.next_id
    BY <1>3 DEF Touched
  <2>2. b.next_id = a.next_id + 1 /\ a.next_id \in Nat \ {0}
    BY <2>1, ArenaAssumption DEF NextId, IdsFresh
  <2>3. ASSUME NEW h \in DOMAIN b.index PROVE Entry(b, h).id \in 1 .. b.next_id - 1
    <3>1. CASE h = ip
      BY <2>1, <2>2, <3>1
    <3>2. CASE h # ip
      BY <1>1, <2>2, <3>2 DEF IdsFresh
    <3> QED
      BY <3>1, <3>2
  <2>4. ASSUME NEW g \in DOMAIN b.index, NEW h \in DOMAIN b.index, g # h
        PROVE  Entry(b, g).id # Entry(b, h).id
    <3>1. \A i \in DOMAIN a.index : Entry(a, i).id \in Nat /\ Entry(a, i).id # a.next_id
      BY <2>2 DEF IdsFresh
    <3>2. CASE g = ip
      BY <1>1, <2>1, <2>4, <3>1, <3>2
    <3>3. CASE h = ip
      BY <1>1, <2>1, <2>4, <3>1, <3>3
    <3>4. CASE g # ip /\ h # ip
      BY <1>1, <2>4, <3>4 DEF IdsFresh
    <3> QED
      BY <3>2, <3>3, <3>4
  <2>5. IdsFresh(b)
    BY <2>2, <2>3, <2>4 DEF IdsFresh
  <2> QED
    BY <2>2, <2>5
<1> QED
  BY <1>2, <1>3

\* Every step is one of these for the arena and the live flows.
Noticed == events < MaxEvents /\ events' = events + 1 /\ \E k, g : Noted(k, g)
Retold == /\ Annotated(peers, peers') /\ events' >= events
          /\ DOMAIN flows' = DOMAIN flows
TickedOnce == events' = events /\ \E D, s, t : Ticked(D, s, t)

LEMMA StepKinds ==
  ASSUME MonitorInv, [Next]_vars
  PROVE  Noticed \/ Retold \/ TickedOnce
<1>1. peers \in ArenaRec /\ events \in Nat
  BY DEF MonitorInv, HostsFronted, Good, Types
<1>2. ASSUME peers' = peers, DOMAIN flows' = DOMAIN flows, events' >= events PROVE Retold
  BY <1>1, <1>2 DEF Retold, Annotated
<1>3. ASSUME NEW p \in AllPackets, Record(p) PROVE Noticed \/ Retold
  <2>1. \/ flows' = flows /\ peers' = peers
        \/ events' = events + 1 /\ \E k, g : Noted(k, g)
    BY <1>3, RecordFacts DEF MonitorInv
  <2>2. events' = events + 1 /\ events < MaxEvents
    BY <1>3 DEF Record, RecordDeclined, RecordOpen, RecordKnown, See
  <2> QED
    BY <1>1, <1>2, <2>1, <2>2 DEF Noticed
<1>4. CASE Tick
  BY <1>4, TickFacts DEF TickedOnce, Tick
<1>5. CASE Age
  BY <1>1, <1>2, <1>5 DEF Age
<1>6. CASE \E k \in DOMAIN flows, status \in Notes : NoteFlow(k, status)
  <2>1. PICK k \in DOMAIN flows, status \in Notes : NoteFlow(k, status)
    BY <1>6
  <2>2. peers' = peers /\ events' = events + 1 /\ flows' = [flows EXCEPT ![k].status = status]
    BY <2>1 DEF NoteFlow
  <2>3. DOMAIN flows' = DOMAIN flows
    BY <2>2, FlowsFacts DEF MonitorInv
  <2> QED
    BY <1>1, <1>2, <2>2, <2>3
<1>7. CASE MarkOwn
  <2>1. peers' = peers /\ events' = events
    BY <1>7 DEF MarkOwn
  <2>2. flows' = flows \/ flows' = [flows EXCEPT ![OwnKey].origin = "Intel"]
    BY <1>7 DEF MarkOwn
  <2>3. DOMAIN flows' = DOMAIN flows
    BY <2>2, FlowsFacts DEF MonitorInv
  <2> QED
    BY <1>1, <1>2, <2>1, <2>3
<1>8. CASE EnrichCandidate
  <2>1. MonitorInv' /\ Annotated(peers, peers')
    BY <1>1, <1>8, CandidateKeeps
  <2>2. UNCHANGED <<flows, events>>
    BY <1>8 DEF EnrichCandidate
  <2> QED
    BY <1>1, <2>1, <2>2 DEF Retold
<1>9. CASE Enrich
  <2>1. MonitorInv' /\ Annotated(peers, peers')
    BY <1>1, <1>9, EnrichKeeps
  <2>2. UNCHANGED <<flows, events>>
    BY <1>9 DEF Enrich
  <2> QED
    BY <1>1, <2>1, <2>2 DEF Retold
<1>10. CASE UNCHANGED vars
  BY <1>1, <1>2, <1>10 DEF vars
<1> QED
  BY <1>3, <1>4, <1>5, <1>6, <1>7, <1>8, <1>9, <1>10 DEF Next, SendQuery, AllPackets

\* What a packet or a note does to the arena.
LEMMA NoticedHosts ==
  ASSUME MonitorInv, Noticed, NEW s, Good(peers, s), Fronted(peers, s, LiveHosts)
  PROVE  \E k \in Keys :
           /\ LiveHosts' = LiveHosts \cup {k.remote}
           /\ k \in DOMAIN flows \/ Cardinality(DOMAIN flows) < MaxLiveFlows
           /\ \/ peers' = peers /\ k \in DOMAIN flows
              \/ \E fam \in Families : \E t :
                   /\ Touched(peers, s, k.remote, fam, peers', t)
                   /\ Fronted(peers', t, LiveHosts \cup {k.remote})
<1>1. PICK k, g : Noted(k, g)
  BY DEF Noticed
<1>2. k \in Keys /\ (k \in DOMAIN flows \/ Cardinality(DOMAIN flows) < MaxLiveFlows)
  BY <1>1 DEF Noted
<1>3. LiveHosts' = LiveHosts \cup {k.remote}
  BY <1>1, NotedFlows DEF MonitorInv
<1>4. \/ peers' = peers /\ k \in DOMAIN flows
      \/ \E fam \in Families : \E t :
           /\ Touched(peers, s, k.remote, fam, peers', t)
           /\ Fronted(peers', t, LiveHosts \cup {k.remote})
  BY <1>1, NotedHosts DEF MonitorInv
<1> QED
  BY <1>2, <1>3, <1>4

\* A host with a live flow keeps its id through every step.
LEMMA LiveIds ==
  ASSUME MonitorInv, [Next]_vars, NEW h \in LiveHosts, h \in LiveHosts'
  PROVE  /\ h \in DOMAIN peers.index /\ h \in DOMAIN peers'.index
         /\ Entry(peers', h).id = Entry(peers, h).id
<1>1. PICK s : Good(peers, s) /\ Fronted(peers, s, LiveHosts)
  BY DEF MonitorInv, HostsFronted
<1>2. h \in DOMAIN peers.index
  BY <1>1 DEF Fronted
<1>3. CASE Noticed
  <2>1. PICK k \in Keys :
          \/ peers' = peers
          \/ \E fam \in Families : \E t :
               /\ Touched(peers, s, k.remote, fam, peers', t)
               /\ Fronted(peers', t, LiveHosts \cup {k.remote})
    BY <1>1, <1>3, NoticedHosts
  <2>2. CASE peers' = peers
    BY <1>2, <2>2
  <2>3. CASE peers' # peers
    <3>1. PICK fam, t :
            /\ fam \in Families
            /\ Touched(peers, s, k.remote, fam, peers', t)
            /\ Fronted(peers', t, LiveHosts \cup {k.remote})
      BY <2>1, <2>3
    <3>2. h \in DOMAIN peers'.index
      BY <3>1 DEF Fronted
    <3> QED
      BY <1>2, <3>1, <3>2 DEF Touched, Kept
  <2> QED
    BY <2>2, <2>3
<1>4. CASE Retold
  BY <1>1, <1>2, <1>4, AnnotatedGood DEF Retold, Annotated
<1>5. CASE TickedOnce
  <2>1. SameMemory(peers, peers')
    BY <1>5 DEF TickedOnce, Ticked
  <2> QED
    BY <1>2, <2>1 DEF SameMemory, Kept
<1> QED
  BY <1>3, <1>4, <1>5, StepKinds

LEMMA IdsKeep ==
  ASSUME MaxEvents < IdMax, IdsInv, [Next]_vars
  PROVE  IdsInv'
<1>1. MonitorInv'
  BY NextKeeps DEF IdsInv
<1>2. PICK s : Good(peers, s) /\ Fronted(peers, s, LiveHosts)
  BY DEF IdsInv, MonitorInv, HostsFronted
<1>3. /\ IdsFresh(peers) /\ peers.next_id <= events + 1 /\ peers.next_id \in Nat
      /\ events \in Nat /\ events' \in Nat /\ MaxEvents \in Nat /\ IdMax \in Nat
  BY <1>1, MonitorAssumption, ArenaAssumption DEF IdsInv, MonitorInv, Types, IdsFresh
<1>4. CASE Noticed
  <2>1. peers.next_id < IdMax /\ events' = events + 1
    BY <1>3, <1>4 DEF Noticed
  <2>2. PICK k \in Keys : peers' = peers \/ \E fam \in Families : \E t :
                            Touched(peers, s, k.remote, fam, peers', t)
    BY <1>2, <1>4, NoticedHosts DEF IdsInv
  <2>3. CASE peers' = peers
    BY <1>1, <1>3, <2>1, <2>3 DEF IdsInv
  <2>4. CASE peers' # peers
    <3>1. PICK fam, t : fam \in Families /\ Touched(peers, s, k.remote, fam, peers', t)
      BY <2>2, <2>4
    <3>2. IdsFresh(peers') /\ peers'.next_id <= peers.next_id + 1
      BY <1>3, <2>1, <3>1, TouchedIds
    <3>3. peers'.next_id \in Nat
      BY <3>2 DEF IdsFresh
    <3> QED
      BY <1>1, <1>3, <2>1, <3>2, <3>3 DEF IdsInv
  <2> QED
    BY <2>3, <2>4
<1>5. CASE Retold
  <2>1. /\ peers'.next_id = peers.next_id /\ DOMAIN peers'.index = DOMAIN peers.index
        /\ \A h \in DOMAIN peers.index : Entry(peers', h).id = Entry(peers, h).id
        /\ events' >= events
    BY <1>2, <1>5, AnnotatedGood DEF Retold, Annotated
  <2>2. IdsFresh(peers')
    BY <1>3, <2>1, SameIds
  <2> QED
    BY <1>1, <1>3, <2>1, <2>2 DEF IdsInv
<1>6. CASE TickedOnce
  <2>1. SameMemory(peers, peers') /\ events' = events
    BY <1>6 DEF TickedOnce, Ticked
  <2>2. /\ peers'.next_id = peers.next_id /\ DOMAIN peers'.index = DOMAIN peers.index
        /\ \A h \in DOMAIN peers.index : Entry(peers', h).id = Entry(peers, h).id
    BY <2>1 DEF SameMemory, Kept
  <2>3. IdsFresh(peers')
    BY <1>3, <2>2, SameIds
  <2> QED
    BY <1>1, <1>3, <2>1, <2>2, <2>3 DEF IdsInv
<1> QED
  BY <1>4, <1>5, <1>6, StepKinds DEF IdsInv

LEMMA InitIds ==
  ASSUME Init
  PROVE  IdsInv
<1>1. /\ peers = EmptyArena /\ events = 0
  BY DEF Init
<1>2. EmptyArena.index = <<>> /\ EmptyArena.next_id = 1 /\ DOMAIN <<>> = {}
  BY DEF EmptyArena
<1> QED
  BY <1>1, <1>2, InitInv DEF IdsInv, IdsFresh

\* Every host on screen has an id of its own, and has it for as long as a flow of it
\* stays in the table, whatever record and tick do to the arena in the meantime;
\* given that the ids do not run out.
THEOREM LiveHostsAreKept ==
  ASSUME MaxEvents < IdMax
  PROVE  Spec => LiveHostsKept
<1>1. ASSUME IdsInv, NEW g \in LiveHosts, NEW h \in LiveHosts
      PROVE  PeerId(h) # 0 /\ (g # h => PeerId(g) # PeerId(h))
  <2>1. g \in DOMAIN peers.index /\ h \in DOMAIN peers.index
    BY <1>1 DEF IdsInv, MonitorInv, HostsFronted, Fronted
  <2>2. PeerId(g) = Entry(peers, g).id /\ PeerId(h) = Entry(peers, h).id
    BY <2>1 DEF PeerId, Known
  <2> QED
    BY <1>1, <2>1, <2>2 DEF IdsInv, IdsFresh
<1>2. ASSUME IdsInv, [Next]_vars, NEW k \in DOMAIN flows \cap DOMAIN flows'
      PROVE  PeerId(k.remote)' = PeerId(k.remote)
  <2>1. PICK h : h = k.remote
    OBVIOUS
  <2>2. h \in LiveHosts /\ h \in LiveHosts'
    BY <2>1 DEF LiveHosts
  <2>3. /\ h \in DOMAIN peers.index /\ h \in DOMAIN peers'.index
        /\ Entry(peers', h).id = Entry(peers, h).id
    BY <1>2, <2>2, LiveIds DEF IdsInv
  <2> QED
    BY <2>1, <2>3 DEF PeerId, Known
<1>3. /\ DOMAIN Snapshot.hosts = LiveHosts
      /\ \A h \in LiveHosts : Snapshot.hosts[h].peer = PeerId(h)
  BY DEF Snapshot
<1>4. ASSUME IdsInv, [Next]_vars
      PROVE  LET rows == Snapshot.hosts
             IN  /\ \A g, h \in DOMAIN rows :
                      rows[h].peer # 0 /\ (g # h => rows[g].peer # rows[h].peer)
                 /\ \A k \in DOMAIN flows \cap DOMAIN flows' :
                      PeerId(k.remote)' = rows[k.remote].peer
  <2>1. \A k \in DOMAIN flows : k.remote \in LiveHosts
    BY DEF LiveHosts
  <2> QED
    BY <1>1, <1>2, <1>3, <1>4, <2>1
<1>5. Init => IdsInv
  BY InitIds
<1>6. IdsInv /\ [Next]_vars => IdsInv'
  BY IdsKeep
<1>7. IdsInv /\ [Next]_vars =>
        [LET rows == Snapshot.hosts
         IN  /\ \A g, h \in DOMAIN rows :
                  rows[h].peer # 0 /\ (g # h => rows[g].peer # rows[h].peer)
             /\ \A k \in DOMAIN flows \cap DOMAIN flows' :
                  PeerId(k.remote)' = rows[k.remote].peer]_vars
  BY <1>4
<1> QED
  BY <1>5, <1>6, <1>7, PTL DEF Spec, LiveHostsKept

-----------------------------------------------------------------------------
(* The memory of hosts                                                     *)

\* o, of n elements of S, has each of them once.
Listing(o, n, S) ==
  /\ n \in Nat /\ o \in [1 .. n -> S]
  /\ \A i, j \in 1 .. n : o[i] = o[j] => i = j
  /\ \A x \in S : \E i \in 1 .. n : o[i] = x

LEMMA ListingRange ==
  ASSUME NEW o, NEW n, NEW S, Listing(o, n, S)
  PROVE  Range(o) = S /\ IsFiniteSet(S) /\ Cardinality(S) = n
<1>1. o \in [1 .. n -> S] /\ n \in Nat /\ DOMAIN o = 1 .. n
  BY DEF Listing
<1>2. Range(o) = S
  BY <1>1 DEF Range, Listing
<1>3. o \in Bijection(1 .. n, S)
  BY <1>1 DEF Listing, Bijection, Injection, Surjection, IsInjective
<1>4. IsFiniteSet(1 .. n) /\ Cardinality(1 .. n) = n
  BY <1>1, FS_Interval
<1> QED
  BY <1>2, <1>3, <1>4, FS_Bijection DEF ExistsBijection

LEMMA PlaceIs ==
  ASSUME NEW o, NEW n, NEW S, Listing(o, n, S), NEW k \in 1 .. n
  PROVE  Memory!Place(o, o[k]) = k
<1>1. DOMAIN o = 1 .. n /\ \A i \in 1 .. n : o[i] = o[k] => i = k
  BY DEF Listing
<1> QED
  BY <1>1 DEF Memory!Place

\* Taking the k-th element out and putting it in front.
LEMMA RaisedIs ==
  ASSUME NEW o, NEW n, NEW S, Listing(o, n, S), NEW k \in 1 .. n
  PROVE  Memory!Raised(o, o[k]) = MovedUp(o, n, k)
<1>1. n \in Nat /\ o \in [1 .. n -> S] /\ o \in Seq(S) /\ Len(o) = n
  BY DEF Listing
<1>2. Memory!Place(o, o[k]) = k
  BY PlaceIs
<1>3. PICK u : u = RemoveAt(o, k)
  OBVIOUS
<1>4. /\ u \in Seq(S) /\ Len(u) = n - 1
      /\ \A j \in 1 .. n - 1 : u[j] = IF j < k THEN o[j] ELSE o[j + 1]
  BY <1>1, <1>3, RemoveAtFacts
<1>5. PICK r : r = <<o[k]>> \o u
  OBVIOUS
<1>6. /\ r \in Seq(S) /\ Len(r) = n /\ r[1] = o[k]
      /\ \A j \in 2 .. n : r[j] = u[j - 1]
  <2>1. PICK e \in S : e = o[k]
    BY <1>1
  <2>2. Len(u) + 1 = n /\ r = <<e>> \o u
    BY <1>1, <1>4, <1>5, <2>1
  <2> QED
    BY <1>4, <2>1, <2>2, FrontFacts
<1>7. DOMAIN r = 1 .. n /\ r = [j \in 1 .. n |-> r[j]]
  BY <1>1, <1>6
<1>8. ASSUME NEW j \in 1 .. n
      PROVE  r[j] = IF j = 1 THEN o[k] ELSE IF j <= k THEN o[j - 1] ELSE o[j]
  <2>1. CASE j = 1
    BY <1>6, <2>1
  <2>2. CASE j # 1
    <3>1. j \in 2 .. n /\ j - 1 \in 1 .. n - 1 /\ (j - 1) + 1 = j
      BY <1>1, <2>2
    <3>2. r[j] = IF j - 1 < k THEN o[j - 1] ELSE o[j]
      BY <1>4, <1>6, <3>1
    <3> QED
      BY <2>2, <3>1, <3>2
  <2> QED
    BY <2>1, <2>2
<1>9. r = [j \in 1 .. n |-> IF j = 1 THEN o[k] ELSE IF j <= k THEN o[j - 1] ELSE o[j]]
  BY <1>7, <1>8
<1>10. r = MovedUp(o, n, k)
  <2>1. MovedUp(o, n, k) =
          [j \in 1 .. n |-> IF j = 1 THEN o[k] ELSE IF j <= k THEN o[j - 1] ELSE o[j]]
    BY ZenonT(30), <1>1, MovedUpFacts
  <2> QED
    BY <1>9, <2>1
<1> QED
  BY <1>2, <1>3, <1>5, <1>10 DEF Memory!Raised, Memory!RemoveAt, RemoveAt

\* A new element in front of the first m.
LEMMA EnteredIs ==
  ASSUME NEW o, NEW n, NEW S, Listing(o, n, S), NEW h, NEW m \in 0 .. n
  PROVE  /\ <<h>> \o SubSeq(o, 1, m) = [j \in 1 .. m + 1 |-> IF j = 1 THEN h ELSE o[j - 1]]
         /\ Range(SubSeq(o, 1, m)) = {o[j] : j \in 1 .. m}
<1>1. n \in Nat /\ o \in Seq(S) /\ Len(o) = n /\ m \in Nat /\ m <= n
  BY DEF Listing
<1>2. PICK u : u = SubSeq(o, 1, m)
  OBVIOUS
<1>3. u \in Seq(S) /\ Len(u) = m /\ DOMAIN u = 1 .. m /\ \A j \in 1 .. m : u[j] = o[j]
  BY <1>1, <1>2
<1>4. u \in Seq(S \cup {h})
  BY <1>3
<1>5. PICK r : r = <<h>> \o u
  OBVIOUS
<1>6. /\ r \in Seq(S \cup {h}) /\ Len(r) = m + 1 /\ r[1] = h
      /\ \A j \in 2 .. m + 1 : r[j] = u[j - 1]
  BY <1>3, <1>4, <1>5, FrontFacts
<1>7. r = [j \in 1 .. m + 1 |-> r[j]]
  BY <1>1, <1>6
<1>8. ASSUME NEW j \in 1 .. m + 1 PROVE r[j] = IF j = 1 THEN h ELSE o[j - 1]
  BY <1>1, <1>3, <1>6
<1>9. Range(u) = {o[j] : j \in 1 .. m}
  BY <1>3 DEF Range
<1> QED
  BY <1>2, <1>5, <1>7, <1>8, <1>9

\* The instance counts as we do.
LEMMA MemoryCardinality ==
  ASSUME NEW S
  PROVE  Memory!Cardinality(S) = Cardinality(S)
BY DEF Memory!Cardinality, Cardinality

LEMMA RefreshedIs ==
  ASSUME NEW o, NEW q, NEW n, NEW S, Listing(o, n, S), Listing(q, n, S), NEW R,
         Shuffled(o, q, n, R)
  PROVE  q \in Memory!Refreshed(o, R)
<1>1. Range(o) = S /\ Cardinality(S) = n
  BY ListingRange
<1>2. q \in SetToSeqs(S)
  BY <1>1 DEF SetToSeqs, Listing
<1>3. DOMAIN q = 1 .. n
  BY DEF Listing
<1>4. ASSUME NEW i \in 1 .. n, NEW j \in 1 .. n, i < j, q[i] \notin R
      PROVE  q[j] \notin R /\ Memory!Place(o, q[i]) < Memory!Place(o, q[j])
  <2>1. q[j] \notin R /\ Before(o, n, q[i], q[j])
    BY <1>4 DEF Shuffled
  <2>2. PICK a \in 1 .. n, b \in 1 .. n : a < b /\ o[a] = q[i] /\ o[b] = q[j]
    BY <2>1 DEF Before
  <2>3. Memory!Place(o, q[i]) = a /\ Memory!Place(o, q[j]) = b
    BY <2>2, PlaceIs
  <2> QED
    BY <2>1, <2>2, <2>3
<1>5. Memory!Range(o) = S /\ q \in Memory!SetToSeqs(S)
  BY <1>1, <1>2, MemoryCardinality DEF Memory!Range, Range, Memory!SetToSeqs, SetToSeqs
<1> QED
  BY <1>3, <1>4, <1>5 DEF Memory!Refreshed

LEMMA GoodListing ==
  ASSUME NEW a, NEW s, Good(a, s)
  PROVE  /\ Listing(IterMru(a), Len(a.entries), DOMAIN a.index)
         /\ IterMru(a) = HostOrder(a, s)
<1>1. PICK o : o = HostOrder(a, s)
  OBVIOUS
<1>2. PICK n : n = Len(a.entries)
  OBVIOUS
<1>3. /\ n \in Nat /\ o \in [1 .. n -> DOMAIN a.index]
      /\ \A j, k \in 1 .. n : o[j] = o[k] => j = k
      /\ \A h \in DOMAIN a.index : \E k \in 1 .. n : o[k] = h
  BY <1>1, <1>2, OrderFacts
<1>4. IterMru(a) = o
  BY <1>1, IterMruIs
<1> QED
  BY <1>1, <1>2, <1>3, <1>4 DEF Listing

\* A flow of a host opens or is seen for something else.
LEMMA MemoryNotices ==
  ASSUME MaxEvents < IdMax, IdsInv, Noticed
  PROVE  [Memory!Next]_(Memory!vars)
<1>1. PICK s : Good(peers, s) /\ Fronted(peers, s, LiveHosts)
  BY DEF IdsInv, MonitorInv, HostsFronted
<1>2. PICK k \in Keys :
        /\ LiveHosts' = LiveHosts \cup {k.remote}
        /\ k \in DOMAIN flows \/ Cardinality(DOMAIN flows) < MaxLiveFlows
        /\ \/ peers' = peers /\ k \in DOMAIN flows
           \/ \E fam \in Families : \E t :
                /\ Touched(peers, s, k.remote, fam, peers', t)
                /\ Fronted(peers', t, LiveHosts \cup {k.remote})
  BY <1>1, NoticedHosts DEF IdsInv
<1>3. PICK h : h = k.remote
  OBVIOUS
<1>4. PICK o : o = IterMru(peers)
  OBVIOUS
<1>5. PICK ids : ids = [g \in DOMAIN peers.index |-> Entry(peers, g).id]
  OBVIOUS
<1>6. PICK n : n = Len(peers.entries)
  OBVIOUS
<1>7. PICK S : S = DOMAIN peers.index
  OBVIOUS
<1>8. Listing(o, n, S) /\ o = HostOrder(peers, s) /\ Range(o) = S /\ n \in Nat
  <2>1. Listing(o, n, S) /\ o = HostOrder(peers, s)
    BY <1>1, <1>4, <1>6, <1>7, GoodListing
  <2>2. Range(o) = S
    BY <2>1, ListingRange
  <2> QED
    BY <2>1, <2>2 DEF Listing
<1>9. h \in Host /\ (h \in LiveHosts \/ Cardinality(LiveHosts) < ArenaCap)
  <2>1. h \in Host
    BY <1>3, KeyFacts
  <2>2. CASE k \in DOMAIN flows
    BY <1>3, <2>1, <2>2 DEF LiveHosts
  <2>3. CASE k \notin DOMAIN flows
    <3>1. /\ Cardinality(LiveHosts) <= Cardinality(DOMAIN flows)
          /\ Cardinality(LiveHosts) \in Nat /\ Cardinality(DOMAIN flows) \in Nat
      BY LiveHostsFew, FS_CardinalityType DEF IdsInv, MonitorInv, Types
    <3> QED
      BY <1>2, <2>1, <2>3, <3>1, MonitorAssumption, ArenaAssumption
  <2> QED
    BY <2>2, <2>3
<1>10. CASE peers' = peers /\ k \in DOMAIN flows
  <2>1. LiveHosts' = LiveHosts
    BY <1>2, <1>10 DEF LiveHosts
  <2> QED
    BY <1>10, <2>1 DEF Memory!vars
<1>11. CASE ~(peers' = peers /\ k \in DOMAIN flows)
  <2>1. PICK fam, t : fam \in Families /\ Touched(peers, s, h, fam, peers', t)
    BY <1>2, <1>3, <1>11
  <2>2. Good(peers', t)
    BY <2>1 DEF Touched
  <2>3. PICK p : p = IterMru(peers')
    OBVIOUS
  <2>4. p = HostOrder(peers', t)
    BY <2>2, <2>3, GoodListing
  <2>5. PICK jds : jds = [g \in DOMAIN peers'.index |-> Entry(peers', g).id]
    OBVIOUS
  <2>6. CASE h \in S
    <3>1. /\ DOMAIN peers'.index = DOMAIN peers.index /\ peers'.next_id = peers.next_id
          /\ Entry(peers', h).id = Entry(peers, h).id
          /\ \E i \in 1 .. n : o[i] = h /\ p = MovedUp(o, n, i)
          /\ \A g \in DOMAIN peers'.index : g # h => Entry(peers', g).id = Entry(peers, g).id
      BY <1>6, <1>7, <1>8, <2>1, <2>4, <2>6 DEF Touched, Kept
    <3>2. jds = ids
      BY <1>5, <2>5, <3>1
    <3>3. p = Memory!Raised(o, h)
      BY <1>8, <3>1, RaisedIs
    <3>4. h \in Memory!Known
      BY <1>4, <1>8, <2>6 DEF Memory!Known, Memory!Range, Range
    <3>5. Memory!See(h)
      BY <1>4, <1>5, <2>3, <2>5, <3>1, <3>2, <3>3, <3>4 DEF Memory!See
    <3>6. Memory!Notice(h)
      BY <1>2, <1>3, <1>9, <3>5, MemoryCardinality DEF Memory!Notice
    <3> QED
      BY <1>9, <3>6 DEF Memory!Next, Host
  <2>7. CASE h \notin S
    <3>1. PICK m : m = IF n < ArenaCap THEN n ELSE ArenaCap - 1
      OBVIOUS
    <3>2. n <= ArenaCap /\ m \in 0 .. n /\ Room(peers) = m + 1
      <4>1. n <= ArenaCap /\ ArenaCap \in Nat \ {0}
        BY <1>1, <1>6, ArenaAssumption DEF Good
      <4> QED
        BY <1>6, <1>8, <3>1, <4>1 DEF Room
    <3>3. PICK u : u = SubSeq(o, 1, m)
      OBVIOUS
    <3>4. /\ <<h>> \o u = [j \in 1 .. m + 1 |-> IF j = 1 THEN h ELSE o[j - 1]]
          /\ Range(u) = {o[j] : j \in 1 .. m}
      BY <1>8, <3>2, <3>3, EnteredIs
    <3>5. /\ peers'.next_id = NextId(peers.next_id) /\ Entry(peers', h).id = peers.next_id
          /\ h \in DOMAIN peers'.index
          /\ p = [j \in 1 .. m + 1 |-> IF j = 1 THEN h ELSE o[j - 1]]
          /\ \A g \in DOMAIN peers'.index :
               g # h => g \in S /\ Entry(peers', g).id = Entry(peers, g).id
      BY <1>7, <1>8, <2>1, <2>4, <2>7, <3>2 DEF Touched, Kept
    <3>6. p = <<h>> \o u
      BY <3>4, <3>5
    <3>7. peers'.next_id = peers.next_id + 1
      <4>1. peers.next_id \in Nat /\ peers.next_id < IdMax
        BY MonitorAssumption, ArenaAssumption
           DEF IdsInv, IdsFresh, Noticed, MonitorInv, Types
      <4> QED
        BY <3>5, <4>1, ArenaAssumption DEF NextId
    <3>8. DOMAIN peers'.index = Range(u) \cup {h}
      <4>1. PICK T : T = DOMAIN peers'.index
        OBVIOUS
      <4>2. Range(p) = T
        BY <2>2, <2>3, <4>1, GoodListing, ListingRange
      <4>3. DOMAIN p = 1 .. m + 1 /\ p[1] = h /\ \A j \in 1 .. m : p[j + 1] = o[j]
        BY <3>2, <3>5, <1>8
      <4>4. Range(p) = {o[j] : j \in 1 .. m} \cup {h}
        <5>1. ASSUME NEW x \in {o[j] : j \in 1 .. m} PROVE x \in Range(p)
          <6>1. PICK j \in 1 .. m : x = o[j]
            BY <5>1
          <6>2. j + 1 \in DOMAIN p /\ p[j + 1] = x
            BY <1>8, <3>2, <4>3, <6>1
          <6> QED
            BY <6>2 DEF Range
        <5>2. h \in Range(p)
          <6>1. 1 \in DOMAIN p
            BY <1>8, <3>2, <4>3
          <6> QED
            BY <4>3, <6>1 DEF Range
        <5>3. ASSUME NEW x \in Range(p) PROVE x \in {o[j] : j \in 1 .. m} \cup {h}
          <6>1. PICK j \in 1 .. m + 1 : x = p[j]
            BY <4>3, <5>3 DEF Range
          <6>2. CASE j = 1
            BY <4>3, <6>1, <6>2
          <6>3. CASE j # 1
            <7>1. j - 1 \in 1 .. m /\ p[j] = o[j - 1]
              BY <3>2, <3>5, <6>3, <1>8
            <7> QED
              BY <6>1, <7>1
          <6> QED
            BY <6>2, <6>3
        <5> QED
          BY <5>1, <5>2, <5>3
      <4> QED
        BY <3>4, <4>1, <4>2, <4>4
    <3>9. jds = [g \in Range(u) \cup {h} |-> IF g = h THEN peers.next_id ELSE ids[g]]
      BY <1>5, <1>7, <2>5, <3>5, <3>8
    <3>10. h \notin Memory!Known
      BY <1>4, <1>8, <2>7 DEF Memory!Known, Memory!Range, Range
    <3>11. Len(o) = n
      BY <1>8 DEF Listing
    <3>12. Memory!See(h)
      <4>1. u = SubSeq(IterMru(peers), 1,
                       IF Len(IterMru(peers)) < ArenaCap THEN Len(IterMru(peers))
                       ELSE ArenaCap - 1)
        BY <1>4, <3>1, <3>3, <3>11
      <4>2. IterMru(peers)' = <<h>> \o u
        BY <2>3, <3>6
      <4>3. [g \in DOMAIN peers.index |-> Entry(peers, g).id]' =
              [g \in Memory!Range(u) \cup {h} |->
                 IF g = h THEN peers.next_id
                 ELSE [f \in DOMAIN peers.index |-> Entry(peers, f).id][g]]
        <5>1. Memory!Range(u) = Range(u)
          BY DEF Memory!Range, Range
        <5> QED
          BY <1>5, <2>5, <3>9, <5>1
      <4> QED
        BY <3>7, <3>10, <4>1, <4>2, <4>3 DEF Memory!See
    <3>13. Memory!Notice(h)
      BY <1>2, <1>3, <1>9, <3>12, MemoryCardinality DEF Memory!Notice
    <3> QED
      BY <1>9, <3>13 DEF Memory!Next, Host
  <2> QED
    BY <2>6, <2>7
<1> QED
  BY <1>10, <1>11

LEMMA MemoryRetold ==
  ASSUME MonitorInv, Retold
  PROVE  [Memory!Next]_(Memory!vars)
<1>1. PICK s : Good(peers, s)
  BY DEF MonitorInv, HostsFronted
<1>2. Annotated(peers, peers') /\ DOMAIN flows' = DOMAIN flows
  BY DEF Retold
<1>3. /\ Good(peers', s) /\ HostOrder(peers', s) = HostOrder(peers, s)
      /\ \A h \in DOMAIN peers.index : Entry(peers', h).id = Entry(peers, h).id
  BY <1>1, <1>2, AnnotatedGood
<1>4. IterMru(peers') = IterMru(peers)
  BY <1>1, <1>3, GoodListing
<1>5. peers'.index = peers.index /\ peers'.next_id = peers.next_id
  BY <1>2 DEF Annotated
<1>6. LiveHosts' = LiveHosts
  BY <1>2 DEF LiveHosts
<1> QED
  BY <1>3, <1>4, <1>5, <1>6 DEF Memory!vars

LEMMA MemoryTicks ==
  ASSUME MonitorInv, TickedOnce
  PROVE  Memory!Tick
<1>1. PICK D, s, t : Ticked(D, s, t)
  BY DEF TickedOnce
<1>2. /\ D \subseteq DOMAIN flows /\ flows' \in [D -> FlowRec]
      /\ Good(peers, s) /\ Good(peers', t)
      /\ DOMAIN peers'.index = DOMAIN peers.index /\ peers'.next_id = peers.next_id
      /\ Len(peers'.entries) = Len(peers.entries)
      /\ \A h \in DOMAIN peers.index : Kept(peers, peers', h)
      /\ Shuffled(HostOrder(peers, s), HostOrder(peers', t), Len(peers.entries), LiveHosts')
  BY <1>1 DEF Ticked, SameMemory
<1>3. LiveHosts' \subseteq LiveHosts
  BY <1>2 DEF LiveHosts
<1>4. PICK o, q : o = IterMru(peers) /\ q = IterMru(peers')
  OBVIOUS
<1>5. PICK n, S : n = Len(peers.entries) /\ S = DOMAIN peers.index
  OBVIOUS
<1>6. Listing(o, n, S) /\ o = HostOrder(peers, s)
  BY <1>2, <1>4, <1>5, GoodListing
<1>7. Listing(q, n, S) /\ q = HostOrder(peers', t)
  BY <1>2, <1>4, <1>5, GoodListing
<1>8. PICK R : R = LiveHosts'
  OBVIOUS
<1>9. Shuffled(o, q, n, R)
  BY <1>2, <1>5, <1>6, <1>7, <1>8
<1>10. q \in Memory!Refreshed(o, R)
  BY <1>6, <1>7, <1>9, RefreshedIs
<1>11. [h \in DOMAIN peers.index |-> Entry(peers, h).id]'
         = [h \in DOMAIN peers.index |-> Entry(peers, h).id]
  BY <1>2 DEF Kept
<1> QED
  BY <1>2, <1>3, <1>4, <1>8, <1>10, <1>11 DEF Memory!Tick

LEMMA MemoryInit ==
  ASSUME Init
  PROVE  Memory!Init
<1>1. /\ flows = <<>> /\ peers = EmptyArena
  BY DEF Init
<1>2. LiveHosts = {}
  BY <1>1 DEF LiveHosts
<1>3. PICK s : Good(peers, s)
  BY InitInv DEF MonitorInv, HostsFronted
<1>4. peers.entries = <<>> /\ peers.index = <<>> /\ peers.next_id = 1
  BY <1>1 DEF EmptyArena
<1>5. IterMru(peers) = <<>>
  <2>1. PICK o : o = IterMru(peers)
    OBVIOUS
  <2>2. Listing(o, 0, {})
    BY <1>3, <1>4, <2>1, GoodListing
  <2>3. o \in [1 .. 0 -> {}]
    BY <2>2 DEF Listing
  <2> QED
    BY <2>1, <2>3
<1>6. [h \in DOMAIN peers.index |-> Entry(peers, h).id] = <<>>
  BY <1>4
<1> QED
  BY <1>2, <1>4, <1>5, <1>6 DEF Memory!Init

\* The arena and the flow table implement the bounded memory of HostMemory: the slab
\* and its links are a list in order of recency, in which only a host without a live
\* flow is ever forgotten; given that the ids do not run out.
THEOREM MemoryIsImplemented ==
  ASSUME MaxEvents < IdMax
  PROVE  Spec => MemoryImplemented
<1>1. Init => Memory!Init /\ IdsInv
  BY MemoryInit, InitIds
<1>2. IdsInv /\ [Next]_vars => IdsInv'
  BY IdsKeep
<1>3. ASSUME IdsInv, [Next]_vars PROVE [Memory!Next]_(Memory!vars)
  <2>1. Noticed \/ Retold \/ TickedOnce
    BY <1>3, StepKinds DEF IdsInv
  <2> QED
    BY <1>3, <2>1, MemoryNotices, MemoryRetold, MemoryTicks DEF IdsInv, Memory!Next
<1>4. IdsInv /\ [Next]_vars => [Memory!Next]_(Memory!vars)
  BY <1>3
<1> QED
  BY <1>1, <1>2, <1>4, PTL DEF Spec, MemoryImplemented, Memory!Spec

-----------------------------------------------------------------------------
(* Bytes                                                                   *)

\* Rows whose bytes can be summed.
Summable(rows) ==
  /\ IsFiniteSet(DOMAIN rows) /\ rows = [i \in DOMAIN rows |-> rows[i]]
  /\ \A i \in DOMAIN rows : rows[i].bytes \in Nat

\* What a row adds to a label, and the rows without one of them.
Part(r, l) == IF r.app = l THEN r.bytes ELSE 0
Less(rows, k) == [i \in DOMAIN rows \ {k} |-> rows[i]]

\* The rows of a label, as SumOf counts them.
RowsOf(rows, l) == {j \in DOMAIN rows : rows[j].app = l}
BytesOf(rows, l) == [i \in RowsOf(rows, l) |-> rows[i].bytes]

LEMMA SumIsTotal ==
  ASSUME NEW rows, NEW l
  PROVE  SumOf(rows, l) = Summed(BytesOf(rows, l))
BY DEF SumOf, Summed, BytesOf, RowsOf

LEMMA BytesFacts ==
  ASSUME NEW rows, Summable(rows), NEW l, NEW U, U = RowsOf(rows, l),
         NEW g, g = BytesOf(rows, l)
  PROVE  IsFiniteSet(U) /\ g \in [U -> Nat] /\ \A i \in U : g[i] = rows[i].bytes
<1>1. IsFiniteSet(U)
  BY FS_Subset DEF Summable, RowsOf
<1>2. g = [i \in U |-> rows[i].bytes]
  BY DEF BytesOf
<1>3. \A i \in U : rows[i].bytes \in Nat
  BY DEF Summable, RowsOf
<1> QED
  BY <1>1, <1>2, <1>3

LEMMA SumNat ==
  ASSUME NEW rows, Summable(rows), NEW l
  PROVE  SumOf(rows, l) \in Nat
<1>1. PICK U : U = RowsOf(rows, l)
  OBVIOUS
<1>2. PICK g : g = BytesOf(rows, l)
  OBVIOUS
<1>3. IsFiniteSet(U) /\ g \in [U -> Nat]
  BY <1>1, <1>2, BytesFacts
<1> QED
  BY <1>2, <1>3, SumIsTotal, TotalNat

LEMMA SumEmpty ==
  ASSUME NEW rows, DOMAIN rows = {}, NEW l
  PROVE  SumOf(rows, l) = 0
<1>1. DOMAIN BytesOf(rows, l) = {}
  BY DEF BytesOf, RowsOf
<1> QED
  BY <1>1, SumIsTotal, TotalEmpty

\* A sum depends on the labels and the bytes of its rows alone.
LEMMA SumSame ==
  ASSUME NEW a, NEW b, DOMAIN b = DOMAIN a,
         \A i \in DOMAIN a : b[i].app = a[i].app /\ b[i].bytes = a[i].bytes, NEW l
  PROVE  SumOf(b, l) = SumOf(a, l)
<1>1. BytesOf(b, l) = BytesOf(a, l)
  <2>1. RowsOf(b, l) = RowsOf(a, l)
    BY DEF RowsOf
  <2>2. \A i \in RowsOf(a, l) : b[i].bytes = a[i].bytes
    BY DEF RowsOf
  <2> QED
    BY <2>1, <2>2 DEF BytesOf
<1> QED
  BY <1>1, SumIsTotal

\* One row less.
LEMMA LessFacts ==
  ASSUME NEW rows, Summable(rows), NEW k \in DOMAIN rows, NEW less, less = Less(rows, k)
  PROVE  /\ Summable(less) /\ DOMAIN less = DOMAIN rows \ {k}
         /\ \A i \in DOMAIN less : less[i] = rows[i]
<1>1. DOMAIN less = DOMAIN rows \ {k} /\ \A i \in DOMAIN less : less[i] = rows[i]
  BY DEF Less
<1>2. IsFiniteSet(DOMAIN less)
  BY <1>1, FS_Subset DEF Summable
<1>3. less = [i \in DOMAIN less |-> less[i]]
  BY DEF Less
<1> QED
  BY <1>1, <1>2, <1>3 DEF Summable

LEMMA SumLess ==
  ASSUME NEW rows, Summable(rows), NEW k \in DOMAIN rows, NEW l,
         NEW less, less = Less(rows, k), NEW part, part = Part(rows[k], l)
  PROVE  SumOf(rows, l) = part + SumOf(less, l) /\ part \in Nat /\ SumOf(less, l) \in Nat
<1>2. DOMAIN less = DOMAIN rows \ {k} /\ \A i \in DOMAIN less : less[i] = rows[i]
  BY LessFacts
<1>3. Summable(less)
  BY LessFacts
<1>4. SumOf(less, l) \in Nat /\ part \in Nat
  BY <1>3, SumNat DEF Summable, Part
<1>5. PICK U : U = RowsOf(rows, l)
  OBVIOUS
<1>6. PICK g, h : g = BytesOf(rows, l) /\ h = BytesOf(less, l)
  OBVIOUS
<1>7. IsFiniteSet(U) /\ g \in [U -> Nat] /\ \A i \in U : g[i] = rows[i].bytes
  BY <1>5, <1>6, BytesFacts
<1>8. h = [i \in U \ {k} |-> g[i]]
  <2>1. RowsOf(less, l) = U \ {k}
    BY <1>2, <1>5 DEF RowsOf
  <2>2. h = [i \in U \ {k} |-> less[i].bytes]
    BY <1>6, <2>1 DEF BytesOf
  <2>3. \A i \in U \ {k} : less[i].bytes = g[i]
    BY <1>2, <1>5, <1>7 DEF RowsOf
  <2> QED
    BY <2>2, <2>3
<1>9. CASE k \in U
  <2>1. Summed(g) = g[k] + Summed(h)
    BY <1>7, <1>8, <1>9, TotalRemove
  <2>2. g[k] = part
    BY <1>5, <1>7, <1>9 DEF Part, RowsOf
  <2> QED
    BY <1>2, <1>3, <1>4, <1>6, <2>1, <2>2, SumIsTotal
<1>10. CASE k \notin U
  <2>1. h = g
    BY <1>7, <1>8, <1>10
  <2>2. part = 0
    BY <1>5, <1>10 DEF Part, RowsOf
  <2>3. SumOf(rows, l) = SumOf(less, l)
    BY <1>6, <2>1, SumIsTotal
  <2> QED
    BY <1>2, <1>3, <1>4, <2>2, <2>3
<1> QED
  BY <1>9, <1>10

\* Rows in a row.
LEMMA SumJoin ==
  ASSUME NEW m \in Nat, NEW n \in Nat, NEW a, NEW b, NEW c, Joins(c, m, n, a, b),
         Summable(a), Summable(b), Summable(c), NEW l
  PROVE  SumOf(c, l) = SumOf(a, l) + SumOf(b, l)
<1> USE DEF Joins
<1> DEFINE C(k) == [i \in 1 .. m + k |-> c[i]]
           B(k) == [i \in 1 .. k |-> b[i]]
           good == {k \in 0 .. n : SumOf(C(k), l) = SumOf(a, l) + SumOf(B(k), l)}
<1>1. ASSUME NEW k \in 0 .. n
      PROVE  /\ DOMAIN C(k) = 1 .. m + k /\ Summable(C(k))
             /\ DOMAIN B(k) = 1 .. k /\ Summable(B(k))
  <2>1. IsFiniteSet(1 .. m + k) /\ IsFiniteSet(1 .. k)
    <3>1. \A p \in Int : IsFiniteSet(1 .. p)
      BY FS_Interval
    <3> QED
      BY <3>1
  <2>2. \A i \in 1 .. m + k : i \in 1 .. m + n /\ c[i].bytes \in Nat
    BY DEF Summable
  <2>3. \A i \in 1 .. k : b[i].bytes \in Nat
    BY DEF Summable
  <2> QED
    BY <2>1, <2>2, <2>3 DEF Summable
<1>2. 0 \in good
  <2>1. a = C(0)
    <3>1. a = [i \in 1 .. m |-> a[i]]
      BY DEF Summable
    <3>2. C(0) = [i \in 1 .. m |-> c[i]]
      OBVIOUS
    <3> QED
      BY <3>1, <3>2
  <2>2. SumOf(B(0), l) = 0
    <3>1. DOMAIN B(0) = {}
      OBVIOUS
    <3> HIDE DEF B
    <3> QED
      BY <3>1, SumEmpty
  <2>3. SumOf(a, l) \in Nat
    BY SumNat
  <2> HIDE DEF B, C
  <2> QED
    BY <2>1, <2>2, <2>3
<1>3. ASSUME NEW k \in 1 .. n, k - 1 \in good PROVE k \in good
  <2>1. PICK p, q : p = C(k) /\ q = B(k)
    OBVIOUS
  <2>2. /\ DOMAIN p = 1 .. m + k /\ Summable(p) /\ m + k \in DOMAIN p
        /\ DOMAIN q = 1 .. k /\ Summable(q) /\ k \in DOMAIN q
    <3>1. k \in 0 .. n
      OBVIOUS
    <3> QED
      BY <1>1, <2>1, <3>1
  <2>3. Less(p, m + k) = C(k - 1)
    <3>1. (1 .. m + k) \ {m + k} = 1 .. m + (k - 1)
      OBVIOUS
    <3>2. Less(p, m + k) = [i \in 1 .. m + (k - 1) |-> p[i]]
      BY <2>2, <3>1 DEF Less
    <3>3. \A i \in 1 .. m + (k - 1) : p[i] = c[i]
      BY <2>1
    <3> QED
      BY <3>2, <3>3
  <2>4. Less(q, k) = B(k - 1)
    <3>1. (1 .. k) \ {k} = 1 .. k - 1
      OBVIOUS
    <3>2. Less(q, k) = [i \in 1 .. k - 1 |-> q[i]]
      BY <2>2, <3>1 DEF Less
    <3>3. \A i \in 1 .. k - 1 : q[i] = b[i]
      BY <2>1
    <3> QED
      BY <3>2, <3>3
  <2>5. p[m + k] = q[k]
    BY <2>1
  <2>6. SumOf(C(k - 1), l) = SumOf(a, l) + SumOf(B(k - 1), l)
    BY <1>3
  <2> HIDE DEF B, C
  <2>7. /\ SumOf(p, l) = Part(p[m + k], l) + SumOf(C(k - 1), l)
        /\ Part(p[m + k], l) \in Nat /\ SumOf(C(k - 1), l) \in Nat
    <3>1. PICK r, part, less : r = m + k /\ part = Part(p[r], l) /\ less = Less(p, r)
      OBVIOUS
    <3>2. SumOf(p, l) = part + SumOf(less, l) /\ part \in Nat /\ SumOf(less, l) \in Nat
      BY <2>2, <3>1, SumLess
    <3> QED
      BY <2>3, <3>1, <3>2
  <2>8. /\ SumOf(q, l) = Part(q[k], l) + SumOf(B(k - 1), l)
        /\ SumOf(B(k - 1), l) \in Nat
    <3>1. PICK part, less : part = Part(q[k], l) /\ less = Less(q, k)
      OBVIOUS
    <3>2. SumOf(q, l) = part + SumOf(less, l) /\ SumOf(less, l) \in Nat
      BY <2>2, <3>1, SumLess
    <3> QED
      BY <2>4, <3>1, <3>2
  <2>9. SumOf(a, l) \in Nat
    BY SumNat
  <2>10. SumOf(p, l) = SumOf(a, l) + SumOf(q, l)
    BY <2>5, <2>6, <2>7, <2>8, <2>9
  <2> QED
    BY <2>1, <2>10
<1> HIDE DEF good
<1>4. 0 .. n \subseteq good
  BY <1>2, <1>3, UpTo
<1>5. SumOf(C(n), l) = SumOf(a, l) + SumOf(B(n), l)
  BY <1>4 DEF good
<1>6. C(n) = c /\ B(n) = b
  BY DEF Summable
<1> QED
  BY <1>5, <1>6

\* Rows taken out of a table, one by one.
Takes(rows, n, gone, out, rest) ==
  /\ gone \in [1 .. n -> DOMAIN rows] /\ \A i, j \in 1 .. n : gone[i] = gone[j] => i = j
  /\ DOMAIN out = 1 .. n
  /\ \A i \in 1 .. n : /\ out[i].app = rows[gone[i]].app
                        /\ out[i].bytes = rows[gone[i]].bytes
  /\ rest = [k \in DOMAIN rows \ {gone[j] : j \in 1 .. n} |-> rows[k]]

LEMMA SumGone ==
  ASSUME NEW rows, Summable(rows), NEW n \in Nat, NEW gone, NEW out, Summable(out),
         NEW rest, Takes(rows, n, gone, out, rest), NEW l
  PROVE  SumOf(rows, l) = SumOf(rest, l) + SumOf(out, l)
<1> USE DEF Takes
<1> DEFINE T(i) == [k \in DOMAIN rows \ {gone[j] : j \in 1 .. i} |-> rows[k]]
           O(i) == [j \in 1 .. i |-> out[j]]
           good == {i \in 0 .. n : SumOf(rows, l) = SumOf(T(i), l) + SumOf(O(i), l)}
<1>1. ASSUME NEW i \in 0 .. n
      PROVE  /\ DOMAIN T(i) = DOMAIN rows \ {gone[j] : j \in 1 .. i} /\ Summable(T(i))
             /\ DOMAIN O(i) = 1 .. i /\ Summable(O(i))
  <2>1. IsFiniteSet(DOMAIN T(i))
    BY FS_Subset DEF Summable
  <2>2. IsFiniteSet(1 .. i)
    BY FS_Interval
  <2>3. \A j \in 1 .. i : out[j].bytes \in Nat
    BY DEF Summable
  <2>4. \A k \in DOMAIN T(i) : T(i)[k].bytes \in Nat
    BY DEF Summable
  <2> QED
    BY <2>1, <2>2, <2>3, <2>4 DEF Summable
<1>2. 0 \in good
  <2>1. rows = T(0)
    <3>1. {gone[j] : j \in 1 .. 0} = {}
      OBVIOUS
    <3>2. rows = [k \in DOMAIN rows |-> rows[k]]
      BY DEF Summable
    <3> QED
      BY <3>1, <3>2
  <2>2. DOMAIN O(0) = {}
    OBVIOUS
  <2> HIDE DEF O, T
  <2>3. SumOf(O(0), l) = 0 /\ SumOf(rows, l) \in Nat
    BY <2>2, SumEmpty, SumNat
  <2> QED
    BY <2>1, <2>3
<1>3. ASSUME NEW i \in 1 .. n, i - 1 \in good PROVE i \in good
  <2>1. PICK p, q, k : p = T(i - 1) /\ q = O(i) /\ k = gone[i]
    OBVIOUS
  <2>2. PICK less, rump : less = Less(p, k) /\ rump = Less(q, i)
    OBVIOUS
  <2>3. PICK part : part = Part(p[k], l)
    OBVIOUS
  <2>4. /\ DOMAIN p = DOMAIN rows \ {gone[j] : j \in 1 .. i - 1} /\ Summable(p)
        /\ DOMAIN q = 1 .. i /\ Summable(q) /\ i \in DOMAIN q
    <3>1. i \in 0 .. n /\ i - 1 \in 0 .. n
      OBVIOUS
    <3>2. DOMAIN O(i) = 1 .. i /\ Summable(O(i))
      BY <1>1, <3>1
    <3>3. DOMAIN T(i - 1) = DOMAIN rows \ {gone[j] : j \in 1 .. i - 1} /\ Summable(T(i - 1))
      BY <1>1, <3>1
    <3> HIDE DEF O, T
    <3> QED
      BY <2>1, <3>2, <3>3
  <2>5. k \in DOMAIN p /\ k \in DOMAIN rows
    BY <2>1, <2>4
  <2>6. less = T(i)
    <3>1. 1 .. i = (1 .. i - 1) \cup {i}
      OBVIOUS
    <3>2. {gone[j] : j \in 1 .. i} = {gone[j] : j \in 1 .. i - 1} \cup {k}
      BY <2>1, <3>1
    <3>3. DOMAIN p \ {k} = DOMAIN rows \ {gone[j] : j \in 1 .. i}
      BY <2>4, <3>2
    <3>4. \A j \in DOMAIN p : p[j] = rows[j]
      BY <2>1
    <3> QED
      BY <2>2, <3>3, <3>4 DEF Less
  <2>7. rump = O(i - 1)
    <3>1. (1 .. i) \ {i} = 1 .. i - 1
      OBVIOUS
    <3>2. \A j \in 1 .. i - 1 : q[j] = out[j]
      BY <2>1
    <3> QED
      BY <2>2, <2>4, <3>1, <3>2 DEF Less
  <2>8. part = Part(q[i], l)
    <3>1. p[k] = rows[k] /\ q[i] = out[i] /\ i \in 1 .. n
      BY <2>1, <2>4, <2>5
    <3>2. out[i].app = rows[k].app /\ out[i].bytes = rows[k].bytes
      BY <2>1, <3>1
    <3> QED
      BY <2>3, <3>1, <3>2 DEF Part
  <2>9. SumOf(rows, l) = SumOf(p, l) + SumOf(rump, l)
    BY <1>3, <2>1, <2>7
  <2> HIDE DEF O, T
  <2>10. SumOf(p, l) = part + SumOf(less, l) /\ part \in Nat /\ SumOf(less, l) \in Nat
    BY <2>2, <2>3, <2>4, <2>5, SumLess
  <2>11. SumOf(q, l) = part + SumOf(rump, l) /\ SumOf(rump, l) \in Nat
    BY <2>2, <2>4, <2>8, SumLess
  <2>12. SumOf(rows, l) = SumOf(less, l) + SumOf(q, l)
    BY <2>9, <2>10, <2>11
  <2> QED
    BY <2>1, <2>6, <2>12
<1> HIDE DEF good
<1>4. 0 .. n \subseteq good
  BY <1>2, <1>3, UpTo
<1>5. SumOf(rows, l) = SumOf(T(n), l) + SumOf(O(n), l)
  BY <1>4 DEF good
<1>6. T(n) = rest /\ O(n) = out
  BY DEF Summable
<1> QED
  BY <1>5, <1>6

\* A row put in a table, or in place of the row there was.
LEMMA SumInsert ==
  ASSUME NEW rows, Summable(rows), NEW k, NEW g, g.bytes \in Nat,
         NEW to, to = Insert(rows, k, g), NEW less, less = Less(rows, k), NEW l,
         NEW part, part = Part(g, l)
  PROVE  /\ Summable(to)
         /\ SumOf(to, l) = part + SumOf(less, l) /\ part \in Nat /\ SumOf(less, l) \in Nat
<1>1. DOMAIN to = DOMAIN rows \cup {k} /\ to[k] = g
      /\ \A i \in DOMAIN to : i # k => i \in DOMAIN rows /\ to[i] = rows[i]
  BY DEF Insert
<1>2. Summable(to)
  <2>1. IsFiniteSet(DOMAIN to)
    BY <1>1, FS_AddElement DEF Summable
  <2>2. to = [i \in DOMAIN to |-> to[i]]
    BY DEF Insert
  <2>3. \A i \in DOMAIN to : to[i].bytes \in Nat
    BY <1>1 DEF Summable
  <2> QED
    BY <2>1, <2>2, <2>3 DEF Summable
<1>3. less = Less(to, k)
  <2>1. DOMAIN to \ {k} = DOMAIN rows \ {k}
    BY <1>1
  <2> QED
    BY <1>1, <2>1 DEF Less
<1>4. k \in DOMAIN to /\ part = Part(to[k], l)
  BY <1>1
<1> QED
  BY <1>2, <1>3, <1>4, SumLess

-----------------------------------------------------------------------------
(* The totals                                                              *)

\* The totals are what the flow has, and a base that does not change.
Balance(f, totals, base) == \A l \in Labels : totals[l] = base[l] + Part(f, l)

\* Relabelling moves the bytes of the flow, all of them.
LEMMA MovedBalance ==
  ASSUME NEW f \in FlowRec, NEW totals \in Totals, NEW base \in Totals,
         Balance(f, totals, base), NEW to \in Labels
  PROVE  Balance([f EXCEPT !.app = to], Moved(totals, f.app, to, f.bytes), base)
<1>1. PICK n \in Nat : n = f.bytes
  BY DEF FlowRec
<1>2. PICK from \in Labels : from = f.app
  BY DEF FlowRec
<1>3. PICK g : g = [f EXCEPT !.app = to]
  OBVIOUS
<1>4. g.app = to /\ g.bytes = n
  BY <1>1, <1>3 DEF FlowRec
<1>5. \A l \in Labels : base[l] \in Nat /\ totals[l] \in Nat
  BY DEF Totals
<1>6. \A l \in Labels : totals[l] = base[l] + (IF from = l THEN n ELSE 0)
  BY <1>1, <1>2 DEF Balance, Part
<1>7. PICK t : t = Moved(totals, from, to, n)
  OBVIOUS
<1>8. CASE n = 0
  BY <1>2, <1>3, <1>4, <1>5, <1>6, <1>7, <1>8, <1>1 DEF Moved, Balance, Part
<1>9. CASE n # 0
  <2>1. PICK left : left = [totals EXCEPT ![from] = IF totals[from] >= n THEN totals[from] - n ELSE 0]
    OBVIOUS
  <2>2. t = [left EXCEPT ![to] = left[to] + n]
    BY <1>7, <1>9, <2>1 DEF Moved
  <2>3. DOMAIN totals = Labels
    BY DEF Totals
  <2>4. \A l \in Labels : left[l] = base[l]
    BY <1>5, <1>6, <2>1, <2>3
  <2>5. \A l \in Labels : t[l] = base[l] + (IF to = l THEN n ELSE 0)
    BY <1>5, <2>1, <2>2, <2>3, <2>4
  <2> QED
    BY <1>1, <1>2, <1>3, <1>4, <1>7, <2>5 DEF Balance, Part
<1> QED
  BY <1>8, <1>9

LEMMA UpgradedBalance ==
  ASSUME NEW w \in Working, NEW base \in Totals, Balance(w.flow, w.totals, base),
         NEW ip, NEW app \in Labels
  PROVE  LET x == Upgraded(w, ip, app) IN Balance(x.flow, x.totals, base)
<1>1. w.flow \in FlowRec /\ w.totals \in Totals
  BY DEF Working
<1>2. Balance([w.flow EXCEPT !.app = app], Moved(w.totals, w.flow.app, app, w.flow.bytes), base)
  BY <1>1, MovedBalance
<1> QED
  BY <1>2 DEF Upgraded

LEMMA UnmaskedBalance ==
  ASSUME NEW w \in Working, NEW base \in Totals, Balance(w.flow, w.totals, base), NEW ip
  PROVE  LET x == Unmasked(w, ip) IN Balance(x.flow, x.totals, base)
<1>1. w.flow \in FlowRec /\ w.totals \in Totals
  BY DEF Working
<1>2. Balance([w.flow EXCEPT !.app = "ObfuscatedBt"],
              Moved(w.totals, w.flow.app, "ObfuscatedBt", w.flow.bytes), base)
  BY <1>1, ObfuscatedFacts, MovedBalance
<1>3. CASE w.flow.app = "Obfuscated" /\ IsTorrenting(w.arena, ip)
  <2>1. Unmasked(w, ip) =
          [w EXCEPT !.flow = [w.flow EXCEPT !.app = "ObfuscatedBt"],
                    !.totals = Moved(w.totals, "Obfuscated", "ObfuscatedBt", w.flow.bytes)]
    BY <1>3 DEF Unmasked, Working
  <2>2. /\ Unmasked(w, ip).flow = [w.flow EXCEPT !.app = "ObfuscatedBt"]
        /\ Unmasked(w, ip).totals = Moved(w.totals, "Obfuscated", "ObfuscatedBt", w.flow.bytes)
    BY <2>1 DEF Working
  <2> QED
    BY <1>2, <1>3, <2>2
<1>4. CASE ~(w.flow.app = "Obfuscated" /\ IsTorrenting(w.arena, ip))
  BY <1>4 DEF Unmasked
<1> QED
  BY <1>3, <1>4

\* The rest of record moves the bytes of the flow as one unit and adds the packet's.
LEMMA CountedBalance ==
  ASSUME NEW f \in FlowRec, proto_bytes \in Totals, NEW a, NEW s, Good(a, s),
         NEW q, q.key.remote \in Host, q.app \in Labels, q.len \in Nat,
         Counted([flow |-> f, totals |-> proto_bytes, arena |-> a], q),
         NEW base \in Totals, Balance(f, proto_bytes, base)
  PROVE  \E g \in FlowRec : flows' = Insert(flows, q.key, g) /\ Balance(g, proto_bytes', base)
<1>1. PICK w : w = [flow |-> f, totals |-> proto_bytes, arena |-> a]
  OBVIOUS
<1>2. w \in Working /\ w.flow = f /\ w.arena = a /\ w.totals = proto_bytes
  BY <1>1 DEF Working, Good
<1>3. PICK ip, app : ip = q.key.remote /\ app = q.app
  OBVIOUS
<1>4. PICK x : x = Upgraded(w, ip, app)
  OBVIOUS
<1>5. x \in Working
  <2>1. app \in Labels /\ ip \in Host /\ Good(w.arena, s)
    BY <1>2, <1>3
  <2>2. LET z == Upgraded(w, ip, app)
        IN  /\ z \in Working
            /\ \/ z = w
               \/ /\ z.arena = Touch(w.arena, ip, Family(app))
                  /\ z.flow.app = app /\ Rank(app) > Rank(w.flow.app)
    BY <1>2, <2>1, UpgradedFacts
  <2> QED
    BY <1>4, <2>2
<1>6. Balance(x.flow, x.totals, base)
  <2>1. Balance(w.flow, w.totals, base) /\ app \in Labels
    BY <1>2, <1>3
  <2>2. LET z == Upgraded(w, ip, app) IN Balance(z.flow, z.totals, base)
    BY <1>2, <2>1, UpgradedBalance
  <2> QED
    BY <1>4, <2>2
<1>7. PICK t : t = Unmasked(x, ip)
  OBVIOUS
<1>8. t \in Working
  BY <1>5, <1>7, UnmaskedFacts
<1>9. Balance(t.flow, t.totals, base)
  <2>1. LET z == Unmasked(x, ip) IN Balance(z.flow, z.totals, base)
    BY <1>5, <1>6, UnmaskedBalance
  <2> QED
    BY <1>7, <2>1
<1>10. PICK f2, m : f2 = t.flow /\ m = t.totals
  OBVIOUS
<1>11. f2 \in FlowRec /\ f2.bytes \in Nat /\ f2.app \in Labels /\ m \in Totals
  BY <1>8, <1>10 DEF Working, FlowRec
<1>12. PICK g : g = [f2 EXCEPT !.bytes = f2.bytes + q.len, !.age = 0]
  OBVIOUS
<1>13. g \in FlowRec /\ g.app = f2.app /\ g.bytes = f2.bytes + q.len
  <2>1. PICK n : n = f2.bytes + q.len
    OBVIOUS
  <2>2. n \in Nat
    BY <1>11, <2>1
  <2>3. g = [f2 EXCEPT !.bytes = n, !.age = 0]
    BY <1>12, <2>1
  <2> QED
    BY <1>11, <2>1, <2>2, <2>3 DEF FlowRec
<1>14. flows' = Insert(flows, q.key, g)
  BY <1>1, <1>3, <1>4, <1>7, <1>10, <1>12 DEF Counted
<1>15. proto_bytes' = [m EXCEPT ![f2.app] = m[f2.app] + q.len]
  BY <1>1, <1>3, <1>4, <1>7, <1>10 DEF Counted
<1>16. Balance(g, proto_bytes', base)
  <2>1. \A l \in Labels : m[l] = base[l] + Part(f2, l) /\ base[l] \in Nat
    BY <1>9, <1>10 DEF Balance, Totals
  <2>2. \A l \in Labels : proto_bytes'[l] = IF l = f2.app THEN m[l] + q.len ELSE m[l]
    BY <1>11, <1>15 DEF Totals
  <2> QED
    BY <1>11, <1>13, <2>1, <2>2 DEF Balance, Part
<1> QED
  BY <1>13, <1>14, <1>16

\* The totals are those of the rows of a table and of an archive, and what has none.
Books(rows, arch, un, totals) ==
  \A l \in Labels : totals[l] = SumOf(arch, l) + SumOf(rows, l) + un[l]

\* What the totals are without one row.
Base(rows, k, arch, un) ==
  [l \in Labels |-> SumOf(Less(rows, k), l) + SumOf(arch, l) + un[l]]

LEMMA BaseNat ==
  ASSUME NEW rows, Summable(rows), NEW arch, Summable(arch), NEW un \in Totals, NEW k,
         NEW base, base = Base(rows, k, arch, un)
  PROVE  base \in Totals
<1>1. PICK less : less = Less(rows, k)
  OBVIOUS
<1>2. Summable(less)
  <2>1. CASE k \in DOMAIN rows
    BY <1>1, <2>1, LessFacts
  <2>2. CASE k \notin DOMAIN rows
    BY <1>1, <2>2 DEF Less, Summable
  <2> QED
    BY <2>1, <2>2
<1>3. ASSUME NEW l \in Labels PROVE SumOf(less, l) + SumOf(arch, l) + un[l] \in Nat
  <2>1. SumOf(less, l) \in Nat
    BY <1>2, SumNat
  <2>2. SumOf(arch, l) \in Nat
    BY SumNat
  <2>3. un[l] \in Nat
    BY DEF Totals
  <2> QED
    BY <2>1, <2>2, <2>3
<1>4. base = [l \in Labels |-> SumOf(less, l) + SumOf(arch, l) + un[l]]
  BY <1>1 DEF Base
<1> QED
  BY <1>3, <1>4 DEF Totals

\* Balanced books balance for each row,
LEMMA BooksBalance ==
  ASSUME NEW rows, Summable(rows), NEW arch, Summable(arch), NEW un \in Totals,
         NEW k \in DOMAIN rows, NEW base, base = Base(rows, k, arch, un),
         NEW totals, Books(rows, arch, un, totals), NEW row, row = rows[k]
  PROVE  Balance(row, totals, base)
<1>1. ASSUME NEW l \in Labels PROVE totals[l] = base[l] + Part(row, l)
  <2>1. PICK less, part : less = Less(rows, k) /\ part = Part(rows[k], l)
    OBVIOUS
  <2>2. SumOf(rows, l) = part + SumOf(less, l) /\ part \in Nat /\ SumOf(less, l) \in Nat
    BY <2>1, SumLess
  <2>3. SumOf(arch, l) \in Nat
    BY SumNat
  <2>4. un[l] \in Nat
    BY DEF Totals
  <2>5. base[l] = SumOf(less, l) + SumOf(arch, l) + un[l]
    BY <2>1 DEF Base
  <2>6. totals[l] = SumOf(arch, l) + SumOf(rows, l) + un[l]
    BY DEF Books
  <2>7. part = Part(row, l)
    BY <2>1
  <2> QED
    BY <2>2, <2>3, <2>4, <2>5, <2>6, <2>7
<1> QED
  BY <1>1 DEF Balance

\* and for one that is about to be opened;
LEMMA BooksOpen ==
  ASSUME NEW rows, Summable(rows), NEW arch, Summable(arch), NEW un \in Totals,
         NEW k, k \notin DOMAIN rows, NEW base, base = Base(rows, k, arch, un),
         NEW totals, Books(rows, arch, un, totals), NEW row, row.bytes = 0
  PROVE  Balance(row, totals, base)
<1>1. ASSUME NEW l \in Labels PROVE totals[l] = base[l] + Part(row, l)
  <2>1. PICK less : less = Less(rows, k)
    OBVIOUS
  <2>2. less = rows
    BY <2>1 DEF Less, Summable
  <2>3. SumOf(arch, l) \in Nat
    BY SumNat
  <2>4. un[l] \in Nat
    BY DEF Totals
  <2>5. base[l] = SumOf(less, l) + SumOf(arch, l) + un[l]
    BY <2>1 DEF Base
  <2>6. totals[l] = SumOf(arch, l) + SumOf(rows, l) + un[l]
    BY DEF Books
  <2>7. Part(row, l) = 0
    BY DEF Part
  <2>8. SumOf(rows, l) \in Nat
    BY SumNat
  <2> QED
    BY <2>2, <2>3, <2>4, <2>5, <2>6, <2>7, <2>8
<1> QED
  BY <1>1 DEF Balance

\* a balanced row keeps them balanced.
LEMMA BooksInsert ==
  ASSUME NEW rows, Summable(rows), NEW arch, Summable(arch), NEW un \in Totals,
         NEW k, NEW base, base = Base(rows, k, arch, un), NEW g, g.bytes \in Nat,
         NEW totals, Balance(g, totals, base), NEW to, to = Insert(rows, k, g)
  PROVE  Books(to, arch, un, totals) /\ Summable(to)
<1>1. ASSUME NEW l \in Labels PROVE totals[l] = SumOf(arch, l) + SumOf(to, l) + un[l]
  <2>1. PICK less, part : less = Less(rows, k) /\ part = Part(g, l)
    OBVIOUS
  <2>2. SumOf(to, l) = part + SumOf(less, l) /\ part \in Nat /\ SumOf(less, l) \in Nat
    BY <2>1, SumInsert
  <2>3. SumOf(arch, l) \in Nat
    BY SumNat
  <2>4. un[l] \in Nat
    BY DEF Totals
  <2>5. base[l] = SumOf(less, l) + SumOf(arch, l) + un[l]
    BY <2>1 DEF Base
  <2>6. totals[l] = base[l] + part
    BY <2>1 DEF Balance
  <2> QED
    BY <2>2, <2>3, <2>4, <2>5, <2>6
<1>2. Summable(to)
  <2>1. PICK less, part, l : less = Less(rows, k) /\ part = Part(g, l)
    OBVIOUS
  <2> QED
    BY <2>1, SumInsert
<1> QED
  BY <1>1, <1>2 DEF Books

Row == [app : Labels, bytes : Nat]

SumsInv ==
  /\ MonitorInv
  /\ archive \in Seq(Row) /\ untracked \in Totals
  /\ Books(flows, archive, untracked, proto_bytes)

LEMMA FlowsSummable ==
  ASSUME NEW D, IsFiniteSet(D), NEW t \in [D -> FlowRec]
  PROVE  Summable(t)
BY DEF Summable, FlowRec

LEMMA RowsSummable ==
  ASSUME NEW n \in Nat, NEW a \in [1 .. n -> Row]
  PROVE  Summable(a)
<1>1. IsFiniteSet(1 .. n)
  BY FS_Interval
<1>2. \A i \in 1 .. n : a[i].bytes \in Nat
  BY DEF Row
<1> QED
  BY <1>1, <1>2 DEF Summable

LEMMA SumsSummable ==
  ASSUME SumsInv
  PROVE  Summable(flows) /\ Summable(archive)
<1>1. IsFiniteSet(DOMAIN flows) /\ flows \in [DOMAIN flows -> FlowRec]
  BY FlowsFacts DEF SumsInv, MonitorInv, Types
<1>2. Len(archive) \in Nat /\ archive \in [1 .. Len(archive) -> Row]
  BY DEF SumsInv
<1> QED
  BY <1>1, <1>2, FlowsSummable, RowsSummable

\* record
LEMMA RecordSums ==
  ASSUME SumsInv, NEW p \in AllPackets, Record(p)
  PROVE  /\ archive' = archive /\ untracked' \in Totals
         /\ Books(flows', archive', untracked', proto_bytes')
<1>1. PICK q : q = Parse(p)
  OBVIOUS
<1>2. q.key \in Keys /\ q.key.remote \in Host /\ q.app \in Labels /\ q.len \in Nat
  BY <1>1, ParseFacts DEF Record
<1>3. RecordDeclined(q) \/ RecordOpen(q) \/ RecordKnown(q)
  BY <1>1 DEF Record
<1>4. PICK s : Good(peers, s)
  BY DEF SumsInv, MonitorInv, HostsFronted
<1>5. archive' = archive
  BY DEF Record
<1>6. proto_bytes \in Totals /\ untracked \in Totals /\ Types
  BY DEF SumsInv, MonitorInv, Types
<1>7. Summable(flows) /\ Summable(archive)
  BY SumsSummable
<1>8. Books(flows, archive, untracked, proto_bytes)
  BY DEF SumsInv
<1>9. PICK base : base = Base(flows, q.key, archive, untracked)
  OBVIOUS
<1>10. base \in Totals
  BY <1>6, <1>7, <1>9, BaseNat
<1>11. CASE RecordDeclined(q)
  <2>1. PICK n \in Nat : n = q.len
    BY <1>2
  <2>2. PICK app \in Labels : app = q.app
    BY <1>2
  <2>3. /\ proto_bytes' = [proto_bytes EXCEPT ![app] = proto_bytes[app] + n]
        /\ untracked' = [untracked EXCEPT ![app] = untracked[app] + n]
        /\ flows' = flows
    BY <1>11, <2>1, <2>2 DEF RecordDeclined
  <2>4. untracked[app] \in Nat /\ proto_bytes[app] \in Nat
    BY <1>6 DEF Totals
  <2>5. untracked' \in Totals
    BY <1>6, <2>3, <2>4 DEF Totals
  <2>6. ASSUME NEW l \in Labels
        PROVE  proto_bytes'[l] = SumOf(archive, l) + SumOf(flows, l) + untracked'[l]
    <3>1. proto_bytes[l] = SumOf(archive, l) + SumOf(flows, l) + untracked[l]
      BY <1>8 DEF Books
    <3>2. SumOf(archive, l) \in Nat /\ SumOf(flows, l) \in Nat
      BY <1>7, SumNat
    <3>3. untracked[l] \in Nat
      BY <1>6 DEF Totals
    <3>4. CASE l = app
      BY <1>6, <2>3, <3>1, <3>2, <3>3, <3>4 DEF Totals
    <3>5. CASE l # app
      BY <1>6, <2>3, <3>1, <3>5 DEF Totals
    <3> QED
      BY <3>4, <3>5
  <2>7. Books(flows', archive', untracked', proto_bytes')
    BY <1>5, <2>3, <2>6 DEF Books
  <2> QED
    BY <1>5, <2>5, <2>7
<1>12. CASE RecordOpen(q)
  <2>1. PICK f : f = [app |-> q.app, bytes |-> 0, age |-> 0, status |-> "Active",
                      origin |-> IF q.key \in DOMAIN own THEN "Intel" ELSE "Host"]
    OBVIOUS
  <2>2. f \in FlowRec /\ f.bytes = 0
    BY <1>2, <2>1 DEF FlowRec
  <2>3. PICK a : a = Touch(peers, q.key.remote, Family(q.app))
    OBVIOUS
  <2>4. \E t : Good(a, t)
    <3>1. PICK ip, fam : ip = q.key.remote /\ fam = Family(q.app)
      OBVIOUS
    <3>2. ip \in Host /\ fam \in Families
      BY <1>2, <3>1, FamilyFacts
    <3>3. PICK t : Touched(peers, s, ip, fam, a, t)
      BY <1>4, <2>3, <3>1, <3>2, TouchGood
    <3> QED
      BY <3>3 DEF Touched
  <2>5. PICK t : Good(a, t)
    BY <2>4
  <2>6. Counted([flow |-> f, totals |-> proto_bytes, arena |-> a], q)
    BY <1>12, <2>1, <2>3 DEF RecordOpen
  <2>7. q.key \notin DOMAIN flows /\ untracked' = untracked
    BY <1>12 DEF RecordOpen
  <2>8. Balance(f, proto_bytes, base)
    BY <1>6, <1>7, <1>8, <1>9, <2>2, <2>7, BooksOpen
  <2>9. PICK g \in FlowRec :
          flows' = Insert(flows, q.key, g) /\ Balance(g, proto_bytes', base)
    BY <1>2, <1>6, <1>10, <2>2, <2>5, <2>6, <2>8, CountedBalance
  <2>10. g.bytes \in Nat
    BY DEF FlowRec
  <2>11. Books(flows', archive, untracked, proto_bytes')
    BY <1>6, <1>7, <1>9, <2>9, <2>10, BooksInsert
  <2> QED
    BY <1>5, <1>6, <2>7, <2>11
<1>13. CASE RecordKnown(q)
  <2>1. q.key \in DOMAIN flows /\ untracked' = untracked
    BY <1>13 DEF RecordKnown
  <2>2. PICK f : f = flows[q.key]
    OBVIOUS
  <2>3. f \in FlowRec
    BY <1>6, <2>1, <2>2, FlowsFacts
  <2>4. Counted([flow |-> f, totals |-> proto_bytes, arena |-> peers], q)
    BY <1>13, <2>2 DEF RecordKnown
  <2>5. Balance(f, proto_bytes, base)
    BY <1>6, <1>7, <1>8, <1>9, <2>1, <2>2, BooksBalance
  <2>6. PICK g \in FlowRec :
          flows' = Insert(flows, q.key, g) /\ Balance(g, proto_bytes', base)
    BY <1>2, <1>4, <1>6, <1>10, <2>3, <2>4, <2>5, CountedBalance
  <2>7. g.bytes \in Nat
    BY DEF FlowRec
  <2>8. Books(flows', archive, untracked, proto_bytes')
    BY <1>6, <1>7, <1>9, <2>6, <2>7, BooksInsert
  <2> QED
    BY <1>5, <1>6, <2>1, <2>8
<1> QED
  BY <1>3, <1>11, <1>12, <1>13

\* The other actions leave labels and bytes alone.
LEMMA PlainSums ==
  ASSUME SumsInv,
         \/ Age \/ MarkOwn \/ EnrichCandidate \/ Enrich \/ UNCHANGED vars
         \/ \E k \in DOMAIN flows, status \in Notes : NoteFlow(k, status)
  PROVE  /\ archive' = archive /\ untracked' = untracked
         /\ Books(flows', archive', untracked', proto_bytes')
<1>1. archive' = archive /\ untracked' = untracked /\ proto_bytes' = proto_bytes
  BY DEF Age, MarkOwn, EnrichCandidate, Enrich, NoteFlow, vars
<1>2. flows \in [DOMAIN flows -> FlowRec]
  BY FlowsFacts DEF SumsInv, MonitorInv
<1>3. /\ DOMAIN flows' = DOMAIN flows
      /\ \A k \in DOMAIN flows : /\ flows'[k].app = flows[k].app
                                 /\ flows'[k].bytes = flows[k].bytes
  <2>1. CASE Age
    <3>1. PICK n : n = [k \in DOMAIN flows |->
                          IF flows[k].age < IdleEvict THEN flows[k].age + 1 ELSE flows[k].age]
      OBVIOUS
    <3>2. flows' = [k \in DOMAIN flows |-> [flows[k] EXCEPT !.age = n[k]]]
      BY <2>1, <3>1 DEF Age
    <3> QED
      BY <1>2, <3>2 DEF FlowRec
  <2>2. CASE MarkOwn
    <3>1. CASE OwnKey \in DOMAIN flows
      <4>1. flows' = [flows EXCEPT ![OwnKey] = [flows[OwnKey] EXCEPT !.origin = "Intel"]]
        BY <2>2, <3>1 DEF MarkOwn
      <4> QED
        BY <1>2, <4>1 DEF FlowRec
    <3>2. CASE OwnKey \notin DOMAIN flows
      BY <2>2, <3>2 DEF MarkOwn
    <3> QED
      BY <3>1, <3>2
  <2>3. CASE \E k \in DOMAIN flows, status \in Notes : NoteFlow(k, status)
    <3>1. PICK k \in DOMAIN flows, status \in Notes : NoteFlow(k, status)
      BY <2>3
    <3>2. flows' = [flows EXCEPT ![k] = [flows[k] EXCEPT !.status = status]]
      BY <3>1 DEF NoteFlow
    <3> QED
      BY <1>2, <3>2 DEF FlowRec
  <2>4. CASE EnrichCandidate
    BY <2>4 DEF EnrichCandidate
  <2>5. CASE Enrich
    BY <2>5 DEF Enrich
  <2>6. CASE UNCHANGED vars
    BY <2>6 DEF vars
  <2> QED
    BY <2>1, <2>2, <2>3, <2>4, <2>5, <2>6
<1>4. PICK a, b : a = flows /\ b = flows'
  OBVIOUS
<1>5. ASSUME NEW l \in Labels PROVE SumOf(b, l) = SumOf(a, l)
  <2>1. DOMAIN b = DOMAIN a /\ \A i \in DOMAIN a : b[i].app = a[i].app /\ b[i].bytes = a[i].bytes
    BY <1>3, <1>4
  <2> QED
    BY <2>1, SumSame
<1> QED
  BY <1>1, <1>4, <1>5 DEF SumsInv, Books

\* One flow of tick's loop is looked at again.
LEMMA SweptBooks ==
  ASSUME NEW D \in SUBSET Keys, IsFiniteSet(D), NEW x \in GoodTable(D), NEW k \in D,
         NEW arch, Summable(arch), NEW un \in Totals, Books(x.table, arch, un, x.totals),
         NEW y, y = Swept(x, k)
  PROVE  Books(y.table, arch, un, y.totals)
<1>1. PICK rows, totals : rows = x.table /\ totals = x.totals
  OBVIOUS
<1>2. rows \in [D -> FlowRec] /\ totals \in Totals /\ Summable(rows)
  <2>1. rows \in [D -> FlowRec] /\ totals \in Totals
    BY <1>1 DEF GoodTable, Table
  <2> QED
    BY <2>1, FlowsSummable
<1>3. PICK s : Good(x.arena, s)
  BY DEF GoodTable
<1>4. PICK f \in FlowRec : f = rows[k]
  BY <1>2
<1>5. PICK a : a = Refresh(x.arena, k.remote, Family(f.app))
  OBVIOUS
<1>6. a \in ArenaRec
  <2>1. PICK c, ip, fam : c = x.arena /\ ip = k.remote /\ fam = Family(f.app)
    OBVIOUS
  <2>2. Good(c, s) /\ ip \in Host /\ fam \in Families
    BY <1>3, <2>1, KeyFacts, FamilyFacts
  <2> QED
    BY <1>5, <2>1, <2>2, RefreshRec
<1>7. PICK w : w = [flow |-> f, totals |-> totals, arena |-> a]
  OBVIOUS
<1>8. w \in Working /\ w.flow = f /\ w.totals = totals
  BY <1>2, <1>6, <1>7 DEF Working
<1>9. PICK z : z = Unmasked(w, k.remote)
  OBVIOUS
<1>10. z \in Working
  BY <1>8, <1>9, UnmaskedFacts
<1>11. PICK base : base = Base(rows, k, arch, un)
  OBVIOUS
<1>12. base \in Totals
  BY <1>2, <1>11, BaseNat
<1>13. Balance(f, totals, base)
  <2>1. Books(rows, arch, un, totals) /\ k \in DOMAIN rows
    BY <1>1, <1>2
  <2> QED
    BY <1>2, <1>4, <1>11, <2>1, BooksBalance
<1>14. PICK g, m : g = z.flow /\ m = z.totals
  OBVIOUS
<1>15. Balance(g, m, base)
  <2>1. Balance(w.flow, w.totals, base)
    BY <1>8, <1>13
  <2>2. PICK ip : ip = k.remote
    OBVIOUS
  <2>3. LET v == Unmasked(w, ip) IN Balance(v.flow, v.totals, base)
    BY <1>8, <1>12, <2>1, UnmaskedBalance
  <2> QED
    BY <1>9, <1>14, <2>2, <2>3
<1>16. g \in FlowRec /\ g.bytes \in Nat
  BY <1>10, <1>14 DEF Working, FlowRec
<1>17. y = [table |-> [rows EXCEPT ![k] = g], totals |-> m, arena |-> z.arena]
  BY <1>1, <1>4, <1>5, <1>7, <1>9, <1>14 DEF Swept
<1>18. PICK to : to = Insert(rows, k, g)
  OBVIOUS
<1>19. y.table = to /\ y.totals = m
  <2>1. D \cup {k} = D
    OBVIOUS
  <2>2. to = [rows EXCEPT ![k] = g]
    BY <1>2, <1>18, <2>1 DEF Insert
  <2> QED
    BY <1>17, <2>2
<1>20. Books(to, arch, un, m)
  BY <1>2, <1>11, <1>15, <1>16, <1>18, BooksInsert
<1> QED
  BY <1>19, <1>20

\* Idle flows become rows of the archive, and what falls out of it has no row.
LEMMA GoneBooks ==
  ASSUME SumsInv, NEW idle \in SUBSET DOMAIN flows, NEW gone \in SetToSeqs(idle),
         Archived(gone), NEW rest, rest = [k \in DOMAIN flows \ idle |-> flows[k]]
  PROVE  /\ archive' \in Seq(Row) /\ untracked' \in Totals
         /\ Books(rest, archive', untracked', proto_bytes)
<1>1. IsFiniteSet(DOMAIN flows) /\ flows \in [DOMAIN flows -> FlowRec] /\ IsFiniteSet(idle)
  BY FlowsFacts, FS_Subset DEF SumsInv, MonitorInv, Types
<1>2. PICK n \in Nat : n = Cardinality(idle)
  BY <1>1, FS_CardinalityType
<1>3. /\ gone \in [1 .. n -> idle] /\ \A i, j \in 1 .. n : gone[i] = gone[j] => i = j
      /\ \A x \in idle : \E i \in 1 .. n : gone[i] = x
  BY <1>1, <1>2, ListingFacts
<1>4. PICK m \in Nat : m = Len(archive)
  BY DEF SumsInv
<1>5. archive \in [1 .. m -> Row]
  BY <1>4 DEF SumsInv
<1>6. PICK out : out = [i \in DOMAIN gone |-> RecordOf(gone[i])]
  OBVIOUS
<1>7. /\ out \in [1 .. n -> Row] /\ Len(out) = n /\ out \in Seq(Row)
      /\ \A i \in 1 .. n : out[i].app = flows[gone[i]].app /\ out[i].bytes = flows[gone[i]].bytes
  <2>1. ASSUME NEW i \in 1 .. n
        PROVE  /\ out[i] = [app |-> flows[gone[i]].app, bytes |-> flows[gone[i]].bytes]
               /\ flows[gone[i]] \in FlowRec
    BY <1>1, <1>3, <1>6 DEF RecordOf
  <2>2. ASSUME NEW i \in 1 .. n PROVE out[i] \in Row
    <3>1. PICK f \in FlowRec : f = flows[gone[i]]
      BY <2>1
    <3>2. out[i] = [app |-> f.app, bytes |-> f.bytes]
      BY <2>1, <3>1
    <3> QED
      BY <3>2 DEF FlowRec, Row
  <2>3. out \in [1 .. n -> Row]
    BY <1>3, <1>6, <2>2
  <2> QED
    BY <2>1, <2>3
<1>8. PICK rows : rows = archive \o out
  OBVIOUS
<1>9. rows \in Seq(Row) /\ Joins(rows, m, n, archive, out) /\ Len(rows) = m + n
  <2>1. archive \in Seq(Row)
    BY DEF SumsInv
  <2> QED
    BY <1>4, <1>7, <1>8, <2>1, JoinedFacts
<1>10. PICK e : e = IF Len(rows) > MaxArchive THEN Len(rows) - MaxArchive ELSE 0
  OBVIOUS
<1>11. e \in Nat /\ e <= m + n
  BY <1>9, <1>10, MonitorAssumption
<1>12. PICK d \in Nat : m + n = e + d
  BY <1>11
<1>13. PICK lost, left : lost = SubSeq(rows, 1, e) /\ left = SubSeq(rows, e + 1, Len(rows))
  OBVIOUS
<1>14. lost \in Seq(Row) /\ left \in Seq(Row) /\ Joins(rows, e, d, lost, left)
  <2>1. Len(rows) = e + d
    BY <1>9, <1>12
  <2> QED
    BY <1>9, <1>11, <1>12, <1>13, <2>1, CutFacts
<1>15. /\ rows \in [1 .. Len(rows) -> Row] /\ lost \in [1 .. Len(lost) -> Row]
       /\ left \in [1 .. Len(left) -> Row]
       /\ Len(rows) \in Nat /\ Len(lost) \in Nat /\ Len(left) \in Nat
  BY <1>9, <1>14, SeqIsFunction
<1>17. /\ archive' = left
       /\ untracked' = [l \in Labels |-> untracked[l] + SumOf(lost, l)]
  BY <1>6, <1>8, <1>10, <1>13 DEF Archived
<1>18. /\ Summable(archive) /\ Summable(out) /\ Summable(rows) /\ Summable(lost)
       /\ Summable(left) /\ Summable(flows)
  BY <1>5, <1>7, <1>15, RowsSummable, SumsSummable
<1>19. ASSUME NEW l
       PROVE  /\ SumOf(archive, l) + SumOf(flows, l) = SumOf(lost, l) + SumOf(left, l) + SumOf(rest, l)
              /\ SumOf(lost, l) \in Nat
  <2>1. SumOf(rows, l) = SumOf(archive, l) + SumOf(out, l)
    BY <1>9, <1>18, SumJoin
  <2>2. SumOf(rows, l) = SumOf(lost, l) + SumOf(left, l)
    BY <1>11, <1>14, <1>18, SumJoin
  <2>3. SumOf(flows, l) = SumOf(rest, l) + SumOf(out, l)
    <3>1. idle = {gone[j] : j \in 1 .. n}
      BY <1>3
    <3>2. rest = [k \in DOMAIN flows \ {gone[j] : j \in 1 .. n} |-> flows[k]]
      BY <3>1
    <3>3. gone \in [1 .. n -> DOMAIN flows]
      BY <1>3
    <3>4. DOMAIN out = 1 .. n
      BY <1>7
    <3>5. /\ \A i, j \in 1 .. n : gone[i] = gone[j] => i = j
          /\ \A i \in 1 .. n : /\ out[i].app = flows[gone[i]].app
                             /\ out[i].bytes = flows[gone[i]].bytes
      BY <1>3, <1>7
    <3>6. Summable(out) /\ Summable(flows)
      BY <1>18
    <3>7. Takes(flows, n, gone, out, rest)
      BY <3>2, <3>3, <3>4, <3>5 DEF Takes
    <3> QED
      BY <3>6, <3>7, SumGone
  <2>4. /\ SumOf(archive, l) \in Nat /\ SumOf(out, l) \in Nat /\ SumOf(lost, l) \in Nat
        /\ SumOf(left, l) \in Nat
    BY <1>18, SumNat
  <2>5. SumOf(rest, l) \in Nat
    <3>1. rest \in [DOMAIN flows \ idle -> FlowRec] /\ IsFiniteSet(DOMAIN flows \ idle)
      BY <1>1, FS_Subset
    <3>2. Summable(rest)
      BY <3>1, FlowsSummable
    <3> QED
      BY <3>2, SumNat
  <2> QED
    BY <2>1, <2>2, <2>3, <2>4, <2>5
<1>20. untracked' \in Totals
  <2>1. \A l \in Labels : untracked[l] \in Nat
    BY DEF SumsInv, Totals
  <2>2. \A l \in Labels : untracked[l] + SumOf(lost, l) \in Nat
    BY <1>19, <2>1
  <2> QED
    BY <1>17, <2>2 DEF Totals
<1>21. ASSUME NEW l \in Labels
       PROVE  proto_bytes[l] = SumOf(left, l) + SumOf(rest, l) + untracked'[l]
  <2>1. proto_bytes[l] = SumOf(archive, l) + SumOf(flows, l) + untracked[l]
    BY DEF SumsInv, Books
  <2>2. untracked'[l] = untracked[l] + SumOf(lost, l)
    BY <1>17
  <2>3. untracked[l] \in Nat
    BY DEF SumsInv, Totals
  <2>4. SumOf(left, l) \in Nat
    BY <1>18, SumNat
  <2>5. SumOf(rest, l) \in Nat
    <3>1. rest \in [DOMAIN flows \ idle -> FlowRec] /\ IsFiniteSet(DOMAIN flows \ idle)
      BY <1>1, FS_Subset
    <3>2. Summable(rest)
      BY <3>1, FlowsSummable
    <3> QED
      BY <3>2, SumNat
  <2>6. /\ SumOf(archive, l) + SumOf(flows, l) = SumOf(lost, l) + SumOf(left, l) + SumOf(rest, l)
        /\ SumOf(lost, l) \in Nat
    BY <1>19
  <2>7. SumOf(archive, l) \in Nat /\ SumOf(flows, l) \in Nat
    BY <1>18, SumNat
  <2> QED
    BY <2>1, <2>2, <2>3, <2>4, <2>5, <2>6, <2>7
<1> QED
  BY <1>14, <1>17, <1>20, <1>21 DEF Books

\* tick
LEMMA TickSums ==
  ASSUME SumsInv, Tick
  PROVE  /\ archive' \in Seq(Row) /\ untracked' \in Totals
         /\ Books(flows', archive', untracked', proto_bytes')
<1>1. PICK idle : idle = {k \in DOMAIN flows : flows[k].age >= IdleEvict}
  OBVIOUS
<1>2. PICK rest : rest = [k \in DOMAIN flows \ idle |-> flows[k]]
  OBVIOUS
<1>3. PICK start : start = [table |-> rest, totals |-> proto_bytes, arena |-> peers]
  OBVIOUS
<1>4. PICK gone \in SetToSeqs(idle), walk \in SetToSeqs(DOMAIN flows \ idle) :
        /\ Archived(gone)
        /\ LET x == Sweeps(start, walk)[Len(walk)]
           IN  flows' = x.table /\ proto_bytes' = x.totals
  BY <1>1, <1>2, <1>3 DEF Tick
<1>5. idle \in SUBSET DOMAIN flows
  BY <1>1
<1>6. PICK arch, un : arch = archive' /\ un = untracked'
  OBVIOUS
<1>7. arch \in Seq(Row) /\ un \in Totals /\ Books(rest, arch, un, proto_bytes)
  BY <1>2, <1>4, <1>5, <1>6, GoneBooks
<1>8. Summable(arch)
  <2>1. arch \in [1 .. Len(arch) -> Row] /\ Len(arch) \in Nat
    BY <1>7, SeqIsFunction
  <2> QED
    BY <2>1, RowsSummable
<1>9. PICK D : D = DOMAIN flows \ idle
  OBVIOUS
<1>10. D \in SUBSET Keys /\ IsFiniteSet(D)
  BY <1>9, FlowsFacts, FS_Subset DEF SumsInv, MonitorInv, Types
<1>11. PICK N \in Nat : N = Cardinality(D)
  BY <1>10, FS_CardinalityType
<1>12. walk \in [1 .. N -> D] /\ Len(walk) = N
  BY <1>4, <1>9, <1>10, <1>11, ListingFacts
<1>13. start \in GoodTable(D)
  <2>1. rest \in [D -> FlowRec]
    BY <1>2, <1>9, FlowsFacts DEF SumsInv, MonitorInv
  <2>2. PICK s : Good(peers, s)
    BY DEF SumsInv, MonitorInv, HostsFronted
  <2>3. peers \in ArenaRec /\ proto_bytes \in Totals
    BY <2>2 DEF Good, SumsInv, MonitorInv, Types
  <2> QED
    BY <1>3, <2>1, <2>2, <2>3 DEF GoodTable, Table
<1>14. PICK f : f = Sweeps(start, walk)
  OBVIOUS
<1>15. Passage(f, start, walk, N, GoodTable(D))
  BY <1>10, <1>12, <1>13, <1>14, SweepsIs
<1> DEFINE good == {i \in 0 .. N : Books(f[i].table, arch, un, f[i].totals)}
<1>16. 0 \in good
  BY <1>3, <1>7, <1>15 DEF Passage
<1>17. ASSUME NEW i \in 1 .. N, i - 1 \in good PROVE i \in good
  <2>1. i - 1 \in 0 .. N /\ Books(f[i - 1].table, arch, un, f[i - 1].totals)
    BY <1>17
  <2>2. PICK x \in GoodTable(D) : x = f[i - 1] /\ f[i] = Swept(x, walk[i])
    BY <1>15, <2>1 DEF Passage
  <2>3. PICK k \in D : k = walk[i]
    BY <1>12
  <2>4. PICK y : y = Swept(x, k)
    OBVIOUS
  <2>5. Books(x.table, arch, un, x.totals)
    BY <2>1, <2>2
  <2>6. Books(y.table, arch, un, y.totals)
    BY <1>7, <1>8, <1>10, <2>4, <2>5, SweptBooks
  <2> QED
    BY <2>2, <2>3, <2>4, <2>6
<1> HIDE DEF good
<1>18. 0 .. N \subseteq good
  BY <1>16, <1>17, UpTo
<1>19. Books(f[N].table, arch, un, f[N].totals)
  BY <1>18 DEF good
<1>20. flows' = f[N].table /\ proto_bytes' = f[N].totals
  BY <1>4, <1>12, <1>14
<1> QED
  BY <1>6, <1>7, <1>19, <1>20

LEMMA SumsKeep ==
  ASSUME SumsInv, [Next]_vars
  PROVE  SumsInv'
<1>1. MonitorInv'
  BY NextKeeps DEF SumsInv
<1>2. archive \in Seq(Row) /\ untracked \in Totals
  BY DEF SumsInv
<1>3. ASSUME NEW p \in AllPackets, Record(p)
      PROVE  /\ archive' \in Seq(Row) /\ untracked' \in Totals
             /\ Books(flows', archive', untracked', proto_bytes')
  BY <1>2, <1>3, RecordSums
<1>4. /\ archive' \in Seq(Row) /\ untracked' \in Totals
      /\ Books(flows', archive', untracked', proto_bytes')
  <2>1. CASE \E p \in Packets : Record(p) /\ UNCHANGED enricher
    BY <1>3, <2>1 DEF AllPackets
  <2>2. CASE Tick
    BY <2>2, TickSums
  <2>3. CASE Age \/ MarkOwn \/ EnrichCandidate \/ Enrich \/ UNCHANGED vars
             \/ \E k \in DOMAIN flows, status \in Notes : NoteFlow(k, status)
    BY <1>2, <2>3, PlainSums
  <2>4. CASE SendQuery
    BY <1>3, <2>4 DEF SendQuery, AllPackets
  <2> QED
    BY <2>1, <2>2, <2>3, <2>4 DEF Next
<1> QED
  BY <1>1, <1>4 DEF SumsInv

LEMMA InitSums ==
  ASSUME Init
  PROVE  SumsInv
<1>1. MonitorInv
  BY InitInv
<1>2. /\ flows = <<>> /\ archive = <<>> /\ proto_bytes = [l \in Labels |-> 0]
      /\ untracked = [l \in Labels |-> 0]
  BY DEF Init
<1>3. archive \in Seq(Row) /\ untracked \in Totals
  BY <1>2 DEF Totals
<1>4. DOMAIN flows = {} /\ DOMAIN archive = {}
  BY <1>2
<1>5. ASSUME NEW l \in Labels
      PROVE  proto_bytes[l] = SumOf(archive, l) + SumOf(flows, l) + untracked[l]
  <2>1. SumOf(archive, l) = 0 /\ SumOf(flows, l) = 0
    BY <1>4, SumEmpty
  <2> QED
    BY <1>2, <2>1
<1> QED
  BY <1>1, <1>3, <1>5 DEF SumsInv, Books

\* The totals by label are those of the rows, live or archived, and of what has no
\* row: relabelling in record and in tick moves the bytes of a flow as one unit, and
\* never hits the floor of its saturating_sub.
THEOREM TotalsAreOfRows == Spec => []TotalsMatchRows
<1>1. Init => SumsInv
  BY InitSums
<1>2. SumsInv /\ [Next]_vars => SumsInv'
  BY SumsKeep
<1>3. ASSUME SumsInv PROVE TotalsMatchRows
  <2>1. ASSUME NEW l \in Labels PROVE Snapshot.apps[l].bytes = proto_bytes[l]
    BY DEF Snapshot
  <2>2. ASSUME NEW l \in Labels
        PROVE  proto_bytes[l] = SumOf(archive, l) + SumOf(flows, l) + untracked[l]
    BY <1>3 DEF SumsInv, Books
  <2> QED
    BY <2>1, <2>2 DEF TotalsMatchRows, CsvBytes
<1> QED
  BY <1>1, <1>2, <1>3, PTL DEF Spec
=============================================================================
