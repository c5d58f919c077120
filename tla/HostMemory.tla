----------------------------- MODULE HostMemory -----------------------------
(***************************************************************************)
(* What the traffic monitor promises about remote hosts, without its slab, *)
(* its links or its flow table: a bounded memory in order of recency, in   *)
(* which every host that has a live flow keeps its place and its id.       *)
(* Monitor implements this specification.                                  *)
(***************************************************************************)
EXTENDS Naturals, Sequences, FiniteSets, SequencesExt

CONSTANTS
  Hosts,  \* remote addresses
  Cap     \* PEER_ARENA, which is MAX_LIVE_FLOWS

VARIABLES
  order,    \* the remembered hosts, most recently seen first
  ids,      \* their session ids
  next_id,
  live      \* the hosts that have a live flow

vars == <<order, ids, next_id, live>>

Known == Range(order)

\* The place of h in s.
Place(s, h) == CHOOSE i \in DOMAIN s : s[i] = h

\* s with h moved to the front
Raised(s, h) == <<h>> \o RemoveAt(s, Place(s, h))

\* h is seen: it moves to the front, or enters there, pushing out the oldest.
See(h) ==
  IF h \in Known
  THEN /\ order' = Raised(order, h)
       /\ UNCHANGED <<ids, next_id>>
  ELSE LET kept == SubSeq(order, 1, IF Len(order) < Cap THEN Len(order) ELSE Cap - 1)
       IN  /\ order' = <<h>> \o kept
           /\ ids' = [g \in Range(kept) \cup {h} |-> IF g = h THEN next_id ELSE ids[g]]
           /\ next_id' = next_id + 1

Init == order = <<>> /\ ids = <<>> /\ next_id = 1 /\ live = {}

\* A flow to h opens, for which there is always a host to spare, or a live flow of
\* h turns out to be something else.
Notice(h) ==
  /\ h \in live \/ Cardinality(live) < Cap
  /\ live' = live \cup {h}
  /\ See(h)

\* The orders that s may be left in when the hosts in S are refreshed, in any
\* order: the others follow in the order they had.
Refreshed(s, S) ==
  {t \in SetToSeqs(Range(s)) :
     \A i, j \in DOMAIN t :
       (i < j /\ t[i] \notin S) => (t[j] \notin S /\ Place(s, t[i]) < Place(s, t[j]))}

\* The flows of some hosts have gone idle, and the hosts still live are refreshed.
Tick ==
  /\ live' \subseteq live
  /\ order' \in Refreshed(order, live')
  /\ UNCHANGED <<ids, next_id>>

Next == Tick \/ \E h \in Hosts : Notice(h)

Spec == Init /\ [][Next]_vars
=============================================================================
