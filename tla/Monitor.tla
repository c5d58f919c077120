------------------------------- MODULE Monitor ------------------------------
(***************************************************************************)
(* TrafficMonitor of inspect.rs and the enricher thread of enrich.rs.      *)
(*                                                                         *)
(* The packet path records every packet, a timer ticks, the connection     *)
(* manager notes what it did to a flow, and the enricher asks who owns the *)
(* most recently seen host.  Each of these holds the monitor's lock for    *)
(* one whole step; the enricher lets go of it between choosing a host,     *)
(* declaring its own query, sending it and storing the answer.             *)
(*                                                                         *)
(* Instants are kept as ages.  Up and down bytes of a flow are one number, *)
(* and the rates and their series, which nothing reads back, are left out. *)
(***************************************************************************)
EXTENDS Classify, PeerArena, SequencesExt

CONSTANTS
  Packets,       \* the packets that may be seen at the TUN
  OwnPacket,     \* the enricher's query, as it appears there
  Worthy,        \* addresses an origin lookup can say something about
  Block,         \* the block (prefix_base) of an address
  Notes,         \* the statuses that note_flow is called with
  MaxLiveFlows,  \* MAX_LIVE_FLOWS
  MaxArchive,    \* MAX_ARCHIVE
  AsnCacheMax,   \* ASN_CACHE_MAX
  IdleEvict,     \* FLOW_IDLE_EVICT
  OwnTtl,        \* OWN_MARK_TTL
  MaxEvents      \* bound: packets and notes

\* "Sized at MAX_LIVE_FLOWS"
ASSUME MonitorAssumption ==
  /\ ArenaCap = MaxLiveFlows
  /\ {MaxArchive, AsnCacheMax, IdleEvict, OwnTtl, MaxEvents} \subseteq Nat \ {0}

VARIABLES
  flows,        \* the live table: key -> label, bytes, age, status, origin
  archive,      \* evicted rows, oldest first
  proto_bytes,  \* bytes by label
  total,        \* bytes seen
  peers,        \* the host arena
  own,          \* flows about to be opened by this process: key -> age
  asn_cache,    \* lookup results by block, "none" included
  enricher,     \* where the enricher is, and the host it asks about
  events,       \* packets and notes so far, for the bound
  untracked     \* history: bytes by label that have no row any more, or never had

vars == <<flows, archive, proto_bytes, total, peers, own, asn_cache,
          enricher, events, untracked>>

AllPackets == Packets \cup {OwnPacket}
\* A length is a usize.
ASSUME PacketAssumption == \A p \in AllPackets : p.len \in Nat

Labels == {Parse(p).app : p \in {q \in AllPackets : ~Unparsed(q)}}
            \cup {"Obfuscated", "ObfuscatedBt"}

Idle == [pc |-> "idle", ip |-> "none"]

Init ==
  /\ flows = <<>> /\ archive = <<>>
  /\ proto_bytes = [l \in Labels |-> 0]
  /\ untracked = [l \in Labels |-> 0]
  /\ total = 0 /\ events = 0
  /\ peers = EmptyArena
  /\ own = <<>> /\ asn_cache = <<>>
  /\ enricher = Idle

-----------------------------------------------------------------------------
(* record                                                                  *)

\* Mutant of Moved: the old label keeps the bytes counted for it.
MovedTwice(pb, from, to, n) == [pb EXCEPT ![to] = @ + n]

\* relabel, on the totals: saturating_sub from the old label, add to the new.
Moved(pb, from, to, n) ==
  IF n = 0 THEN pb
  ELSE LET left == [pb EXCEPT ![from] = IF @ >= n THEN @ - n ELSE 0]
       IN  [left EXCEPT ![to] = @ + n]

\* A flow, the totals and the arena after a better label; strictly better only.
Upgraded(s, ip, app) ==
  IF Rank(app) <= Rank(s.flow.app) THEN s
  ELSE [flow |-> [s.flow EXCEPT !.app = app],
        totals |-> Moved(s.totals, s.flow.app, app, s.flow.bytes),
        arena |-> Touch(s.arena, ip, Family(app))]

\* Ciphertext to a host known to torrent.
Unmasked(s, ip) ==
  IF s.flow.app = "Obfuscated" /\ IsTorrenting(s.arena, ip)
  THEN [s EXCEPT !.flow.app = "ObfuscatedBt",
                 !.totals = Moved(@, "Obfuscated", "ObfuscatedBt", s.flow.bytes)]
  ELSE s

\* The rest of record, for the flow of the packet.
Counted(s, q) ==
  LET t == Unmasked(Upgraded(s, q.key.remote, q.app), q.key.remote)
  IN  /\ flows' = Insert(flows, q.key, [t.flow EXCEPT !.bytes = @ + q.len, !.age = 0])
      /\ proto_bytes' = [t.totals EXCEPT ![t.flow.app] = @ + q.len]
      /\ peers' = t.arena

See(q) ==
  /\ events < MaxEvents
  /\ events' = events + 1
  /\ total' = total + q.len

Full(k) == Cardinality(DOMAIN flows) >= MaxLiveFlows /\ k \notin DOMAIN flows

\* The table is full: the bytes are counted, the flow gets no row.
RecordDeclined(q) ==
  /\ Full(q.key)
  /\ See(q)
  /\ proto_bytes' = [proto_bytes EXCEPT ![q.app] = @ + q.len]
  /\ untracked' = [untracked EXCEPT ![q.app] = @ + q.len]
  /\ UNCHANGED <<flows, peers, own>>

\* The first packet of a flow; a mark left for it is used up.
RecordOpen(q) ==
  /\ q.key \notin DOMAIN flows /\ ~Full(q.key)
  /\ See(q)
  /\ own' = [k \in DOMAIN own \ {q.key} |-> own[k]]
  /\ Counted([flow |-> [app |-> q.app, bytes |-> 0, age |-> 0, status |-> "Active",
                        origin |-> IF q.key \in DOMAIN own THEN "Intel" ELSE "Host"],
              totals |-> proto_bytes,
              arena |-> Touch(peers, q.key.remote, Family(q.app))], q)
  /\ UNCHANGED untracked

RecordKnown(q) ==
  /\ q.key \in DOMAIN flows
  /\ See(q)
  /\ Counted([flow |-> flows[q.key], totals |-> proto_bytes, arena |-> peers], q)
  /\ UNCHANGED <<own, untracked>>

\* A packet that parse gives up on changes nothing.
Record(p) ==
  /\ ~Unparsed(p)
  /\ RecordDeclined(Parse(p)) \/ RecordOpen(Parse(p)) \/ RecordKnown(Parse(p))
  /\ UNCHANGED <<archive, asn_cache>>

-----------------------------------------------------------------------------
(* tick                                                                    *)

\* record_of; the other columns are copied from the flow's key, the flow and its
\* host, and nothing reads them again.
RecordOf(k) == [app |-> flows[k].app, bytes |-> flows[k].bytes]

SumOf(rows, l) ==
  FoldFunction(+, 0, [i \in {j \in DOMAIN rows : rows[j].app = l} |-> rows[i].bytes])

\* Idle rows join the archive, which forgets its oldest beyond MaxArchive.
Archived(gone) ==
  LET rows == archive \o [i \in DOMAIN gone |-> RecordOf(gone[i])]
      excess == IF Len(rows) > MaxArchive THEN Len(rows) - MaxArchive ELSE 0
      lost == SubSeq(rows, 1, excess)
  IN  /\ archive' = SubSeq(rows, excess + 1, Len(rows))
      /\ untracked' = [l \in Labels |-> untracked[l] + SumOf(lost, l)]

\* Mutant of Swept: a live flow's host is not refreshed.
SweptOnly(s, k) ==
  LET t == Unmasked([flow |-> s.table[k], totals |-> s.totals, arena |-> s.arena], k.remote)
  IN  [table |-> [s.table EXCEPT ![k] = t.flow], totals |-> t.totals, arena |-> t.arena]

\* Mutant of Swept: an older flow is not looked at again.
SweptBlind(s, k) ==
  [s EXCEPT !.arena = Refresh(@, k.remote, Family(s.table[k].app))]

\* The body of tick's loop over the live flows.
Swept(s, k) ==
  LET f == s.table[k]
      t == Unmasked([flow |-> f, totals |-> s.totals,
                     arena |-> Refresh(s.arena, k.remote, Family(f.app))], k.remote)
  IN  [table |-> [s.table EXCEPT ![k] = t.flow], totals |-> t.totals, arena |-> t.arena]

\* The loop, from start, after each of the flows in walk.
Sweeps(start, walk) ==
  LET sweep[n \in 0 .. Len(walk)] ==
        IF n = 0 THEN start ELSE Swept(sweep[n - 1], walk[n])
  IN  sweep

\* The two hash maps are walked in any order.
Tick ==
  LET idle == {k \in DOMAIN flows : flows[k].age >= IdleEvict}
      start == [table |-> [k \in DOMAIN flows \ idle |-> flows[k]],
                totals |-> proto_bytes, arena |-> peers]
  IN  \E gone \in SetToSeqs(idle), walk \in SetToSeqs(DOMAIN flows \ idle) :
        /\ Archived(gone)
        /\ LET s == Sweeps(start, walk)[Len(walk)]
           IN  flows' = s.table /\ proto_bytes' = s.totals /\ peers' = s.arena
        /\ own' = [k \in {j \in DOMAIN own : own[j] < OwnTtl} |-> own[k]]
        /\ UNCHANGED <<total, events, asn_cache, enricher>>

\* Time passes.  Ages stop where nothing tells them apart any more.
Age ==
  LET older(n, limit) == IF n < limit THEN n + 1 ELSE n
  IN  /\ flows' = [k \in DOMAIN flows |-> [flows[k] EXCEPT !.age = older(@, IdleEvict)]]
      /\ own' = [k \in DOMAIN own |-> older(own[k], OwnTtl)]
      /\ UNCHANGED <<archive, proto_bytes, total, peers, asn_cache, enricher,
                     events, untracked>>

\* note_flow, from the connection manager; nothing if the flow has no row.
NoteFlow(k, status) ==
  /\ k \in DOMAIN flows /\ k.l4 \in {"TCP", "UDP"} /\ flows[k].status # status
  /\ events < MaxEvents /\ events' = events + 1
  /\ flows' = [flows EXCEPT ![k].status = status]
  /\ UNCHANGED <<archive, proto_bytes, total, peers, own, asn_cache, enricher,
                 untracked>>

-----------------------------------------------------------------------------
(* The enricher                                                            *)

Unknown(e) == e.asn = "none" /\ e.ip \in Worthy

\* enrich_candidate: the first host in order of recency whose block is not in
\* the cache; the ones before it are filled from the cache.
EnrichCandidate ==
  LET order == IterMru(peers)
      asks == {i \in DOMAIN order : /\ Unknown(Entry(peers, order[i]))
                                    /\ Block[order[i]] \notin DOMAIN asn_cache}
      upto == IF asks = {} THEN Len(order) ELSE Min(asks) - 1
      filled == {order[i] : i \in {j \in 1 .. upto : Unknown(Entry(peers, order[j]))}}
  IN  /\ enricher.pc = "idle"
      /\ peers' = [peers EXCEPT !.entries = [i \in DOMAIN peers.entries |->
                     LET e == peers.entries[i]
                     IN  IF e.ip \in filled THEN [e EXCEPT !.asn = asn_cache[Block[e.ip]]]
                                            ELSE e]]
      /\ enricher' = IF asks = {} THEN Idle
                     ELSE [pc |-> "mark", ip |-> order[Min(asks)]]
      /\ UNCHANGED <<flows, archive, proto_bytes, total, own, asn_cache,
                     events, untracked>>

OwnKey == Parse(OwnPacket).key

\* mark_own, once the query's socket is bound
MarkOwn ==
  /\ enricher.pc = "mark"
  /\ enricher' = [enricher EXCEPT !.pc = "send"]
  /\ IF OwnKey \in DOMAIN flows
     THEN flows' = [flows EXCEPT ![OwnKey].origin = "Intel"] /\ UNCHANGED own
     ELSE own' = Insert(own, OwnKey, 0) /\ UNCHANGED flows
  /\ UNCHANGED <<archive, proto_bytes, total, peers, asn_cache, events, untracked>>

\* The query passes the TUN.  The second query of asn_origin, for the name of
\* the network, repeats these two steps and decides nothing.
SendQuery ==
  /\ enricher.pc = "send"
  /\ enricher' = [enricher EXCEPT !.pc = "wait"]
  /\ Record(OwnPacket)

\* enrich: what the block's origin is, or that nothing answered, for the whole
\* block.  A query whose socket cannot be had is not marked, and one that cannot be
\* sent does not pass the TUN: then nothing has answered.
Enrich ==
  /\ enricher.pc # "idle"
  /\ enricher' = Idle
  /\ \E info \in {"none", Block[enricher.ip]} :
       /\ enricher.pc # "wait" => info = "none"
       /\ asn_cache' = Insert(IF Cardinality(DOMAIN asn_cache) >= AsnCacheMax
                               THEN <<>> ELSE asn_cache, Block[enricher.ip], info)
       /\ peers' = IF info # "none" /\ Known(peers, enricher.ip)
                   THEN [peers EXCEPT !.entries[peers.index[enricher.ip]].asn = info]
                   ELSE peers
  /\ UNCHANGED <<flows, archive, proto_bytes, total, own, events, untracked>>

-----------------------------------------------------------------------------

Next ==
  \/ \E p \in Packets : Record(p) /\ UNCHANGED enricher
  \/ Tick
  \/ Age
  \/ \E k \in DOMAIN flows, status \in Notes : NoteFlow(k, status)
  \/ EnrichCandidate \/ MarkOwn \/ SendQuery
  \/ Enrich

Spec == Init /\ [][Next]_vars

-----------------------------------------------------------------------------
(* What the dashboard and the CSV are built from.                          *)

LiveHosts == {k.remote : k \in DOMAIN flows}
PeerId(h) == IF Known(peers, h) THEN Entry(peers, h).id ELSE 0

\* write_csv: the archived rows and the live ones
CsvBytes(l) == SumOf(archive, l) + SumOf(flows, l)

\* build_snapshot: one row per host and one per label
Snapshot ==
  [hosts |-> [h \in LiveHosts |->
     LET ks == {k \in DOMAIN flows : k.remote = h}
     IN  [flows |-> Cardinality(ks),
          bytes |-> MapThenSumSet(LAMBDA k : flows[k].bytes, ks),
          peer |-> PeerId(h)]],
   apps |-> [l \in Labels |->
     [bytes |-> proto_bytes[l],
      flows |-> Cardinality({k \in DOMAIN flows : flows[k].app = l})]],
   active |-> Cardinality(DOMAIN flows)]

-----------------------------------------------------------------------------
(* Properties                                                              *)

\* "a host with a live flow is never the one evicted, so its id stays put for as
\* long as it is on screen": record evicts the oldest host when it opens a flow,
\* while only tick keeps the order of the others current.  The row of every host
\* in the snapshot has an id of its own, the one it had as long as a flow of it
\* stays in the table.
LiveHostsKept ==
  [][LET rows == Snapshot.hosts
     IN  /\ \A g, h \in DOMAIN rows :
              rows[h].peer # 0 /\ (g # h => rows[g].peer # rows[h].peer)
         /\ \A k \in DOMAIN flows \cap DOMAIN flows' :
              PeerId(k.remote)' = rows[k.remote].peer]_vars

\* The totals by label are those of the rows, live or archived, plus what has
\* no row: relabelling in record and in tick moves the bytes of a flow as one
\* unit, and never hits the floor of its saturating_sub.
TotalsMatchRows ==
  LET rows == Snapshot.apps
  IN  \A l \in Labels : rows[l].bytes = CsvBytes(l) + untracked[l]

\* After a tick no live flow is taken for anonymous ciphertext while its host
\* is known to torrent, whichever of the two was seen first.
TorrentsUnmasked ==
  [][(\E k \in DOMAIN flows' :
        flows'[k].app = "Obfuscated" /\ IsTorrenting(peers', k.remote)) => ~Tick]_vars

\* What is known of a host's network is about its own block: an answer that
\* arrives after its host was evicted goes to nobody, and a reused slot starts
\* out knowing nothing.
AsnOfOwnBlock ==
  \A h \in DOMAIN peers.index : Entry(peers, h).asn \in {"none", Block[h]}

Memory == INSTANCE HostMemory WITH
  Hosts <- {p.remote : p \in AllPackets},
  Cap <- ArenaCap,
  order <- IterMru(peers),
  ids <- [h \in DOMAIN peers.index |-> Entry(peers, h).id],
  next_id <- peers.next_id,
  live <- LiveHosts

\* The slab, its links and its index behave as a list in order of recency, and
\* the flow table never asks it to forget a live host.
MemoryImplemented == Memory!Spec
=============================================================================
