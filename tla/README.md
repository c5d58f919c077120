# A TLA+ model of tunnel

This directory holds a formal model of `tunnel`, an egress engine that captures
a host's traffic through a TUN interface and sends it out either over WireGuard
or directly out the uplink. The modules are translated from the Rust sources in
`src/src/`; where a comment and the code disagree, the model follows the code.

`PROJECT.json` lists the components, the runs, the mutants that show each
property has teeth, the map from definitions to source lines, the findings, the
hazards and the theorems.

## The system

| Component | State | Operations | Hard part |
| --- | --- | --- | --- |
| NAT44 (`wg.rs`, `Nat`) | forward map, reverse map, reassembly windows, port cursor, forwarded port | `translate_out`, `translate_in`, `translate_icmp_error`, `expire`, `set_forward`, `clear_forward` | two maps in step; ports reused; a leased port that changes under traffic |
| WireGuard driver (`wg.rs`, `route`) | NAT, boringtun session, lease channel | one `select!` loop | lease events between packets |
| Flow manager (`conn.rs`, `ConnManager`) | flow tables, budgets, deadline heap, ready queue | `on_packet`, `dispatch`, `expire`, `service_tcp`, `service_udp` | 4-tuples reused; stale heap entries; sampling of socket state |
| Flow I/O (`conn.rs`, `TcpConn`, `Pending`, `tcp_task`) | bounded channels, `pending_out`, socket buffers, wakers | `service_tcp`, both halves of `tcp_task`, `fail_flow` | wake-ups, back-pressure, half-close on both sides |
| Engine and process (`engine.rs`, `main.rs`) | guards, status, shutdown flag | bring-up, data path, teardown | a failure in any step; fail-closed order |
| Preflight (`preflight.rs`) | none of its own | checks; clears a stale filter; refuses under lockdown | what crashes leave behind |
| Guards (`route.rs`, `killswitch.rs`) | routes, resolver, nftables table | install, drop | partial installs, failed removals |
| Tripwire (`tripwire.rs`) | netlink socket, stop flag | `watch_loop`, `detect_attack`, `nuke` | races with bring-up and teardown; exits without drops |
| TUN (`tunio.rs`) | interface, two tasks | create, shutdown | removal order |
| Lease client (`portmap.rs`) | held port, epoch, failures | `renew`, `lease_loop` | lost answers, gateway restarts, two protocols per lease |
| Traffic monitor (`inspect.rs`) | live flows, archive, totals by label, host arena, origin cache, own marks | `record`, `tick`, `note_flow`, `mark_own`, `enrich_candidate`, `enrich` | four callers; bounded tables that evict; bytes that change label |
| Enricher (`enrich.rs`) | none of its own | one pass: choose, ask, store | the lock is released between the steps |
| Probes (`probe.rs`) | the slot of a job; cursor and progress of a scan | `spawn`, `nslookup`, `scan`, `intel` | results of many threads in one slot; stale and cut replies |
| Dashboard (`gui.rs`) | rows, weights, the probe widget | `dashboard`, `fit`, `render_probe` | shares that are pixels after a drag; frames against engine and job |
| Settings, pin, device | - | parsing, socket options, queues | - |

The driver task owns the NAT and the engine task owns the flow manager, so
neither is locked; what interleaves with them are packets, timers, lease events
and the egress tasks, which talk through channels and the ready queue. The
tripwire is a thread of its own that shares the kernel's routing table, the stop
flag and the shutdown flag with the engine, and may end the process at any time.
The monitor is behind one lock that the packet path, the engine's ticker, the
flow manager, the enricher and the probes take for a step at a time; the
dashboard reads a snapshot that each tick publishes. A probe shares nothing with
its widget but a slot.

What makes each part correct, in the order of the modules below: no conversation
gets another's packets; no flow leaks, goes early or passes its budget; no byte is
lost or stranded; no packet leaves beside the tunnel and the host is left as it
was; the driver forwards what the gateway maps; the totals are those of the rows
and a row keeps its host; a result is the whole answer to what was asked; nothing
drawn is illegible or cut off.

## Modules

### Nat44

`fwd`, `rev`, `frag`, `next_port`, `forward` and `forwarded_in` are the fields of
`Nat`. `out` records what the last call returned and where it sent the packet;
`via` is a history variable: for each (protocol, external port) the endpoint
that last left through it.

One action per path of each operation: `OutKnown`, `OutNew`, `OutExhausted`,
`OutCone`, `OutStateless` are the exits of `translate_out`; `InForward`,
`InBinding`, `InLaterFragment`, `InIcmpError`, `InDrop` those of `translate_in`;
`Expire`, `SetForward`, `ClearForward` are the operations of the same names. The
allocator's scan is given by its result: the first free port at or after the
cursor, counted cyclically. An `Instant` is an age that `Tick` increases and
that saturates at the idle limit, the only thing it is compared with. Header
parsing, checksums and the bytes rewritten are left out.

`Plan` says how the forwarded port comes about: `"fixed"` sets it before the
first packet, `"leased"` lets lease events set and clear it at any time, in any
order, which over-approximates the lease client (`Portmap`).

`BindingTable` is what the NAT promises: one table from conversations to a port and
an age, at most `MAX_BINDINGS` long, in which no two conversations of a protocol
share a port. A packet out of a conversation or in on its port makes it young again
(or, if TCP, may end it), a new one is refused only when the table is full or no port
is free, and an idle one goes when housekeeping comes. It knows of no reverse map, no
cursor and no reassembly windows.

### ConnManager

`tcp`, `udp`, `charged`, `deadlines` and `ready` are the manager's fields (the
heap is a set, since two equal entries act as one; the ready queue is a set,
since it is deduplicated and its order is not relied on). `phase` is where the
engine's task is: receiving, in `expire`, or servicing the `batch` that dispatch
took. Only tasks (`TaskMarks`, `TaskEnds`, `OrphanEnds`) run beside dispatch.

External, modelled from how `conn.rs` uses them: smoltcp's socket states
(`SockStep`, `CloseSocket`), its demultiplexing of UDP on the destination
(`Demux`), its socket slots (`FreshSlot`), and the clock. The bytes of a flow
are abstracted to "flushed or not" and to the sources of the datagrams waiting;
how many of those a service pass forwards depends on the room in the channel and
is a free choice. `orphans` counts egress tasks that outlive their flow.

### Session

The life of a session on Linux, over any number of sessions on one host: the
host's TUN, routes, filter tables and resolver; the engine's program counter
`pc` with one step per command or guard; the tripwire's position `trip` with one
step per read of the routing table. Every step may fail where the code handles
failure. `Crash` is any death without drops: the release profile aborts on
panic. `ProcessGone` says what the kernel takes away with the process (the TUN,
the routes and link settings that hang on it) and what stays (nftables tables,
`/etc/resolv.conf`). An injected route is one that covers a canary of the
tripwire. The module has no constants: TLC's run covers it completely.

### Portmap

The NAT-PMP lease thread (`lt`: where it is and its locals), the gateway (`gw`),
the channel (`chan`) and the driver's side (`drv`: running, the NAT's forward,
the published status). `UdpAnswered`, `RestartNoticed`, `TcpAnswered` and
`RenewFails` are the exits of `renew`; `Start`, `Wake`, `AskAddress`, `Report`,
`ReportFailure` and `Leave` the steps of `lease_loop`; `DriverTakesEvent` is the
lease arm of `route`, `DriverEnds` the drop of its locals (stop flag first, then
the receiver). The gateway is external: it keeps a live mapping's port, grants
any lifetime of `Grants`, and may restart at any moment; a request or its answer
may be lost. Once the driver has left its loop nothing carries a request, so the
release at the end of `lease_loop` is never answered.

A tick is one exchange (three attempts, 1.75 s). Time passes while the thread
sleeps and at most once per exchange, and a running driver takes an event within
a tick, so the channel of 8 is never full. `restarted` and `stale` are history
variables.

### FlowIO and ByteStream

One established TCP flow, byte by byte; a byte is its place in its stream.
`sock` is what smoltcp keeps of the connection with the app (state, `rx`, `tx`,
the armed wakers), `conn` the fields of `TcpConn`, `up` and `down` the two
channels, `reader` and `writer` the halves of `tcp_task` with the chunk each has
in hand, `ready` and `taken` the flow's place in the ready queue. `ServiceTcp` is
the whole of `service_tcp`: `Pulled`, `Sent` and `Received` are its three loops,
then the half-close, the close and the removal. `rx` is a ring, so `recv` hands it
out in one piece or two; `Received(n)` covers both. External: the socket's state
machine as far as the code looks at it, its single-shot wakers, and the app's
kernel (`AppSends`, `AppCloses`, `AppAcks`, `AppAcksFin`, `AppAborts`). The socket
moves only while no service pass is under way, as both are the same task.

`ByteStream` is what one direction promises: what is received is a prefix of what
was sent, and the end is told behind the last byte or after the flow was cut.
`UpStream` and `DownStream` say that `FlowIO` implements it, once for each
direction; the refinement maps forget all buffers between the ends.

### Classify, PeerArena, Monitor and HostMemory

`Classify` is `parse`, `classify`, `rank` and `family` as operators on packets: the
outcome of each payload signature is part of the packet, what is done with the
outcomes and in which order is the module. `PeerArena` is the slab with its
links and its index, an arena being a value and each operation a map from arenas
to arenas. `Monitor` extends both. `Record` is `record` with its three exits
(unparsed packets, which change nothing, aside); `Tick` the whole of `tick`, the
order of its two hash-map walks left open; `EnrichCandidate`, `MarkOwn`,
`SendQuery` and `Enrich` are a pass of the enricher, one step per lock. The
second query of a pass repeats the two middle ones and is left out. An `Instant`
is an age. Bytes up and down are one number; rates and their series are left out,
as nothing reads them back.

`HostMemory` is what the arena is for: a bounded list of hosts by recency, where
hosts with a live flow keep place and id. `MemoryImplemented` says that `Monitor`,
with `order` read off the links, `ids` off the slots and `live` off the flow
table, implements it: slab, links and index are one list, and eviction by `record`,
which sees recency as old as the last tick, still never meets a host on screen.

### Probe

The probe widget of `render_probe` (`ui`), the slot it shares with a job (`slot`),
the job's thread (`worker`) and, for a scan, its threads (`scanners`) over the
shared cursor and progress (`sweep`). `Frame` is one call of `render_probe`: seed
the resolver, collect and take what was typed (`Shown`), and maybe start a job
(`Drawn`). `take` and `snapshot` lock the slot one after the other; a job that ends
in between is `late`, its result shown but not yet taken. A DNS message is
a record of what its bytes say; `ParseResponse` is what `parse_response` makes of
it. A scan's step is a lock: `NextPort`, `ProbePort`, `PublishProgress`. `Publish`
is the engine's. A panic of one of the threads is `Session`'s `Crash`, as the release
profile aborts.

### Layout

The arithmetic of the grid and of the tables. `rows` are the rows with their
heights and weights, `window` the size of the panel; `DragV` and `DragH` are the
two seams, `Resize` the window's edge. `BandsOf`, `ResolveWidths`, `Scaled` and
`Fit` are `bands_of`, `resolve_widths`, `height_scale` and `fit`. Lengths are whole
pixels: where the code divides floats the model rounds down, and the properties
allow a pixel a widget for it. The tables are the dashboard's own, the legend
excepted, which is drawn beside a swatch of unknown width.

### MC modules, configurations, proofs

`MCNat44`, `MCConnManager`, `MCMonitor`, `MCProbe` and `MCLayout` define the small
sets the `.cfg` files use; `Session`, `Portmap` and `FlowIO` are checked as they
are. Each of `Nat44Proofs`, `PortmapProofs`, `ConnProofs`, `SessionProofs`,
`FlowIOProofs` and `MonitorProofs` extends one module and holds the theorems about
it; `DashboardProofs` extends `Probe` and `Layout`. `Induction` holds what several of them need and the library does
not offer in a form these provers can use: induction over the naturals, functions
defined by recursion up to a number, and sums of finitely many numbers, all stated
with sets and functions in place of predicates and operators.

## Runs

| Run | Shows |
| --- | --- |
| `nat_fixed` | Types, that the two maps implement `BindingTable`, ceiling included, that the forwarded number is never bound, that inbound reaches the endpoint which last left through the port, that live conversations keep their ports. |
| `nat_leased` | With a lease coming and going: the maps stay inverse, no binding goes early, and under fairness none stays for ever. |
| `conn` | Budgets are exact and within the ceilings; every half-open TCP flow and every UDP flow has its own entry in the heap, and UDP flows one each; after `expire` nothing is overdue; a flow goes only on its own deadline. |
| `conn_udp_demux` | Violation: two sources to one UDP server; replies of one flow go to the source of the other. |
| `flowio` | Both directions of a flow implement `ByteStream`; when nothing is left to do but wait for the ends, everything sent has arrived, and every end has been told. |
| `flowio_loss` | Violation: a server that closes while the channel to its writer is full costs the app bytes that were acknowledged. |
| `session` | Fail-closed bring-up, filter only within capture, restoration of what was found, lockdown across sessions, no false alarm, stops complete, injections end the session. |
| `portmap` | The driver agrees with the lease thread; the forward is open only on a mapped port, or for a bounded time; a stop ends thread and lease; faults are recovered from. |
| `monitor` | The totals by label are those of the rows, whatever is relabelled, archived and forgotten in whichever order; a tick leaves no torrent masked; a host is only ever given the origin of its own block. |
| `monitor_hosts` | `Monitor` implements `HostMemory`; a host with a live flow keeps its id. |
| `probe` | A scan shown as finished covers what was asked; a reply shown has the id of the query and no other question than the one asked, and says if it is cut; the operator's resolver is kept; every job ends. |
| `layout` | Bands fill the window and stay legible; a drag moves two widgets only; tables span their widgets. |

Every property of a passing run has a mutant in `PROJECT.json`: a plausible bug in
one mapped definition that makes TLC find the property violated under the same
configuration.

### Bounds

`nat_fixed`: ports 2 to 4 with 3 forwarded, so the cursor skips the reserved
port and wraps; a ceiling of two bindings against four conversations, so the
table fills, sheds, and reuses ports; two conversations share a local port, one
uses the forwarded port, one is UDP. `nat_leased`: two ports, of which one may be
leased, a TCP and an ICMP conversation, so a port can be bound before, during
and after a lease and both idle limits are met. `CounterMax` caps the counter of
forwarded packets, as `saturating_add` does.

`conn`: one TCP and two UDP 4-tuples to one server; the UDP budget admits one of
the two and the TCP count is above its byte budget, so each ceiling binds once.
`MaxTime` 3 with a handshake timeout of 1 and an idle timeout of 2 lets a 4-tuple
close, reopen a tick later and meet the entry that its predecessor filed. `OrphanMax` bounds the count of orphans. A datagram that
`on_packet` sheds reaches smoltcp all the same, so the one admitted flow may get
those of the other source. The two UDP sources are exchanged by symmetry: only safety
is checked here, and the TCP 4-tuple has a source of its own.

`flowio`: buffers of two bytes and channels of one and two chunks against two bytes
up and four down (`UpLen`, `DownLen`), so that each buffer can be full while the one
in front of it is, a chunk can be cut in the middle, and `rx` can wrap with room
for only one of its pieces. `flowio_loss` is the same with less to send down. Both stop
when the flow has ended, so deadlock is not checked; `NothingStranded` says in
which states they may.

`portmap`: two ports, so that a regrant can change the number; a grant of 7, the
shortest that outlasts its renewal interval of 3 by three exchanges, and one of
1, below the floor of 2; a second failure is already a fault. `FaultMax` 2 allows
a restart before or after another fault. `EpochMax` 3 saturates the uptime, so a
restart may show a lower epoch or none. The bounds in `LongGrant` and
`StaleBounded` are tight: with one tick less TLC finds violations.

`monitor`: two rows, two hosts in the arena, an archive of one row and a cache of
one block against three hosts and the enricher's server, so every table evicts
while flows change their label; four packets or notes (`MaxEvents`) are enough for
ciphertext, the evidence against its host on a second flow, eviction and a
reopened flow. `monitor_hosts` has an arena of three: an entry is unlinked
from the middle of a list only if there are three. `IdMax` is never reached: the
wrap of `next_id` after 2^32 hosts is not exercised.

`probe`: two scanners over three ports, one of which is named twice, and a
specification of four ports, which is one too many; lookups of a name and of an
address, and messages that are late, no reply, without a question, about the other
lookup's question, truncated and cut off in a record, and longer than `MaxAnswers` 2.

`layout`: the dashboard's own rows and constants, in a window for one widget to a
band, one where the second row wraps two and one, and two where nothing
wraps; three drags (`MaxDrags`), each far enough to reach a floor or of an odd number
of pixels.

### Fairness

`Nat44!FairSpec`: the driver's housekeeping interval fires again and again
(`tokio::select!` polls its arms in random order, so a busy arm does not starve
it) and time passes. `Session!FairSpec`: the engine's task and the tripwire's
thread are scheduled; a data path whose shutdown flag is set or whose TUN is gone
ends, as both loops look at the flag at least every 250 ms and stop when the
TUN's reader closes. Nothing is assumed of crashes, of the network or of the user.

`Portmap!FairSpec`: the thread and the driver are scheduled, time passes, and a
driver that has begun to drop its locals drops them all. The gateway is not
assumed fair; `Recovers` rests on the bound on faults.

`Probe!Spec`: frames are drawn (`update` asks for a repaint every 100 ms), and the
threads of a job take their steps, as each of their waits has a timeout. Whether an
answer arrives is not assumed.

`FlowIO` needs none: what a liveness property would say of it, that bytes arrive once
everyone who can act has acted, is the invariant `NothingStranded`, which also
holds of every unfair behaviour that comes to rest.

`ConnManager!PromptSpec` is no fairness but a restriction, used only by
`conn_udp_demux`: the clock does not advance over work that is waiting, which is
the loop at its usual pace. The counterexample therefore needs no stall.

## Proofs

Each theorem holds for every value of the constants that meets the named
assumptions of the module (`PortAssumption`, `CostAssumption`, ...), which say that
sizes, limits and costs are numbers, positive where the code's are, and that
inputs have the form the code's types give them; TLC evaluates them on every run.
The two theorems about host ids assume one thing more, in their statements:
`MaxEvents < IdMax`, that the ids do not run out before the bound on events is met.
`Layout`'s assumptions are the only ones with figures in them, and say what the code
does about its own: a widget's floor is at least 30 pixels (`COL_MIN_W` is 340,
`gui.rs:20`); the panel is never so narrow that the columns which no table ever drops
have no room, at most 25 characters (two columns of `FLOWS`), and never under 60
pixels (`min_inner_size` is 460 by 380, `gui.rs:776`).

### The NAT (`Nat44Proofs`)

- `TypeCorrect`: `TypeOK` is invariant. It is inductive; one lemma per action.
- `MapsStayInverse`: `MapsInverse` is invariant. With `TypeOK` it is inductive.
  Three lemmas carry it: refreshing a binding, dropping a set of bindings with
  their keys (what `close` and `expire` do), and opening one on a free port.
- `TableStaysBounded`: the ceiling (`TableBounded`). A step that enlarges the reverse
  map added one port that the allocator chose below the ceiling (`GrowsByAllocation`).
- `NatIsOneTable`: `Nat44` implements `BindingTable`, for any plan. The mapping reads
  both maps as one (`Table`), which `MapsInverse` makes sense of (`OwnBinding`); the
  table is as full as the reverse map because the two are in bijection (`FullIs`), and
  a port is free in one as in the other (`FreeIs`). Every call is one step of the
  table, whatever order it changes the maps in; a conversation that opens with a
  reset comes and goes within one.
- `FixedForwardNeverShadows`: under the fixed plan `NoShadowing`, from the same
  lemma, as the allocator reserves the forwarded number. The assumption is
  needed: a lease may be granted on a number already bound.
- `RepliesReachSenders`: under the fixed plan `ReplyReachesSender`. It is not
  inductive: it speaks only of the last call. The strengthening `OwnerInv` says
  that the history of every bound port names its binding's endpoint, and that
  the forwarded port was only ever used by the forward's host.
- `NothingIsRenumbered` and `NothingIsReclaimedEarly`: the two action properties.
  While `MapsInverse` holds, a step either refreshes, drops or opens bindings; only
  the second removes any, and it removes idle or closed ones.

### The lease client (`PortmapProofs`)

- `LeaseTypes`: `TypeOK`, inductive, one case per action.
- `DriverFollowsLease`: `DriverAgrees`. It speaks of an empty channel only; the
  strengthening `AgreeInv` says that the last event under way, or if there is
  none the driver, tells what the thread knows (`Drained`), what each step of a
  renewal has established (`PassInv`), and that live mappings are on real ports.
- `OpenOnlyWhileMapped`: `OpenWhileMapped`, the timed one. `LeaseInv` adds an
  account of the ticks since the grant at each step of the thread (`Used`) and
  says that the gateway's mapping has at least the rest left (`Lasts`).
- `StaleStaysBounded`: `StaleBounded`. `StaleInv` adds `Limited`: at each step of a
  renewal, how long the forward can have been open on a dead number by now
  (`Limit`), which needs that the driver follows (`Follows`) and that the thread
  still holds the grant it was given (`GrantHeld`).

### The flow manager (`ConnProofs`)

`ConnInv` is the inductive invariant (`ConnInvariant`): types, finite tables,
`BudgetExact`, `TcpTimed` (a half-open TCP flow has its own entry in the heap),
`UdpTimed`, `IdleBounded` (no UDP deadline is further off than the idle timeout
behind the last packet), and `HeapAhead` (while flows are serviced nothing in the
heap is due). From it follow `BudgetIsExact`, `FlowsAreTimed`, and the two that are
not inductive: `NoFlowOverdue`, as an overdue flow would have its entry in the
heap, and `ExpireRetiresOwn`, as an entry that a predecessor of the 4-tuple left
behind does not agree with the flow's own deadline. `TypeCorrect` is apart.
`UdpTimed` is stronger than what the code relies on: every UDP entry in the heap
carries the deadline of a live flow, so for UDP `expire` never meets an entry that
is not the flow's own, only flows that are due or were active since.

### The session (`SessionProofs`)

`SessionInv` (`SessionInvariant`) says that the guards the engine holds follow from
`pc` and from whether the routes went in (`GuardsFollow`), that the host's filter
follows from the guards (`FilterFollows`), and likewise the TUN, the routes and the
resolver (`HostFollows`) and the watcher's alarm (`AlarmFollows`), all except where
a removal failed and was warned of. It is kept by a failure in any step and by a
crash in any state. `CaptureIsGuarded`, `SessionEndsAsFound`, `LockdownIsNotResumed`
and `AlarmsAreReal` follow from it, for any number of sessions on the host.

### Flow I/O (`FlowIOProofs`)

`StreamInv` (`StreamInvariant`) says where the bytes are: in either direction what
the far end got, what is in hand, the channel, the pending output and the socket's
buffer are consecutive pieces of what was sent (`UpChain`, `DownChain`), and how far
each half has come in closing agrees with the other's (`Halves`, `Ends`). The
loops of `service_tcp` are lemmas about the functions that stand for them, by
induction over the number of turns.

- `AppIsHeard` and `ServerIsHeard`: `FlowIO` implements `ByteStream` in both
  directions; each action is a step of the stream or a stutter.
- `NothingIsStranded`: `NothingStranded`. `WakeInv` adds that whatever waits for the
  socket has armed its waker or marked the flow ready (`Marked`), that an end is
  told once it is known (`Told`), and that it is told last (`EndsLast`).

### The monitor (`MonitorProofs`)

`MonitorInv` (`HostsInOrder`) is the invariant the others rest on: slab, links and
index are one list of distinct hosts (`Good`), in which the hosts of live flows
come before all others (`HostsFronted`, the reason why eviction from the tail never
meets one); families and origins are those of their own block. That one list
stays one through `unlink`, `push_front` and `evict_tail`, alone and in the order
`record` and `tick` call them, is proved once (`Linked`, `Walk`) by induction along
the links.

- `NetworksAreOwn`: `AsnOfOwnBlock`, also when a query's answer comes after its
  host was evicted and the slot given to another.
- `TorrentsAreUnmasked`: a tick leaves no flow called ciphertext on a host known to
  torrent, in whatever order the two walks go.
- `LiveHostsAreKept`: a host with a live flow keeps its entry and its id.
- `MemoryIsImplemented`: `Monitor` implements `HostMemory`; `record` is one or two
  notes, `tick` a forgetting of live flows.
- `TotalsAreOfRows`: `TotalsMatchRows`. `SumsInv` adds the types of archive and
  totals; `Books` says that for each label the total is the sum over rows and
  untracked. A lemma says what the balance is without one row, and every relabelling
  takes the row out and puts it back, so `saturating_sub` never hits its floor.

### The probes (`DashboardProofs`)

- `ChoiceIsKept`: `OperatorChoiceKept`, with `TypedSticks`: what was typed is in the
  field, which then counts as seeded, so `Publish` cannot replace it.
- `AnswersAreAsked`: `AnswersAsked`, that is what the code compares: a reply that
  echoes no question is among those it speaks of (see Divergences). `AnswerInv` says
  the same of the slot, relative to the request of the job, and ties the note to the
  message the worker has in hand; what scanners publish are no replies.
- `ScanIsWhole`: `ScanCoversAsked`. `ScanInv` adds who runs (`Running`: scanners are
  there only while the job's thread waits for them, and the slot is not
  done before it is through); that results plus ports under way are what the cursor
  gave out (`Counted`) and that each of these ports is in one place (`Apart`), so when
  all scanners have ended every port has been probed once; and that a result marked
  as the last covers the specification (`Shows`). The lemmas below it say what
  sorting a set or a list of ports gives: `Sorted` and `SortedByPort` are CHOOSE
  expressions, and `RisingExists` shows by induction that there is something to choose.

### The layout (`DashboardProofs`)

`LayoutInv` (`LayoutHolds`) is all that the grid keeps between frames: each row has
its widgets and a weight for each of them that is a number, and a height that is
one; a drag turns these into others of the kind. The rest is arithmetic on them.

- `WindowIsFilled`: `FillsWindow`. The loop of `resolve_widths` makes one pass more
  than there are widgets, and that is enough (`PassIs`, `PinnedIs`): a pass that pins
  nothing leaves every widget at the floor or above, and no pass can pin the last free
  widget, because the floor is at most an n-th of the width and so the free widgets
  have the floor on average. Hence no weights leave a widget too narrow, or pin the
  whole band short of the window's edge. For the heights, the rows never ask for
  nothing (`SumHIs`), so `height_scale` never divides by zero.
- `SeamsMoveTwo`: `SeamMovesTwo`. The widths that `DragV` stores are those on screen
  but for two, which stay at the floor or above it; sharing them out in the next frame
  pins nothing, and rounding moves no widget by more than one pixel for each of the
  band.
- `TablesAreSpanned`: `TablesSpan`. `Kept` only drops columns while the row is too
  wide; what `Fit` gives out beyond the columns' own widths is exactly what was left,
  the odd character going to the first columns.

### Only model-checked

- Liveness, which is out of the prover's reach: `NothingLeaks`, `StopCompletes`,
  `InjectionTrips`, `StopEndsLease`, `Recovers`, `JobEnds`.
- The two violations, which are counterexamples.

## Findings

Two comments of the source are refuted by runs and quoted in `PROJECT.json`:
`conn_udp_demux` (replies to the wrong source) and `flowio_loss` (acknowledged
bytes lost on a half-close).

### Divergences

Other places where the code differs from what is written about it, met while
modelling; the models follow the code, and no property claims the opposite.

- A lease can be granted on a port that the allocator has handed out before
  (`wg.rs:983`): the forward then shadows the binding, although "the allocator
  reserving the number is what keeps it from shadowing a real binding"
  (`wg.rs:465`). `NoShadowing` is therefore checked and proved for the fixed plan.
- `MAX_BINDINGS` is a "Per-protocol binding ceiling" (`wg.rs:28`) and is applied to
  the table of all protocols (`wg.rs:290`).
- The handshake is noted only when a service pass finds the socket in `Established`
  (`conn.rs:585`): a flow whose last ACK and FIN come in one poll is reaped as "an
  abandoned SYN or a flood probe" (`conn.rs:101`).
- "Service every flow with pending work, then retire anything that timed out"
  (`conn.rs:558`): `dispatch` retires first (`conn.rs:562`).
- The "hard count backstops" (`conn.rs:53`) do not bound tasks: a UDP flow's task
  outlives it until the far side sends (`conn.rs:885`).
- The status is published "with the TUN up and every guard armed"
  (`engine.rs:207`), also when the routes could not be installed and the engine
  goes on without them, and then as a full tunnel (`engine.rs:214`).
- Only the UDP reply's epoch is compared (`portmap.rs:289`): a restart that the TCP
  reply shows goes unnoticed, and a dropped number is reported until the next
  renewal, against `portmap.rs:291`. The renewal interval, "derived from what it
  actually granted" (`portmap.rs:24`), is derived from the UDP grant alone. The
  release at the end of `lease_loop` starts when nothing carries it any more, so a
  lease always runs out instead.
- A flow's record is "never discarded" (`inspect.rs:12`), up to `MAX_ARCHIVE`, beyond
  which the oldest goes; `write_csv` says how many. Flows declined at
  `MAX_LIVE_FLOWS` are in the totals and in no row; `untracked` counts both.
- `Flow.origin` is "fixed at creation" (`inspect.rs:969`), except that `mark_own`
  changes it on a live flow (`inspect.rs:1355`). A flow marked while live, evicted before its query is seen and opened
  again by it is recorded as the host's.
- `parse_ports` counts duplicates when a range comes after them (`probe.rs:614`) and
  not otherwise: `1-1024,1` is accepted and `1,1-1024` is refused, both being 1024
  ports.
- A scan's progress may go back on screen while it runs, as copies are published
  outside the lock (`probe.rs:703`); the last result is always the whole one.
- "The parser also requires the echoed question to match" (`probe.rs:914`), "the
  first question must be the one we asked" (`probe.rs:1124`): the comparison is made
  inside a loop over `qdcount` (`probe.rs:1128`), so a reply that says it has no
  question is compared with nothing and its records are shown as the answer.
  `ParseResponse` accepts it as the code does, `probe` has such a message, and
  `AnswersAsked` claims the question only of replies that echo one.
- Recovery from a poisoned lock "rather than wedge the widget on a permanently
  pending job" (`probe.rs:383`) concerns builds that unwind. The release profile
  aborts (`Cargo.toml:58`): a scanner thread that cannot be started
  (`probe.rs:680`) ends the process, which `Session` has as `Crash`.
- `table_exists` takes a failure to run `nft` for the absence of the table
  (`preflight.rs:213`). `PreflightPasses` assumes that listing works: it comes after
  the check that `nft` can be run, in the same gate. `LockdownHolds` and
  `CapturedMeansGuarded` rest on that.
- After a drag the whole band's widths are stored "so the units stay uniform"
  (`gui.rs:950`); in a row that wraps, the other bands keep theirs, and when the
  window widens, weights in pixels meet weights of one. The widgets with the latter
  collapse to the floor. `SeamMovesTwo` is about the band that was dragged.

## Plan

Done, in this order: NAT44 and its proofs, the flow manager, the session, the
lease client and its proofs, flow I/O, the monitor with the enricher, the probes,
the layout; then the proofs of the flow manager, the session, flow I/O with its
refinement, the monitor with its refinement, the probes, the layout, and the NAT's
refinement. Every safety property that a passing run checks is now also a theorem.

Worth adding next, if the code moves that way: the egress tasks with a bound on them
(`conn.rs:885` has none, so there is nothing to prove), and the Windows guards as a
second instance of `Session`.

## Not modelled

- Byte-level functions without state: checksum and header rewriting, the payload
  tests of the signatures, DNS names and record data, request encoding. What is
  done with their results is modelled.
- Windows variants: a second implementation of the same guards over WFP, the
  routing callbacks and the Wintun adapter.
- Inside boringtun, smoltcp, tokio and egui: modelled only as far as the code looks
  at them, and marked external in the map.
- `device.rs`, `pin.rs`, `settings.rs`, drawing and formatting: plumbing within one
  step, system calls, parsing and text, with no behaviour over time of their own.
