-------------------------------- MODULE Probe -------------------------------
(***************************************************************************)
(* The probes of probe.rs, and the widget of gui.rs that runs them.        *)
(*                                                                         *)
(* A frame of the dashboard collects what the running job has, and may     *)
(* start one if there is none.  The job runs on a thread of its own, which *)
(* asks a resolver or, for a scan, spreads the ports over more threads.    *)
(* They share a slot with the widget: the latest result, and whether it is *)
(* the last.                                                               *)
(*                                                                         *)
(* A DNS message is a record of what its bytes say: whether it is long     *)
(* enough for a header, whose id it carries, whether it is marked as a     *)
(* reply and as truncated, the questions it echoes, which may be none, and *)
(* its records, each TRUE if it can be read to its end.                    *)
(*                                                                         *)
(* A panic is not modelled here: in the release profile it aborts the      *)
(* process, which is Session's Crash.                                      *)
(***************************************************************************)
EXTENDS Integers, Sequences, FiniteSets, SequencesExt

CONSTANTS
  Requests,         \* the settings of the controls a run may be started with
  Messages,         \* the DNS messages that may arrive
  Entries,          \* what the operator may type as resolver
  ScanConcurrency,  \* SCAN_CONCURRENCY
  MaxScanPorts,     \* MAX_SCAN_PORTS
  MaxAnswers        \* MAX_ANSWERS

ASSUME ProbeAssumption == {ScanConcurrency, MaxScanPorts, MaxAnswers} \subseteq Nat \ {0}
ASSUME RequestAssumption ==
  \A r \in Requests : r.spec \in Seq([lo : Nat, hi : Nat, range : BOOLEAN])
ASSUME MessageAssumption == \A m \in Messages : m.records \in Seq(BOOLEAN)

VARIABLES
  ui,       \* ProbeUi: server, server_seeded, job, last
  dns,      \* the engine has published its resolver
  slot,     \* the slot of the job: latest, done
  req,      \* the request of the job
  worker,   \* its thread: where it is, the message in hand and the note
  sweep,    \* a scan's cursor and progress
  scanners, \* its threads
  typed     \* history: what the operator last typed as resolver, "no" if nothing

vars == <<ui, dns, slot, req, worker, sweep, scanners, typed>>

None == [kind |-> "none"]
Err == [kind |-> "error"]

-----------------------------------------------------------------------------
(* parse_ports and the other checks before a job starts                    *)

Named(spec) == UNION {spec[i].lo .. spec[i].hi : i \in DOMAIN spec}

\* sort_unstable and dedup; sort_by_key, which keeps what occurs twice.
Sorted(S) ==
  CHOOSE f \in [1 .. Cardinality(S) -> S] : \A i, j \in DOMAIN f : i < j => f[i] < f[j]
SortedByPort(s) ==
  LET to == CHOOSE p \in Bijection(DOMAIN s, DOMAIN s) :
              \A i, j \in DOMAIN s : i < j => s[p[i]] <= s[p[j]]
  IN  [i \in DOMAIN s |-> s[to[i]]]

\* Pieces one after the other; a range is refused when it would take the list,
\* which still holds duplicates, past the limit.
Unreadable(spec) ==
  LET size(i) == spec[i].hi - spec[i].lo + 1
      before(i) == MapThenSumSet(size, 1 .. i - 1)
  IN  \E i \in DOMAIN spec :
        \/ spec[i].lo = 0 \/ spec[i].lo > spec[i].hi
        \/ spec[i].range /\ size(i) + before(i) > MaxScanPorts

\* <<>> stands for an error.
ParsePorts(spec) ==
  IF Unreadable(spec) \/ Cardinality(Named(spec)) > MaxScanPorts THEN <<>>
  ELSE Sorted(Named(spec))

\* parse_server: the empty field stands for the fallback.
ParseServer(s) == s # "junk"

\* build_request
Refused(r, server) ==
  (r.action = "scan" /\ ParsePorts(r.spec) = <<>>) \/ ~ParseServer(server)

-----------------------------------------------------------------------------
(* render_probe                                                            *)

Idle == [pc |-> "idle", bytes |-> None, note |-> "no"]
NoSweep == [cursor |-> 0, spawned |-> 0, progress |-> None]
Resting == [i \in 1 .. ScanConcurrency |-> [pc |-> "off", port |-> 0, snap |-> None]]

\* Mutant of Seeded: the engine's resolver replaces what was typed before.
SeededAlways(u) ==
  IF dns THEN [u EXCEPT !.server = "pinned", !.seeded = TRUE]
  ELSE IF ~u.seeded /\ u.server = "" THEN [u EXCEPT !.server = "fallback"] ELSE u

\* The resolver is taken from the engine the first time it has one.
Seeded(u) ==
  IF u.seeded THEN u
  ELSE IF dns THEN [u EXCEPT !.server = "pinned", !.seeded = TRUE]
  ELSE IF u.server = "" THEN [u EXCEPT !.server = "fallback"] ELSE u

\* A finished job is taken; of a running one the latest result is copied.  These are
\* two looks at the slot: a job that ends between them is late for the first.
Collected(u, late) ==
  IF ~u.job \/ slot.latest = None THEN u
  ELSE [u EXCEPT !.last = slot.latest, !.job = ~slot.done \/ late]

Edited(u, entry) ==
  IF entry = "no" THEN u ELSE [u EXCEPT !.server = entry, !.seeded = TRUE]

\* spawn: the thread is started, or the slot says why not.
Spawn(r) ==
  /\ req' = r
  /\ \/ /\ worker' = [Idle EXCEPT !.pc = "start"]
        /\ slot' = [latest |-> None, done |-> FALSE]
     \/ /\ worker' = Idle
        /\ slot' = [latest |-> Err, done |-> TRUE]
  /\ sweep' = NoSweep /\ scanners' = Resting

\* What a frame makes of the widget before RUN is looked at: seed, collect, and
\* what was typed.
Shown(late, entry) == Edited(Collected(Seeded(ui), late), entry)

\* RUN is dead while a job is there.
Drawn(u, entry) ==
  LET left == IF ui.job /\ ~u.job THEN [slot EXCEPT !.latest = None] ELSE slot
  IN  /\ typed' = IF entry = "no" THEN typed ELSE entry
      /\ UNCHANGED dns
      /\ \/ /\ ui' = u
            /\ slot' = left
            /\ UNCHANGED <<req, worker, sweep, scanners>>
         \/ \E r \in Requests :
              /\ ~u.job
              /\ IF Refused(r, u.server)
                 THEN /\ ui' = [u EXCEPT !.last = Err]
                      /\ slot' = left
                      /\ UNCHANGED <<req, worker, sweep, scanners>>
                 ELSE ui' = [u EXCEPT !.job = TRUE, !.last = None] /\ Spawn(r)

\* One frame.  No frame finds a job late whose result is already on screen.
Frame(entry) ==
  \E late \in {FALSE, slot.done /\ slot.latest # ui.last} : Drawn(Shown(late, entry), entry)

\* The engine publishes the resolver it has pinned.
Publish ==
  /\ ~dns /\ dns' = TRUE
  /\ UNCHANGED <<ui, slot, req, worker, sweep, scanners, typed>>

-----------------------------------------------------------------------------
(* The job                                                                 *)

\* Mutant of Finish: a failure returns early.
FinishOk(out) ==
  /\ slot' = [latest |-> out, done |-> out # Err]
  /\ worker' = Idle
  /\ UNCHANGED <<ui, dns, req, typed>>

\* The end of the thread: the result, and that it is the last.
Finish(out) ==
  /\ slot' = [latest |-> out, done |-> TRUE]
  /\ worker' = Idle
  /\ UNCHANGED <<ui, dns, req, typed>>

Goto(pc) ==
  /\ worker' = [worker EXCEPT !.pc = pc]
  /\ UNCHANGED <<ui, dns, slot, req, typed>>

\* RecordType::concrete, and the question that goes on the wire.
Concrete(r) ==
  IF r.record # "Auto" THEN r.record ELSE IF r.target = "ip" THEN "PTR" ELSE "A"
Question(r) == [target |-> r.target, record |-> Concrete(r)]

\* nslookup up to its query: an address is only asked backwards, and a name
\* must be one that can be encoded.
StartLookup ==
  /\ worker.pc = "start" /\ req.action = "lookup"
  /\ IF req.target \in {"", "unencodable"} \/ (req.target = "ip" /\ Concrete(req) # "PTR")
     THEN Finish(Err) ELSE Goto("udp")
  /\ UNCHANGED <<sweep, scanners>>

\* resolve_one: a name may not resolve.
Resolves == req.target \notin {"", "unencodable"}

\* query_udp_with: read until the id matches
Accepts(m) == m.whole /\ m.id = "ours"

RecvUdp(m) ==
  /\ worker.pc = "udp" /\ Accepts(m)
  /\ worker' = [worker EXCEPT !.bytes = m, !.pc = IF m.truncated THEN "tcp" ELSE "parse"]
  /\ UNCHANGED <<ui, dns, slot, req, sweep, scanners, typed>>

UdpTimesOut ==
  /\ worker.pc = "udp"
  /\ Finish(Err)
  /\ UNCHANGED <<sweep, scanners>>

\* The retry over TCP, which takes what it gets; or fails, and the note says so.
RecvTcp(m) ==
  /\ worker.pc = "tcp" /\ m.whole
  /\ worker' = [pc |-> "parse", bytes |-> m, note |-> "retried"]
  /\ UNCHANGED <<ui, dns, slot, req, sweep, scanners, typed>>

TcpFails ==
  /\ worker.pc = "tcp"
  /\ worker' = [worker EXCEPT !.pc = "parse", !.note = "truncated"]
  /\ UNCHANGED <<ui, dns, slot, req, sweep, scanners, typed>>

\* Mutant of ParseResponse: the question is not compared.
ParseResponseLax(m) ==
  IF ~m.whole \/ m.id # "ours" \/ ~m.reply THEN Err
  ELSE [kind |-> "dns", from |-> m, answers |-> 0, capped |-> FALSE]

\* parse_response: the id and the reply bit must be right, and the first question,
\* which is only looked at if the message has one; the records are read up to the
\* limit or the first that runs off the end.
ParseResponse(m) ==
  LET cut == {i \in DOMAIN m.records : ~m.records[i]}
      readable == IF cut = {} THEN Len(m.records) ELSE Min(cut) - 1
      echoes == m.questions = <<>> \/ Head(m.questions) = Question(req)
  IN  IF ~m.whole \/ m.id # "ours" \/ ~m.reply \/ ~echoes THEN Err
      ELSE [kind |-> "dns", from |-> m, answers |-> Min({readable, MaxAnswers}),
            capped |-> readable >= MaxAnswers /\ Len(m.records) > MaxAnswers]

Parse ==
  /\ worker.pc = "parse"
  /\ LET parsed == ParseResponse(worker.bytes)
     IN  Finish(IF parsed = Err THEN Err
                ELSE [kind |-> "dns", from |-> parsed.from, answers |-> parsed.answers,
                      notes |-> ({worker.note} \ {"no"})
                                  \cup (IF parsed.capped THEN {"capped"} ELSE {})])
  /\ UNCHANGED <<sweep, scanners>>

\* intel: the lookups are independent, but the name of the network is only asked
\* for once its number is known.
Intel ==
  /\ worker.pc = "start" /\ req.action = "intel"
  /\ \/ Finish(Err) /\ req.target # "ip"
     \/ /\ Resolves
        /\ \E found \in SUBSET {"ptr", "asn", "org"} :
             /\ "org" \in found => "asn" \in found
             /\ Finish([kind |-> "intel", found |-> found,
                        notes |-> IF found \cap {"ptr", "asn"} = {} THEN {"nothing"} ELSE {}])
  /\ UNCHANGED <<sweep, scanners>>

-----------------------------------------------------------------------------
(* scan                                                                    *)

Ports == ParsePorts(req.spec)
Total == Len(Ports)
Workers == Min({ScanConcurrency, Total})

StartScan ==
  /\ worker.pc = "start" /\ req.action = "scan"
  /\ \/ /\ req.target # "ip" /\ Finish(Err) /\ UNCHANGED sweep
     \/ /\ Resolves /\ Goto("scope")
        /\ sweep' = [NoSweep EXCEPT !.progress =
             [kind |-> "scan", done |-> 0, total |-> Total,
              open |-> <<>>, closed |-> 0, filtered |-> 0]]
  /\ UNCHANGED scanners

\* The scope starts its threads one by one.
SpawnScanner ==
  /\ worker.pc = "scope" /\ sweep.spawned < Workers
  /\ sweep' = [sweep EXCEPT !.spawned = @ + 1]
  /\ scanners' = [scanners EXCEPT ![sweep.spawned + 1].pc = "next"]
  /\ UNCHANGED <<ui, dns, slot, req, worker, typed>>

\* Under the cursor's lock: the next port, or there is none.
NextPort(i) ==
  /\ scanners[i].pc = "next"
  /\ sweep' = [sweep EXCEPT !.cursor = @ + 1]
  /\ scanners' = [scanners EXCEPT ![i] =
       IF sweep.cursor < Total
       THEN [@ EXCEPT !.pc = "probe", !.port = Ports[sweep.cursor + 1]]
       ELSE [@ EXCEPT !.pc = "end"]]
  /\ UNCHANGED <<ui, dns, slot, req, worker, typed>>

\* probe_port, and its result under the lock of the progress; the copy that is
\* taken there is published later.
ProbePort(i, state) ==
  /\ scanners[i].pc = "probe"
  /\ LET p == [sweep.progress EXCEPT
            !.done = @ + 1,
            !.open = IF state = "Open" THEN Append(@, scanners[i].port) ELSE @,
            !.closed = IF state = "Closed" THEN @ + 1 ELSE @,
            !.filtered = IF state = "Filtered" THEN @ + 1 ELSE @]
     IN  /\ sweep' = [sweep EXCEPT !.progress = p]
         /\ scanners' = [scanners EXCEPT ![i] = [@ EXCEPT !.pc = "publish", !.snap = p]]
  /\ UNCHANGED <<ui, dns, slot, req, worker, typed>>

PublishProgress(i) ==
  /\ scanners[i].pc = "publish"
  /\ slot' = [slot EXCEPT !.latest = scanners[i].snap]
  /\ scanners' = [scanners EXCEPT ![i] = [pc |-> "next", port |-> 0, snap |-> None]]
  /\ UNCHANGED <<ui, dns, req, worker, sweep, typed>>

\* Mutant of Join: the result is handed over when the last port is given out.
JoinEarly ==
  /\ worker.pc = "scope" /\ sweep.cursor >= Total
  /\ Finish(sweep.progress)
  /\ UNCHANGED <<sweep, scanners>>

\* The scope ends when all its threads have; the open ports are sorted once.
Join ==
  /\ worker.pc = "scope" /\ sweep.spawned = Workers
  /\ \A i \in 1 .. Workers : scanners[i].pc = "end"
  /\ Finish([sweep.progress EXCEPT !.open = SortedByPort(@)])
  /\ UNCHANGED <<sweep, scanners>>

-----------------------------------------------------------------------------

Init ==
  /\ ui = [server |-> "", seeded |-> FALSE, job |-> FALSE, last |-> None]
  /\ dns = FALSE /\ typed = "no"
  /\ slot = [latest |-> None, done |-> FALSE]
  /\ req = None /\ worker = Idle /\ sweep = NoSweep /\ scanners = Resting

Frames == \E entry \in Entries \cup {"no"} : Frame(entry)

Lookup ==
  \/ StartLookup \/ UdpTimesOut \/ TcpFails \/ Parse
  \/ \E m \in Messages : RecvUdp(m) \/ RecvTcp(m)

Scanner(i) ==
  \/ NextPort(i) \/ PublishProgress(i)
  \/ \E state \in {"Open", "Closed", "Filtered"} : ProbePort(i, state)

Scan ==
  \/ StartScan \/ SpawnScanner \/ Join
  \/ \E i \in 1 .. ScanConcurrency : Scanner(i)

Next == Frames \/ Publish \/ Lookup \/ Intel \/ Scan

\* The dashboard repaints several times a second whatever happens; every wait of
\* a probe has a timeout, and the scheduler runs its threads.
Spec ==
  /\ Init /\ [][Next]_vars
  /\ WF_vars(Frames) /\ WF_vars(Lookup \/ Intel \/ Scan)

-----------------------------------------------------------------------------
(* Properties                                                              *)

\* What is on screen once no job is running is the whole of what was asked, "a
\* scan that quietly covered less than it was asked to would be a lie": every
\* port of the specification was probed once, by whichever thread, and no partial
\* result published late has taken the place of the last one.
ScanCoversAsked ==
  ~ui.job /\ ui.last.kind = "scan" =>
    LET asked == Named(req.spec)
    IN  /\ ui.last.done = Cardinality(asked) /\ ui.last.total = Cardinality(asked)
        /\ Len(ui.last.open) + ui.last.closed + ui.last.filtered = Cardinality(asked)
        /\ Range(ui.last.open) \subseteq asked
        /\ \A i, j \in DOMAIN ui.last.open : i < j => ui.last.open[i] < ui.last.open[j]

\* The reply on screen is one to the lookup that was run last, not a datagram left
\* over from an earlier one nor a result that an earlier job left behind: it has the
\* id of this query, and the question of this request if it echoes one at all.
\* "The parser also requires the echoed question to match", but a reply that echoes
\* none is let through, so this says no more of it.  Without a note it is the whole
\* of what the message holds up to the first record that cannot be read; and a note
\* that the retry has failed is only put on what UDP has cut short.
AnswersAsked ==
  ui.last.kind = "dns" =>
    LET m == ui.last.from
    IN  /\ m.id = "ours" /\ (m.questions # <<>> => Head(m.questions) = Question(req))
        /\ m.truncated => ui.last.notes # {}
        /\ "truncated" \in ui.last.notes => m.truncated
        /\ (\A i \in DOMAIN m.records : m.records[i]) /\ ui.last.answers < Len(m.records)
             => "capped" \in ui.last.notes

\* "An entry typed before the engine published its resolver is still the
\* operator's choice": nothing but the operator changes it, in whatever order
\* typing, publishing and frames come.
OperatorChoiceKept == typed # "no" => ui.server = typed

\* "recover rather than wedge the widget on a permanently pending job": every job
\* that was started is done at some time, so that a frame takes its result and the
\* widget can start another.
JobEnds == []<>(ui.job => slot.done)
=============================================================================
