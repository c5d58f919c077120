--------------------------- MODULE DashboardProofs ---------------------------
(* What the dashboard shows: the probe widget, for every set of requests,      *)
(* messages and entries and every limit, and the grid that it and the other    *)
(* widgets are drawn in, for all rows, windows and drags.                      *)
EXTENDS Probe, Layout, Induction, SequenceTheorems, FiniteSetTheorems, TLAPS

-----------------------------------------------------------------------------
(* Records.                                                                    *)

Widgets(u) == u = [server |-> u.server, seeded |-> u.seeded, job |-> u.job, last |-> u.last]
Shapes ==
  /\ Widgets(ui)
  /\ slot = [latest |-> slot.latest, done |-> slot.done]
  /\ worker = [pc |-> worker.pc, bytes |-> worker.bytes, note |-> worker.note]

\* A frame changes the server field only where the operator did, or where it has
\* not been seeded; and what it shows is what it showed or what the slot holds.
LEMMA ShownIs ==
  ASSUME Shapes, NEW late, NEW entry
  PROVE  /\ Widgets(Shown(late, entry))
         /\ entry # "no" => Shown(late, entry).server = entry /\ Shown(late, entry).seeded
         /\ entry = "no" /\ ui.seeded => Shown(late, entry).server = ui.server /\ Shown(late, entry).seeded
         /\ Shown(late, entry).last \in {ui.last, slot.latest}
<1> DEFINE s == Seeded(ui)
           c == Collected(s, late)
           e == Edited(c, entry)
<1>1. Widgets(s) /\ s.last = ui.last /\ (ui.seeded => s = ui)
  BY DEF Shapes, Widgets, Seeded
<1> HIDE DEF s
<1>2. /\ Widgets(c) /\ c.last \in {s.last, slot.latest}
      /\ c.server = s.server /\ c.seeded = s.seeded
  BY <1>1 DEF Collected, Widgets
<1> HIDE DEF c
<1>3. /\ Widgets(e) /\ e.last = c.last
      /\ entry # "no" => e.server = entry /\ e.seeded
      /\ entry = "no" => e = c
  BY <1>2 DEF Edited, Widgets
<1> HIDE DEF e
<1>4. Shown(late, entry) = e
  BY DEF Shown, s, c, e
<1> QED
  BY <1>1, <1>2, <1>3, <1>4

\* What a frame does to the widget and the slot.
LEMMA FrameIs ==
  ASSUME Shapes, NEW entry \in Entries \cup {"no"}, Frame(entry)
  PROVE  /\ typed' = IF entry = "no" THEN typed ELSE entry
         /\ Widgets(ui')
         /\ \E late : ui'.server = Shown(late, entry).server /\ ui'.seeded = Shown(late, entry).seeded
         /\ ui'.last \in {ui.last, slot.latest, Err, None}
         /\ slot' = [latest |-> slot'.latest, done |-> slot'.done]
         /\ slot'.latest \in {slot.latest, None, Err}
         /\ \/ UNCHANGED <<worker, sweep, scanners>>
            \/ worker' \in {Idle, [Idle EXCEPT !.pc = "start"]} /\ sweep' = NoSweep /\ scanners' = Resting
         /\ req' = req \/ (ui'.last = None /\ slot'.latest \in {None, Err} /\ worker'.pc \in {"idle", "start"})
<1>0. PICK late : Drawn(Shown(late, entry), entry)
  BY DEF Frame
<1> DEFINE u == Shown(late, entry)
<1>1. Widgets(u) /\ u.last \in {ui.last, slot.latest}
  BY ShownIs
<1> HIDE DEF u
<1>2. /\ typed' = IF entry = "no" THEN typed ELSE entry
      /\ \/ /\ ui' \in {u, [u EXCEPT !.last = Err]}
            /\ slot' \in {slot, [slot EXCEPT !.latest = None]}
            /\ UNCHANGED <<req, worker, sweep, scanners>>
         \/ /\ ui' = [u EXCEPT !.job = TRUE, !.last = None]
            /\ slot' \in {[latest |-> None, done |-> FALSE], [latest |-> Err, done |-> TRUE]}
            /\ worker' \in {Idle, [Idle EXCEPT !.pc = "start"]} /\ sweep' = NoSweep /\ scanners' = Resting
  BY <1>0 DEF u, Drawn, Spawn
<1>3. ui' \in {u, [u EXCEPT !.last = Err], [u EXCEPT !.job = TRUE, !.last = None]}
  BY <1>2
<1>4. /\ Widgets(ui') /\ ui'.server = u.server /\ ui'.seeded = u.seeded
      /\ ui'.last \in {ui.last, slot.latest, Err, None}
  BY <1>1, <1>3 DEF Widgets
<1>5. slot' \in {slot, [slot EXCEPT !.latest = None],
                 [latest |-> None, done |-> FALSE], [latest |-> Err, done |-> TRUE]}
  BY <1>2
<1>6. /\ slot' = [latest |-> slot'.latest, done |-> slot'.done]
      /\ slot'.latest \in {slot.latest, None, Err}
  BY <1>5 DEF Shapes
<1>7. \/ UNCHANGED <<worker, sweep, scanners>>
      \/ worker' \in {Idle, [Idle EXCEPT !.pc = "start"]} /\ sweep' = NoSweep /\ scanners' = Resting
  BY <1>2
<1>8. u = Shown(late, entry) /\ typed' = IF entry = "no" THEN typed ELSE entry
  BY <1>2 DEF u
<1>9. ASSUME ui' = [u EXCEPT !.job = TRUE, !.last = None]
             /\ slot' \in {[latest |-> None, done |-> FALSE], [latest |-> Err, done |-> TRUE]}
             /\ worker' \in {Idle, [Idle EXCEPT !.pc = "start"]}
      PROVE  /\ ui'.last = None /\ slot'.latest \in {None, Err}
             /\ worker'.pc \in {"idle", "start"}
  BY <1>1, <1>9 DEF Widgets, Idle
<1>10. req' = req \/ (/\ ui'.last = None /\ slot'.latest \in {None, Err}
                     /\ worker'.pc \in {"idle", "start"})
  BY <1>2, <1>9
<1> QED
  BY <1>4, <1>6, <1>7, <1>8, <1>10

-----------------------------------------------------------------------------
(* The steps of a job.                                                         *)

Jobs == Lookup \/ Intel \/ Scan

\* The job's own steps leave the widget and what was typed alone.
LEMMA JobsLeaveWidget ==
  ASSUME Jobs
  PROVE  UNCHANGED <<ui, dns, typed, req>>
<1>1. CASE Lookup
  <2>1. StartLookup \/ UdpTimesOut \/ TcpFails \/ Parse => UNCHANGED <<ui, dns, typed, req>>
    <3>1. \A out : Finish(out) => UNCHANGED <<ui, dns, typed, req>>
      BY DEF Finish
    <3>2. \A pc : Goto(pc) => UNCHANGED <<ui, dns, typed, req>>
      BY DEF Goto
    <3>3. TcpFails => UNCHANGED <<ui, dns, typed, req>>
      BY DEF TcpFails
    <3> QED
      BY <3>1, <3>2, <3>3 DEF StartLookup, UdpTimesOut, Parse
  <2>2. \A m : RecvUdp(m) \/ RecvTcp(m) => UNCHANGED <<ui, dns, typed, req>>
    BY DEF RecvUdp, RecvTcp
  <2> QED
    BY <1>1, <2>1, <2>2 DEF Lookup
<1>2. CASE Intel
  BY <1>2 DEF Intel, Finish
<1>3. CASE Scan
  <2>1. StartScan \/ SpawnScanner \/ Join => UNCHANGED <<ui, dns, typed, req>>
    BY DEF StartScan, SpawnScanner, Join, Finish, Goto
  <2>2. \A i : NextPort(i) \/ PublishProgress(i) => UNCHANGED <<ui, dns, typed, req>>
    BY DEF NextPort, PublishProgress
  <2>3. \A i, state : ProbePort(i, state) => UNCHANGED <<ui, dns, typed, req>>
    BY DEF ProbePort
  <2> QED
    BY <1>3, <2>1, <2>2, <2>3 DEF Scan, Scanner
<1> QED
  BY <1>1, <1>2, <1>3 DEF Jobs

\* A job puts a result or a scanner's copy into the slot, and moves on.
LEMMA JobsKeepShapes ==
  ASSUME Shapes, Jobs
  PROVE  Shapes'
<1>0. UNCHANGED ui
  BY JobsLeaveWidget
<1>1. ASSUME NEW out, Finish(out) PROVE Shapes'
  BY <1>0, <1>1 DEF Shapes, Widgets, Finish, Idle
<1>2. ASSUME NEW pc, Goto(pc) PROVE Shapes'
  BY <1>0, <1>2 DEF Shapes, Widgets, Goto
<1>3. ASSUME UNCHANGED <<slot, worker>> PROVE Shapes'
  BY <1>0, <1>3 DEF Shapes, Widgets
<1>4. CASE Lookup
  <2>1. StartLookup \/ UdpTimesOut \/ Parse => Shapes'
    BY <1>1, <1>2 DEF StartLookup, UdpTimesOut, Parse
  <2>2. TcpFails \/ (\E m : RecvUdp(m) \/ RecvTcp(m)) => Shapes'
    BY <1>0 DEF TcpFails, RecvUdp, RecvTcp, Shapes, Widgets
  <2> QED
    BY <1>4, <2>1, <2>2 DEF Lookup
<1>5. CASE Intel
  BY <1>1, <1>5 DEF Intel
<1>6. CASE Scan
  <2>1. StartScan \/ Join => Shapes'
    BY <1>1, <1>2 DEF StartScan, Join
  <2>2. SpawnScanner \/ (\E i : NextPort(i) \/ \E state : ProbePort(i, state)) => Shapes'
    BY <1>3 DEF SpawnScanner, NextPort, ProbePort
  <2>3. ASSUME NEW i, PublishProgress(i) PROVE Shapes'
    BY <1>0, <2>3 DEF PublishProgress, Shapes, Widgets
  <2> QED
    BY <1>6, <2>1, <2>2, <2>3 DEF Scan, Scanner
<1> QED
  BY <1>4, <1>5, <1>6 DEF Jobs

\* Every step keeps the records whole.
LEMMA ShapesKept == Shapes /\ [Next]_vars => Shapes'
<1> SUFFICES ASSUME Shapes, [Next]_vars PROVE Shapes'
  OBVIOUS
<1>1. ASSUME NEW entry \in Entries \cup {"no"}, Frame(entry) PROVE Shapes'
  <2>1. Widgets(ui') /\ slot' = [latest |-> slot'.latest, done |-> slot'.done]
    BY <1>1, FrameIs
  <2>2. worker' = worker \/ worker' \in {Idle, [Idle EXCEPT !.pc = "start"]}
    BY <1>1, FrameIs
  <2>3. worker' = [pc |-> worker'.pc, bytes |-> worker'.bytes, note |-> worker'.note]
    BY <2>2 DEF Shapes, Idle
  <2> QED
    BY <2>1, <2>3 DEF Shapes, Widgets
<1>2. CASE Publish
  BY <1>2 DEF Publish, Shapes, Widgets
<1>3. CASE UNCHANGED vars
  BY <1>3 DEF vars, Shapes, Widgets
<1> QED
  BY <1>1, <1>2, <1>3, JobsKeepShapes DEF Next, Frames, Jobs

-----------------------------------------------------------------------------
(* The operator's resolver.                                                    *)

\* What was typed is in the field, and the field counts as seeded, so that the
\* engine's resolver does not replace it.
TypedSticks == Shapes /\ (typed # "no" => ui.server = typed /\ ui.seeded)

LEMMA TypedKept == TypedSticks /\ [Next]_vars => TypedSticks'
<1> SUFFICES ASSUME TypedSticks, [Next]_vars PROVE (typed # "no" => ui.server = typed /\ ui.seeded)'
  BY ShapesKept DEF TypedSticks
<1>0. Shapes /\ (typed # "no" => ui.server = typed /\ ui.seeded)
  BY DEF TypedSticks
<1>1. ASSUME NEW entry \in Entries \cup {"no"}, Frame(entry)
      PROVE  (typed # "no" => ui.server = typed /\ ui.seeded)'
  <2>1. /\ typed' = IF entry = "no" THEN typed ELSE entry
        /\ \E late : ui'.server = Shown(late, entry).server /\ ui'.seeded = Shown(late, entry).seeded
    BY <1>0, <1>1, FrameIs
  <2> PICK late : ui'.server = Shown(late, entry).server /\ ui'.seeded = Shown(late, entry).seeded
    BY <2>1
  <2>2. /\ entry # "no" => Shown(late, entry).server = entry /\ Shown(late, entry).seeded
        /\ entry = "no" /\ ui.seeded =>
             Shown(late, entry).server = ui.server /\ Shown(late, entry).seeded
    BY <1>0, ShownIs
  <2> QED
    BY <1>0, <2>1, <2>2
<1>2. CASE Publish
  BY <1>0, <1>2 DEF Publish
<1>3. CASE UNCHANGED vars
  BY <1>0, <1>3 DEF vars
<1>4. CASE Jobs
  BY <1>0, <1>4, JobsLeaveWidget
<1> QED
  BY <1>1, <1>2, <1>3, <1>4 DEF Next, Frames, Jobs

LEMMA ShapesAtFirst == Init => Shapes
BY DEF Init, Shapes, Widgets, Idle

\* Nothing but the operator changes a resolver the operator has typed, in whatever
\* order typing, publishing and frames come.
THEOREM ChoiceIsKept == Spec => []OperatorChoiceKept
<1>1. Init => TypedSticks
  BY ShapesAtFirst DEF Init, TypedSticks
<1>2. TypedSticks => OperatorChoiceKept
  BY DEF TypedSticks, OperatorChoiceKept
<1> QED
  BY <1>1, <1>2, TypedKept, PTL DEF Spec

-----------------------------------------------------------------------------
(* The answers on screen.                                                      *)

\* The smaller of two numbers.
LEMMA LesserOf ==
  ASSUME NEW a \in Nat, NEW b \in Nat
  PROVE  Min({a, b}) = IF a <= b THEN a ELSE b
<1>1. CASE a <= b
  BY <1>1 DEF Min
<1>2. CASE ~(a <= b)
  BY <1>2 DEF Min
<1> QED
  BY <1>1, <1>2

\* What AnswersAsked says, of any result of a request.
Asked(r, out) ==
  out.kind = "dns" =>
    LET m == out.from
    IN  /\ m.id = "ours" /\ (m.questions # <<>> => Head(m.questions) = Question(r))
        /\ m.truncated => out.notes # {}
        /\ "truncated" \in out.notes => m.truncated
        /\ (\A i \in DOMAIN m.records : m.records[i]) /\ out.answers < Len(m.records)
             => "capped" \in out.notes

\* What a scan has counted, and every failure, is no reply.
NotReply(out) == "kind" \in DOMAIN out /\ out.kind # "dns"

AnswerInv ==
  /\ Shapes
  /\ Asked(req, ui.last) /\ Asked(req, slot.latest)
  /\ worker.pc \in {"start", "udp", "tcp"} => worker.note = "no"
  /\ worker.pc = "tcp" => worker.bytes \in Messages /\ worker.bytes.truncated
  /\ worker.pc = "parse" =>
       /\ worker.bytes \in Messages /\ worker.note \in {"no", "retried", "truncated"}
       /\ worker.bytes.truncated => worker.note # "no"
       /\ worker.note = "truncated" => worker.bytes.truncated
  /\ sweep = [cursor |-> sweep.cursor, spawned |-> sweep.spawned, progress |-> sweep.progress]
  /\ NotReply(sweep.progress) /\ DOMAIN scanners = 1 .. ScanConcurrency
  /\ \A i \in 1 .. ScanConcurrency :
       NotReply(scanners[i].snap)
         /\ scanners[i] = [pc |-> scanners[i].pc, port |-> scanners[i].port, snap |-> scanners[i].snap]

\* parse_response lets nothing through that does not answer the query, and notes
\* the limit when it is what cut the answers short.
LEMMA ParsedIsAsked ==
  ASSUME NEW m \in Messages, NEW note, m.truncated => note # "no", note = "truncated" => m.truncated,
         ParseResponse(m) # Err
  PROVE  LET parsed == ParseResponse(m)
         IN  Asked(req, [kind |-> "dns", from |-> parsed.from, answers |-> parsed.answers,
                    notes |-> ({note} \ {"no"})
                                \cup (IF parsed.capped THEN {"capped"} ELSE {})])
<1> DEFINE cut == {i \in DOMAIN m.records : ~m.records[i]}
           readable == IF cut = {} THEN Len(m.records) ELSE Min(cut) - 1
           answers == Min({readable, MaxAnswers})
           capped == readable >= MaxAnswers /\ Len(m.records) > MaxAnswers
<1>1. m.id = "ours" /\ (m.questions # <<>> => Head(m.questions) = Question(req))
      /\ ParseResponse(m) = [kind |-> "dns", from |-> m, answers |-> answers, capped |-> capped]
  BY DEF ParseResponse
<1>2. m.records \in Seq(BOOLEAN) /\ MaxAnswers \in Nat
  BY MessageAssumption, ProbeAssumption
<1>3. ASSUME \A i \in DOMAIN m.records : m.records[i], answers < Len(m.records)
      PROVE  capped
  <2>1. cut = {}
    BY <1>3
  <2>2. readable = Len(m.records) /\ Len(m.records) \in Nat
    BY <1>2, <2>1
  <2> HIDE DEF readable
  <2>3. answers = IF readable <= MaxAnswers THEN readable ELSE MaxAnswers
    BY <1>2, <2>2, LesserOf
  <2> QED
    BY <1>2, <1>3, <2>2, <2>3
<1> HIDE DEF answers, capped
<1> QED
  BY <1>1, <1>3 DEF Asked

\* The results that are no replies to a lookup.
LEMMA OthersAreAsked ==
  ASSUME NEW r, NEW out, NotReply(out)
  PROVE  Asked(r, out)
BY DEF Asked, NotReply

\* A scanner with the copy of the progress it has taken.
LEMMA Holding ==
  ASSUME NEW s, NEW p, s = [pc |-> s.pc, port |-> s.port, snap |-> s.snap],
         NEW r, r = [s EXCEPT !.pc = "publish", !.snap = p]
  PROVE  r = [pc |-> r.pc, port |-> r.port, snap |-> r.snap] /\ r.snap = p
OBVIOUS

\* A scanner takes a step of its own.
LEMMA ScannerStep ==
  ASSUME AnswerInv, Shapes', NEW i \in 1 .. ScanConcurrency, NEW r,
         r = [pc |-> r.pc, port |-> r.port, snap |-> r.snap], NotReply(r.snap),
         sweep' = [cursor |-> sweep'.cursor, spawned |-> sweep'.spawned, progress |-> sweep'.progress],
         NotReply(sweep'.progress),
         scanners' = [scanners EXCEPT ![i] = r], UNCHANGED <<ui, slot, worker, req>>
  PROVE  AnswerInv'
<1>1. DOMAIN scanners' = 1 .. ScanConcurrency
  BY DEF AnswerInv
<1>2. ASSUME NEW j \in 1 .. ScanConcurrency
      PROVE  /\ NotReply(scanners'[j].snap)
             /\ scanners'[j] = [pc |-> scanners'[j].pc, port |-> scanners'[j].port,
                                snap |-> scanners'[j].snap]
  <2>1. scanners'[j] \in {r, scanners[j]}
    BY DEF AnswerInv
  <2> QED
    BY <2>1 DEF AnswerInv
<1> QED
  BY <1>1, <1>2 DEF AnswerInv

\* The steps of a job put only such results into the slot.
LEMMA JobsKeepAnswers ==
  ASSUME AnswerInv, Jobs
  PROVE  AnswerInv'
<1> USE DEF AnswerInv
<1>0. UNCHANGED <<ui, req>> /\ Shapes'
  BY JobsLeaveWidget, JobsKeepShapes
<1>1. ASSUME NEW out, Asked(req, out), Finish(out), UNCHANGED <<sweep, scanners>> PROVE AnswerInv'
  BY <1>0, <1>1 DEF Finish, Idle
<1>2. ASSUME NEW pc, Goto(pc), worker.pc = "start", pc \notin {"tcp", "parse"}, UNCHANGED scanners,
             sweep' \in {sweep, [NoSweep EXCEPT !.progress =
               [kind |-> "scan", done |-> 0, total |-> Total,
                open |-> <<>>, closed |-> 0, filtered |-> 0]]}
      PROVE  AnswerInv'
  BY <1>0, <1>2 DEF Goto, Shapes, NoSweep, NotReply
<1>3. NotReply(Err) /\ NotReply(None)
  BY DEF NotReply, Err, None
<1>4. CASE Lookup
  <2>1. CASE StartLookup
    BY <1>1, <1>2, <1>3, <2>1, OthersAreAsked DEF StartLookup
  <2>2. CASE UdpTimesOut
    BY <1>1, <1>3, <2>2, OthersAreAsked DEF UdpTimesOut
  <2>3. CASE TcpFails
    BY <1>0, <2>3 DEF TcpFails, Shapes
  <2>4. CASE Parse
    <3> DEFINE parsed == ParseResponse(worker.bytes)
               out == [kind |-> "dns", from |-> parsed.from, answers |-> parsed.answers,
                       notes |-> ({worker.note} \ {"no"})
                                   \cup (IF parsed.capped THEN {"capped"} ELSE {})]
    <3>1. worker.pc = "parse" /\ Finish(IF parsed = Err THEN Err ELSE out)
          /\ UNCHANGED <<sweep, scanners>>
      BY <2>4 DEF Parse
    <3>2. parsed # Err => Asked(req, out)
      BY <3>1, ParsedIsAsked
    <3>3. Asked(req, IF parsed = Err THEN Err ELSE out)
      BY <1>3, <3>2, OthersAreAsked
    <3> QED
      BY <1>1, <3>1, <3>3
  <2>5. ASSUME NEW m \in Messages, RecvUdp(m) PROVE AnswerInv'
    BY <1>0, <2>5 DEF RecvUdp, Shapes
  <2>6. ASSUME NEW m \in Messages, RecvTcp(m) PROVE AnswerInv'
    BY <1>0, <2>6 DEF RecvTcp, Shapes
  <2> QED
    BY <1>4, <2>1, <2>2, <2>3, <2>4, <2>5, <2>6 DEF Lookup
<1>5. CASE Intel
  <2>1. \A found, notes : NotReply([kind |-> "intel", found |-> found, notes |-> notes])
    BY DEF NotReply
  <2>2. PICK out : Finish(out) /\ NotReply(out)
    BY <1>3, <1>5, <2>1 DEF Intel
  <2> QED
    BY <1>1, <1>5, <2>2, OthersAreAsked DEF Intel
<1>6. CASE Scan
  <2>1. CASE StartScan
    <3>1. CASE Finish(Err) /\ UNCHANGED sweep
      BY <1>1, <1>3, <2>1, <3>1, OthersAreAsked DEF StartScan
    <3>2. CASE Goto("scope") /\ sweep' = [NoSweep EXCEPT !.progress =
             [kind |-> "scan", done |-> 0, total |-> Total,
              open |-> <<>>, closed |-> 0, filtered |-> 0]]
      BY <1>2, <2>1, <3>2 DEF StartScan
    <3> QED
      BY <2>1, <3>1, <3>2 DEF StartScan
  <2>2. CASE SpawnScanner
    BY <1>0, <2>2 DEF SpawnScanner
  <2>3. CASE Join
    BY <1>1, <2>3, OthersAreAsked DEF Join, NotReply
  <2>4. ASSUME NEW i \in 1 .. ScanConcurrency, NextPort(i) PROVE AnswerInv'
    <3> DEFINE s == scanners[i]
               r == IF sweep.cursor < Total
                    THEN [s EXCEPT !.pc = "probe", !.port = Ports[sweep.cursor + 1]]
                    ELSE [s EXCEPT !.pc = "end"]
    <3>1. /\ sweep' = [sweep EXCEPT !.cursor = @ + 1]
          /\ scanners' = [scanners EXCEPT ![i] = r] /\ UNCHANGED <<slot, worker>>
      BY <2>4 DEF NextPort
    <3>2. s = [pc |-> s.pc, port |-> s.port, snap |-> s.snap] /\ NotReply(s.snap)
      BY <2>4
    <3> HIDE DEF s
    <3>3. r = [pc |-> r.pc, port |-> r.port, snap |-> r.snap] /\ r.snap = s.snap
      BY <3>2
    <3> HIDE DEF r
    <3>4. /\ sweep' = [cursor |-> sweep'.cursor, spawned |-> sweep'.spawned, progress |-> sweep'.progress]
          /\ NotReply(sweep'.progress)
      BY <3>1
    <3> QED
      BY <1>0, <2>4, <3>1, <3>2, <3>3, <3>4, ScannerStep
  <2>5. ASSUME NEW i \in 1 .. ScanConcurrency, PublishProgress(i) PROVE AnswerInv'
    BY <1>0, <1>3, <2>5, OthersAreAsked DEF PublishProgress, Shapes
  <2>6. ASSUME NEW i \in 1 .. ScanConcurrency, NEW state, ProbePort(i, state) PROVE AnswerInv'
    <3> DEFINE s == scanners[i]
               p == [sweep.progress EXCEPT
                       !.done = @ + 1,
                       !.open = IF state = "Open" THEN Append(@, s.port) ELSE @,
                       !.closed = IF state = "Closed" THEN @ + 1 ELSE @,
                       !.filtered = IF state = "Filtered" THEN @ + 1 ELSE @]
               r == [s EXCEPT !.pc = "publish", !.snap = p]
    <3>1. /\ sweep' = [sweep EXCEPT !.progress = p]
          /\ scanners' = [scanners EXCEPT ![i] = r] /\ UNCHANGED <<slot, worker>>
      BY <2>6 DEF ProbePort
    <3>2. s = [pc |-> s.pc, port |-> s.port, snap |-> s.snap]
      BY <2>6
    <3> HIDE DEF s
    <3>3. NotReply(p)
      BY DEF NotReply
    <3> HIDE DEF p
    <3>4. r = [s EXCEPT !.pc = "publish", !.snap = p]
      OBVIOUS
    <3> HIDE DEF r
    <3>5. r = [pc |-> r.pc, port |-> r.port, snap |-> r.snap] /\ r.snap = p
      BY <3>2, <3>4, Holding
    <3>6. /\ sweep' = [cursor |-> sweep'.cursor, spawned |-> sweep'.spawned, progress |-> sweep'.progress]
          /\ NotReply(sweep'.progress)
      BY <3>1, <3>3
    <3> QED
      BY <1>0, <2>6, <3>1, <3>3, <3>5, <3>6, ScannerStep
  <2> QED
    BY <1>6, <2>1, <2>2, <2>3, <2>4, <2>5, <2>6 DEF Scan, Scanner
<1> QED
  BY <1>4, <1>5, <1>6 DEF Jobs

\* Nor does a frame, which shows what the slot holds, or an error.
LEMMA FramesKeepAnswers ==
  ASSUME AnswerInv, NEW entry \in Entries \cup {"no"}, Frame(entry)
  PROVE  AnswerInv'
<1>1. Shapes'
  BY ShapesKept DEF AnswerInv, Next, Frames
<1>2. /\ ui'.last \in {ui.last, slot.latest, Err, None}
      /\ slot'.latest \in {slot.latest, None, Err}
      /\ \/ UNCHANGED <<worker, sweep, scanners>>
         \/ worker' \in {Idle, [Idle EXCEPT !.pc = "start"]} /\ sweep' = NoSweep /\ scanners' = Resting
      /\ req' = req \/ (ui'.last = None /\ slot'.latest \in {None, Err})
  BY FrameIs DEF AnswerInv
<1>3. NotReply(None) /\ \A r : Asked(r, None) /\ Asked(r, Err)
  BY OthersAreAsked DEF NotReply, Err, None
<1>4. Asked(req', ui'.last) /\ Asked(req', slot'.latest)
  <2>1. CASE req' = req
    BY <1>2, <1>3, <2>1 DEF AnswerInv
  <2>2. CASE ui'.last = None /\ slot'.latest \in {None, Err}
    BY <1>3, <2>2
  <2> QED
    BY <1>2, <2>1, <2>2
<1>5. CASE UNCHANGED <<worker, sweep, scanners>>
  BY <1>1, <1>4, <1>5 DEF AnswerInv
<1>6. CASE worker' \in {Idle, [Idle EXCEPT !.pc = "start"]} /\ sweep' = NoSweep /\ scanners' = Resting
  BY <1>1, <1>3, <1>4, <1>6 DEF AnswerInv, Idle, NoSweep, Resting
<1> QED
  BY <1>2, <1>5, <1>6

LEMMA AnswersKept == AnswerInv /\ [Next]_vars => AnswerInv'
<1> SUFFICES ASSUME AnswerInv, [Next]_vars PROVE AnswerInv'
  OBVIOUS
<1>1. CASE Publish
  BY <1>1 DEF Publish, AnswerInv, Shapes, Widgets
<1>2. CASE UNCHANGED vars
  BY <1>2 DEF vars, AnswerInv, Shapes, Widgets
<1> QED
  BY <1>1, <1>2, FramesKeepAnswers, JobsKeepAnswers DEF Next, Frames, Jobs

LEMMA AnswersAtFirst == Init => AnswerInv
<1>1. NotReply(None) /\ Asked(req, None)
  BY OthersAreAsked DEF NotReply, None
<1> SUFFICES ASSUME Init PROVE AnswerInv
  OBVIOUS
<1>2. Shapes /\ Asked(req, ui.last) /\ Asked(req, slot.latest)
  BY <1>1, ShapesAtFirst DEF Init
<1>3. worker.pc = "idle"
  BY DEF Init, Idle
<1>4. /\ sweep = [cursor |-> sweep.cursor, spawned |-> sweep.spawned, progress |-> sweep.progress]
      /\ NotReply(sweep.progress)
  BY <1>1 DEF Init, NoSweep
<1>5. scanners = Resting
  BY DEF Init
<1> QED
  BY <1>1, <1>2, <1>3, <1>4, <1>5 DEF AnswerInv, Resting

\* The reply on screen is one to the lookup that was run last: it has the id of its
\* query and, if it echoes a question, that of its request.  One that was cut short,
\* by UDP or by the limit on answers, carries a note of it, and only a reply that
\* UDP has cut short is said to be one.
THEOREM AnswersAreAsked == Spec => []AnswersAsked
<1>1. AnswerInv => AnswersAsked
  BY DEF AnswerInv, Asked, AnswersAsked
<1> QED
  BY <1>1, AnswersAtFirst, AnswersKept, PTL DEF Spec

-----------------------------------------------------------------------------
(* Sorting.                                                                    *)

Rising(f, n) == \A i, j \in 1 .. n : i < j => f[i] < f[j]

\* There is a list of a finite set of numbers in increasing order.
LEMMA RisingExists ==
  ASSUME NEW n \in Nat, NEW T \in SUBSET Nat, IsFiniteSet(T), Cardinality(T) = n
  PROVE  \E f \in [1 .. n -> T] : Rising(f, n)
<1> DEFINE Lists(m) == \A S \in SUBSET Nat :
             IsFiniteSet(S) /\ Cardinality(S) = m => \E f \in [1 .. m -> S] : Rising(f, m)
           good == {m \in 0 .. n : Lists(m)}
<1>1. 0 \in good
  <2> SUFFICES ASSUME NEW S \in SUBSET Nat PROVE \E f \in [1 .. 0 -> S] : Rising(f, 0)
    OBVIOUS
  <2>1. PICK f : f = [i \in 1 .. 0 |-> 0]
    OBVIOUS
  <2>2. f \in [1 .. 0 -> S]
    BY <2>1
  <2>3. Rising(f, 0)
    BY DEF Rising
  <2> QED
    BY <2>2, <2>3
<1>2. ASSUME NEW m \in 1 .. n, m - 1 \in good PROVE m \in good
  <2>0. Lists(m - 1) /\ m \in Nat /\ m - 1 \in Nat
    BY <1>2
  <2> SUFFICES ASSUME NEW S \in SUBSET Nat, IsFiniteSet(S), Cardinality(S) = m
               PROVE  \E f \in [1 .. m -> S] : Rising(f, m)
    OBVIOUS
  <2>1. S # {}
    BY <2>0, FS_EmptySet
  <2>2. PICK x \in S : \A y \in S : x <= y
    BY <2>1, LeastExists
  <2>3. S \ {x} \in SUBSET Nat /\ IsFiniteSet(S \ {x}) /\ Cardinality(S \ {x}) = m - 1
    BY FS_RemoveElement
  <2>4. PICK g \in [1 .. m - 1 -> S \ {x}] : Rising(g, m - 1)
    BY <2>0, <2>3
  <2> DEFINE f == [i \in 1 .. m |-> IF i = 1 THEN x ELSE g[i - 1]]
  <2>5. \A i \in 1 .. m : i # 1 => i - 1 \in 1 .. m - 1 /\ f[i] = g[i - 1] /\ f[i] \in S \ {x}
    BY <2>0, <2>4
  <2>6. f \in [1 .. m -> S]
    BY <2>5
  <2>7. ASSUME NEW i \in 1 .. m, NEW j \in 1 .. m, i < j PROVE f[i] < f[j]
    <3>1. CASE i = 1
      <4>1. f[i] = x /\ j # 1
        BY <2>7, <3>1
      <4>2. f[j] \in S /\ f[j] # x
        BY <2>5, <4>1
      <4>3. x <= f[j] /\ x \in Nat /\ f[j] \in Nat
        BY <2>2, <4>2
      <4> HIDE DEF f
      <4> QED
        BY <4>1, <4>2, <4>3
    <3>2. CASE i # 1
      <4>1. j # 1 /\ i - 1 < j - 1
        BY <2>7, <3>2
      <4> QED
        BY <2>4, <2>5, <3>2, <4>1 DEF Rising
    <3> QED
      BY <3>1, <3>2
  <2> HIDE DEF f
  <2> QED
    BY <2>6, <2>7 DEF Rising
<1> HIDE DEF good
<1>3. 0 .. n \subseteq good
  BY <1>1, <1>2, UpTo
<1> QED
  BY <1>3 DEF good

\* What sorting and removing duplicates gives.
LEMMA SortedIs ==
  ASSUME NEW T \in SUBSET Nat, IsFiniteSet(T)
  PROVE  /\ Cardinality(T) \in Nat
         /\ Sorted(T) \in [1 .. Cardinality(T) -> T]
         /\ Rising(Sorted(T), Cardinality(T))
<1>1. PICK n \in Nat : n = Cardinality(T)
  BY FS_CardinalityType
<1>2. \E f \in [1 .. n -> T] : Rising(f, n)
  BY <1>1, RisingExists
<1>3. \E f \in [1 .. n -> T] : \A i, j \in DOMAIN f : i < j => f[i] < f[j]
  BY <1>2 DEF Rising
<1>4. /\ Sorted(T) \in [1 .. n -> T]
      /\ \A i, j \in DOMAIN Sorted(T) : i < j => Sorted(T)[i] < Sorted(T)[j]
  BY <1>1, <1>3 DEF Sorted
<1> QED
  BY <1>1, <1>4 DEF Rising

\* What sorting a list of distinct numbers gives.
LEMMA SortedByPortIs ==
  ASSUME NEW s \in Seq(Nat), \A i, j \in 1 .. Len(s) : s[i] = s[j] => i = j
  PROVE  /\ Len(SortedByPort(s)) = Len(s)
         /\ DOMAIN SortedByPort(s) = 1 .. Len(s)
         /\ Rising(SortedByPort(s), Len(s))
         /\ \A i \in 1 .. Len(s) : \E j \in 1 .. Len(s) : SortedByPort(s)[i] = s[j]
<1>1. PICK n \in Nat : n = Len(s)
  OBVIOUS
<1>2. PICK D : D = 1 .. n
  OBVIOUS
<1>3. DOMAIN s = D /\ s \in [D -> Nat]
  BY <1>1, <1>2
<1>4. PICK T : T = {s[i] : i \in D}
  OBVIOUS
<1>5. IsFiniteSet(D) /\ Cardinality(D) = n
  <2>1. \A p \in Int : IsFiniteSet(1 .. p) /\ Cardinality(1 .. p) = IF 1 > p THEN 0 ELSE p - 1 + 1
    BY FS_Interval
  <2> QED
    BY <1>2, <2>1
<1>6. IsFiniteSet(T) /\ Cardinality(T) = n /\ T \in SUBSET Nat
  <2>1. s \in [D -> T]
    BY <1>3, <1>4
  <2>2. s \in Bijection(D, T)
    BY <1>1, <1>2, <1>4, <2>1 DEF Bijection, Injection, Surjection, IsInjective
  <2>3. ExistsBijection(D, T)
    BY <2>2 DEF ExistsBijection
  <2>4. T \in SUBSET Nat
    BY <1>3, <1>4
  <2> QED
    BY <1>5, <2>3, <2>4, FS_Bijection
<1>7. PICK f \in [D -> T] : Rising(f, n)
  BY <1>2, <1>6, RisingExists
<1>8. \A i \in D : \E j \in D : s[j] = f[i]
  BY <1>4, <1>7
<1> DEFINE p == [i \in D |-> CHOOSE j \in D : s[j] = f[i]]
<1>9. p \in [D -> D] /\ \A i \in D : s[p[i]] = f[i]
  BY <1>8
<1> HIDE DEF p
<1>10. p \in Injection(D, D)
  <2>1. ASSUME NEW i \in D, NEW j \in D, p[i] = p[j] PROVE i = j
    <3>1. f[i] = f[j]
      BY <1>9, <2>1
    <3>2. f[i] \in T /\ f[j] \in T
      BY <1>7
    <3>3. f[i] \in Nat /\ f[j] \in Nat
      BY <1>6, <3>2
    <3>4. i \in 1 .. n /\ j \in 1 .. n
      BY <1>2
    <3>5. i < j => f[i] < f[j]
      BY <1>7, <3>4 DEF Rising
    <3>6. j < i => f[j] < f[i]
      BY <1>7, <3>4 DEF Rising
    <3> QED
      BY <3>1, <3>3, <3>4, <3>5, <3>6
  <2> QED
    BY <1>9, <2>1 DEF Injection, IsInjective
<1>11. p \in Bijection(D, D)
  BY <1>5, <1>10, FS_Injection DEF Bijection
<1>12. \A i, j \in D : i < j => s[p[i]] <= s[p[j]]
  <2> SUFFICES ASSUME NEW i \in D, NEW j \in D, i < j PROVE s[p[i]] <= s[p[j]]
    OBVIOUS
  <2>1. f[i] \in T /\ f[j] \in T
    BY <1>7
  <2>2. f[i] \in Nat /\ f[j] \in Nat
    BY <1>6, <2>1
  <2>3. f[i] < f[j]
    BY <1>2, <1>7 DEF Rising
  <2>4. s[p[i]] = f[i] /\ s[p[j]] = f[j]
    BY <1>9
  <2> QED
    BY <2>2, <2>3, <2>4
<1> DEFINE to == CHOOSE q \in Bijection(D, D) : \A i, j \in D : i < j => s[q[i]] <= s[q[j]]
<1>13. to \in Bijection(D, D) /\ \A i, j \in D : i < j => s[to[i]] <= s[to[j]]
  BY <1>11, <1>12
<1>14. SortedByPort(s) = [i \in D |-> s[to[i]]]
  BY <1>3 DEF SortedByPort
<1> HIDE DEF to
<1>15. to \in [D -> D] /\ \A i, j \in D : to[i] = to[j] => i = j
  BY <1>13 DEF Bijection, Injection, IsInjective
<1>16. PICK r : r = SortedByPort(s)
  OBVIOUS
<1>17. r = [i \in D |-> s[to[i]]]
  BY <1>14, <1>16
<1>18. \A i \in D : r[i] = s[to[i]] /\ to[i] \in D
  BY <1>15, <1>17
<1>19. Len(r) = n /\ DOMAIN r = D
  BY <1>2, <1>17
<1>20. ASSUME NEW i \in D, NEW j \in D, i < j PROVE r[i] < r[j]
  <2>1. s[to[i]] <= s[to[j]] /\ s[to[i]] \in Nat /\ s[to[j]] \in Nat
    BY <1>3, <1>13, <1>18, <1>20
  <2>2. i # j
    BY <1>2, <1>20
  <2>3. s[to[i]] # s[to[j]]
    <3>1. to[i] # to[j]
      BY <1>15, <2>2
    <3>2. to[i] \in 1 .. Len(s) /\ to[j] \in 1 .. Len(s)
      BY <1>1, <1>2, <1>18
    <3> QED
      BY <3>1, <3>2
  <2> QED
    BY <1>18, <2>1, <2>3
<1> QED
  BY <1>1, <1>2, <1>16, <1>18, <1>19, <1>20 DEF Rising

-----------------------------------------------------------------------------
(* The ports of a specification.                                               *)

Specs == Seq([lo : Nat, hi : Nat, range : BOOLEAN])

LEMMA NamedFinite ==
  ASSUME NEW spec \in Specs
  PROVE  IsFiniteSet(Named(spec)) /\ Named(spec) \in SUBSET Nat
<1>1. PICK D : D = DOMAIN spec
  OBVIOUS
<1>2. IsFiniteSet(D)
  <2>1. Len(spec) \in Int /\ D = 1 .. Len(spec)
    BY <1>1 DEF Specs
  <2>2. \A p \in Int : IsFiniteSet(1 .. p)
    BY FS_Interval
  <2> QED
    BY <2>1, <2>2
<1>3. \A i \in D : spec[i].lo \in Nat /\ spec[i].hi \in Nat
  <2>1. PICK R : R = [lo : Nat, hi : Nat, range : BOOLEAN]
    OBVIOUS
  <2>2. spec \in Seq(R)
    BY <2>1 DEF Specs
  <2>3. \A i \in D : spec[i] \in R
    BY <1>1, <2>2
  <2> QED
    BY <2>1, <2>3
<1>4. PICK f : f = [i \in D |-> spec[i].lo .. spec[i].hi]
  OBVIOUS
<1>5. PICK S : S = {spec[i].lo .. spec[i].hi : i \in D}
  OBVIOUS
<1>6. f \in Surjection(D, S)
  <2>1. f \in [D -> S]
    BY <1>4, <1>5
  <2>2. \A t \in S : \E i \in D : f[i] = t
    BY <1>4, <1>5
  <2> QED
    BY <2>1, <2>2 DEF Surjection
<1>7. IsFiniteSet(S)
  BY <1>2, <1>6, FS_Surjection
<1>8. \A T \in S : IsFiniteSet(T) /\ T \in SUBSET Nat
  <2> SUFFICES ASSUME NEW i \in D
               PROVE  IsFiniteSet(spec[i].lo .. spec[i].hi)
                        /\ spec[i].lo .. spec[i].hi \in SUBSET Nat
    BY <1>5
  <2>1. \A a, b \in Int : IsFiniteSet(a .. b)
    BY FS_Interval
  <2>2. \A a, b \in Nat : a .. b \in SUBSET Nat
    OBVIOUS
  <2> QED
    BY <1>3, <2>1, <2>2
<1>9. Named(spec) = UNION S
  BY <1>1, <1>5 DEF Named
<1> QED
  BY <1>7, <1>8, <1>9, FS_UNION

\* parse_ports lists every port that is named, once.
LEMMA PortsAre ==
  ASSUME NEW spec \in Specs, NEW ports, ports = ParsePorts(spec), ports # <<>>
  PROVE  /\ Cardinality(Named(spec)) \in Nat \ {0} /\ Len(ports) = Cardinality(Named(spec))
         /\ ports \in [1 .. Len(ports) -> Named(spec)]
         /\ \A j, k \in 1 .. Len(ports) : ports[j] = ports[k] => j = k
         /\ Named(spec) \in SUBSET Nat
<1>1. ports = Sorted(Named(spec))
  BY DEF ParsePorts
<1>2. PICK T : T = Named(spec)
  OBVIOUS
<1>3. PICK n : n = Cardinality(T)
  OBVIOUS
<1>4. T \in SUBSET Nat /\ n \in Nat /\ ports \in [1 .. n -> T] /\ Rising(ports, n)
  BY <1>1, <1>2, <1>3, NamedFinite, SortedIs
<1>5. Len(ports) = n
  BY <1>4
<1>6. n # 0
  <2>1. n = 0 => ports = <<>>
    BY <1>4
  <2> QED
    BY <2>1
<1>7. ASSUME NEW j \in 1 .. n, NEW k \in 1 .. n, ports[j] = ports[k] PROVE j = k
  <2>1. ports[j] \in Nat /\ ports[k] \in Nat
    BY <1>4
  <2>2. (j < k => ports[j] < ports[k]) /\ (k < j => ports[k] < ports[j])
    BY <1>4 DEF Rising
  <2> QED
    BY <1>7, <2>1, <2>2
<1> QED
  BY <1>2, <1>3, <1>4, <1>5, <1>6, <1>7

-----------------------------------------------------------------------------
(* What a scan shows.                                                          *)

\* A result that is the whole of what was asked.
Covers(out) ==
  LET asked == Named(req.spec)
  IN  /\ out.done = Cardinality(asked) /\ out.total = Cardinality(asked)
      /\ Len(out.open) + out.closed + out.filtered = Cardinality(asked)
      /\ Range(out.open) \subseteq asked
      /\ \A i, j \in DOMAIN out.open : i < j => out.open[i] < out.open[j]

Scanners == 1 .. ScanConcurrency
Pooled == worker.pc = "scope"

\* Who runs: a job has not ended as long as its thread is there, and the scanners
\* are there only while the thread waits for them.
Running ==
  /\ ui.job \in BOOLEAN /\ slot.done \in BOOLEAN
  /\ worker.pc # "idle" =>
       /\ ui.job /\ ~slot.done
       /\ req \in Requests /\ (req.action = "scan" => Ports # <<>>)
  /\ worker.pc \notin {"idle", "scope"} => \A i \in Scanners : scanners[i].pc = "off"
  /\ ~Pooled => \A i \in Scanners : scanners[i].pc \in {"off", "end"}

\* The ports that have been given out, and the scanners that hold one.
Given == {Ports[k] : k \in {j \in 1 .. Total : j <= sweep.cursor}}
Probing == {i \in Scanners : scanners[i].pc = "probe"}

\* Each open port and each port under way was given out, and is in one place only.
Apart ==
  LET open == sweep.progress.open
  IN  /\ \A i \in Probing : scanners[i].port \in Given
      /\ \A j \in DOMAIN open : open[j] \in Given
      /\ \A i, j \in Probing : scanners[i].port = scanners[j].port => i = j
      /\ \A j, k \in DOMAIN open : open[j] = open[k] => j = k
      /\ \A i \in Probing : \A j \in DOMAIN open : scanners[i].port # open[j]

\* What is done and what is under way is what was given out.
Counted(p) ==
  /\ p = [kind |-> "scan", done |-> p.done, total |-> Total, open |-> p.open,
          closed |-> p.closed, filtered |-> p.filtered]
  /\ p.done \in Nat /\ p.closed \in Nat /\ p.filtered \in Nat /\ p.open \in Seq(Nat)
  /\ Len(p.open) + p.closed + p.filtered = p.done
  /\ p.done + Cardinality(Probing) = IF sweep.cursor <= Total THEN sweep.cursor ELSE Total

Sweeping ==
  Pooled =>
    /\ Ports # <<>> /\ sweep.cursor \in Nat /\ sweep.spawned \in 0 .. Workers
    /\ Counted(sweep.progress) /\ Apart
    /\ \A i \in Scanners : /\ scanners[i].pc = "off" <=> i > sweep.spawned
                           /\ scanners[i].pc = "end" => sweep.cursor >= Total

Shows ==
  /\ slot.done /\ slot.latest.kind = "scan" => Covers(slot.latest)
  /\ ~ui.job /\ ui.last.kind = "scan" => Covers(ui.last)

ScanInv == AnswerInv /\ Running /\ Sweeping /\ Shows

\* A frame leaves the job alone, or takes its result, or starts one when there is
\* none.
LEMMA FrameShows ==
  ASSUME Shapes, NEW entry \in Entries \cup {"no"}, Frame(entry)
  PROVE  \/ /\ UNCHANGED <<req, worker, sweep, scanners>>
            /\ slot'.done = slot.done /\ slot'.latest \in {slot.latest, None}
            /\ \/ ui'.job = ui.job /\ ui'.last \in {ui.last, Err}
               \/ ui.job /\ ui'.job \in {TRUE, ~slot.done} /\ ui'.last \in {slot.latest, Err}
         \/ /\ ~(ui.job /\ ~slot.done)
            /\ ui'.job = TRUE /\ ui'.last = None
            /\ req' \in Requests /\ (req'.action = "scan" => ParsePorts(req'.spec) # <<>>)
            /\ \/ worker' = [Idle EXCEPT !.pc = "start"]
                    /\ slot' = [latest |-> None, done |-> FALSE]
               \/ worker' = Idle /\ slot' = [latest |-> Err, done |-> TRUE]
            /\ sweep' = NoSweep /\ scanners' = Resting
<1>0. (slot.done /\ slot.latest # ui.last) \in BOOLEAN
  OBVIOUS
<1>10. PICK late \in BOOLEAN : Drawn(Shown(late, entry), entry)
  BY <1>0 DEF Frame
<1> DEFINE s == Seeded(ui)
           c == Collected(s, late)
           u == Edited(c, entry)
<1>4. u = Shown(late, entry)
  BY DEF Shown
<1>1. Widgets(s) /\ s.last = ui.last /\ s.job = ui.job
  BY DEF Shapes, Widgets, Seeded
<1> HIDE DEF s
<1>2. /\ Widgets(c)
      /\ \/ c.job = ui.job /\ c.last = ui.last
         \/ ui.job /\ c.job = (~slot.done \/ late) /\ c.last = slot.latest
  BY <1>1 DEF Collected, Widgets
<1> HIDE DEF c
<1>3. /\ Widgets(u)
      /\ \/ u.job = ui.job /\ u.last = ui.last
         \/ ui.job /\ u.job = (~slot.done \/ late) /\ u.last = slot.latest
  BY <1>2 DEF Edited, Widgets
<1> HIDE DEF u
<1>5. \/ /\ ui' \in {u, [u EXCEPT !.last = Err]}
         /\ slot' \in {slot, [slot EXCEPT !.latest = None]}
         /\ UNCHANGED <<req, worker, sweep, scanners>>
      \/ \E r \in Requests :
           /\ ~u.job /\ ~Refused(r, u.server)
           /\ ui' = [u EXCEPT !.job = TRUE, !.last = None] /\ Spawn(r)
  BY <1>4, <1>10 DEF Drawn
<1>6. CASE /\ ui' \in {u, [u EXCEPT !.last = Err]}
           /\ slot' \in {slot, [slot EXCEPT !.latest = None]}
           /\ UNCHANGED <<req, worker, sweep, scanners>>
  <2>1. ui'.job = u.job /\ ui'.last \in {u.last, Err}
    BY <1>3, <1>6 DEF Widgets
  <2>2. slot'.done = slot.done /\ slot'.latest \in {slot.latest, None}
    BY <1>6 DEF Shapes
  <2> QED
    BY <1>3, <1>6, <2>1, <2>2
<1>7. CASE \E r \in Requests :
             /\ ~u.job /\ ~Refused(r, u.server)
             /\ ui' = [u EXCEPT !.job = TRUE, !.last = None] /\ Spawn(r)
  <2>1. PICK r \in Requests : /\ ~u.job /\ ~Refused(r, u.server)
                              /\ ui' = [u EXCEPT !.job = TRUE, !.last = None] /\ Spawn(r)
    BY <1>7
  <2>2. ui'.job = TRUE /\ ui'.last = None
    BY <1>3, <2>1 DEF Widgets
  <2>3. /\ req' = r /\ sweep' = NoSweep /\ scanners' = Resting
        /\ \/ worker' = [Idle EXCEPT !.pc = "start"]
                /\ slot' = [latest |-> None, done |-> FALSE]
           \/ worker' = Idle /\ slot' = [latest |-> Err, done |-> TRUE]
    BY <2>1 DEF Spawn
  <2>4. req'.action = "scan" => ParsePorts(req'.spec) # <<>>
    BY <2>1, <2>3 DEF Refused
  <2>5. ~(ui.job /\ ~slot.done)
    BY <1>3, <2>1
  <2> QED
    BY <2>1, <2>2, <2>3, <2>4, <2>5
<1> QED
  BY <1>5, <1>6, <1>7

\* Errors and the empty slot are no result of a scan.
LEMMA NoScan == None.kind # "scan" /\ Err.kind # "scan"
BY DEF None, Err

LEMMA FramesKeepScan ==
  ASSUME ScanInv, NEW entry \in Entries \cup {"no"}, Frame(entry)
  PROVE  Running' /\ Sweeping' /\ Shows'
<1>0. Shapes /\ Running /\ Sweeping /\ Shows
  BY DEF ScanInv, AnswerInv
<1>1. CASE /\ UNCHANGED <<req, worker, sweep, scanners>>
           /\ slot'.done = slot.done /\ slot'.latest \in {slot.latest, None}
           /\ \/ ui'.job = ui.job /\ ui'.last \in {ui.last, Err}
              \/ ui.job /\ ui'.job \in {TRUE, ~slot.done} /\ ui'.last \in {slot.latest, Err}
  <2>1. Running'
    BY <1>0, <1>1 DEF Running, Pooled, Ports
  <2>2. Sweeping'
    BY <1>0, <1>1 DEF Sweeping, Pooled, Ports, Total, Workers, Counted, Apart, Probing, Given
  <2>3. \A out : Covers(out)' <=> Covers(out)
    BY <1>1 DEF Covers
  <2>4. slot'.done /\ slot'.latest.kind = "scan" => Covers(slot'.latest)
    BY <1>0, <1>1, NoScan DEF Shows
  <2>5. ~ui'.job /\ ui'.last.kind = "scan" => Covers(ui'.last)
    BY <1>0, <1>1, NoScan DEF Shows, Running
  <2>6. Shows'
    BY <1>1, <2>4, <2>5 DEF Shows, Covers
  <2> QED
    BY <2>1, <2>2, <2>6
<1>2. CASE /\ ~(ui.job /\ ~slot.done)
           /\ ui'.job = TRUE /\ ui'.last = None
           /\ req' \in Requests /\ (req'.action = "scan" => ParsePorts(req'.spec) # <<>>)
           /\ \/ worker' = [Idle EXCEPT !.pc = "start"]
                   /\ slot' = [latest |-> None, done |-> FALSE]
              \/ worker' = Idle /\ slot' = [latest |-> Err, done |-> TRUE]
           /\ sweep' = NoSweep /\ scanners' = Resting
  <2>1. \A i \in Scanners : scanners'[i].pc = "off"
    BY <1>2 DEF Resting, Scanners
  <2>2. \/ worker'.pc = "start" /\ slot'.done = FALSE
        \/ worker'.pc = "idle" /\ slot'.done = TRUE /\ slot'.latest = Err
    BY <1>2 DEF Idle
  <2>3. Running'
    BY <1>2, <2>1, <2>2 DEF Running, Pooled, Ports
  <2>4. Sweeping' /\ Shows'
    BY <1>2, <2>2, NoScan DEF Sweeping, Shows, Pooled
  <2> QED
    BY <2>3, <2>4
<1> QED
  BY <1>0, <1>1, <1>2, FrameShows

-----------------------------------------------------------------------------
(* The jobs that are no scan.                                                  *)

\* The end of a job that has no scanners.
LEMMA FinishShows ==
  ASSUME ScanInv, NEW out, Finish(out), out.kind = "scan" => Covers(out),
         UNCHANGED scanners, \A i \in Scanners : scanners[i].pc \in {"off", "end"}
  PROVE  Running' /\ Sweeping' /\ Shows'
<1>1. /\ worker'.pc = "idle" /\ slot' = [latest |-> out, done |-> TRUE]
      /\ UNCHANGED <<ui, req>>
  BY DEF Finish, Idle
<1>2. Running /\ Shows
  BY DEF ScanInv
<1>3. Running' /\ Sweeping'
  BY <1>1, <1>2 DEF Running, Sweeping, Pooled
<1>4. Shows'
  BY <1>1, <1>2 DEF Shows, Covers
<1> QED
  BY <1>3, <1>4

\* A step of a job that has not started a scan.
LEMMA AloneKeeps ==
  ASSUME ScanInv, worker.pc \notin {"idle", "scope"}, worker'.pc \notin {"idle", "scope"},
         UNCHANGED <<ui, slot, req, scanners>>
  PROVE  Running' /\ Sweeping' /\ Shows'
<1>1. Running /\ Shows
  BY DEF ScanInv
<1>2. Running' /\ Sweeping'
  BY <1>1 DEF Running, Sweeping, Pooled, Ports
<1>3. Shows'
  BY <1>1 DEF Shows, Covers
<1> QED
  BY <1>2, <1>3

LEMMA LookupKeepsScan ==
  ASSUME ScanInv, Lookup \/ Intel
  PROVE  Running' /\ Sweeping' /\ Shows'
<1>0. Shapes /\ Running /\ UNCHANGED <<ui, req>>
  BY JobsLeaveWidget DEF ScanInv, AnswerInv, Jobs
<1>1. worker.pc \notin {"idle", "scope"} /\ UNCHANGED scanners
  BY DEF Lookup, Intel, StartLookup, UdpTimesOut, TcpFails, Parse, RecvUdp, RecvTcp
<1>2. \A i \in Scanners : scanners[i].pc = "off"
  BY <1>0, <1>1 DEF Running
<1>3. ASSUME NEW out, Finish(out), out.kind # "scan" PROVE Running' /\ Sweeping' /\ Shows'
  BY <1>1, <1>2, <1>3, FinishShows
<1>4. ASSUME UNCHANGED slot, worker'.pc \notin {"idle", "scope"}
      PROVE  Running' /\ Sweeping' /\ Shows'
  BY <1>0, <1>1, <1>4, AloneKeeps
<1>5. CASE Intel
  <2>1. PICK out : Finish(out) /\ out.kind # "scan"
    <3>1. CASE Finish(Err)
      BY <3>1, NoScan
    <3>2. CASE ~Finish(Err)
      <4>1. PICK found, notes : Finish([kind |-> "intel", found |-> found, notes |-> notes])
        BY <1>5, <3>2 DEF Intel
      <4>2. [kind |-> "intel", found |-> found, notes |-> notes].kind # "scan"
        OBVIOUS
      <4> QED
        BY <4>1, <4>2
    <3> QED
      BY <3>1, <3>2
  <2> QED
    BY <1>3, <2>1
<1>6. CASE Lookup
  <2>1. CASE StartLookup
    <3>1. CASE Finish(Err)
      BY <1>3, <3>1, NoScan
    <3>2. CASE Goto("udp")
      BY <1>0, <1>4, <3>2 DEF Goto, Shapes
    <3> QED
      BY <2>1, <3>1, <3>2 DEF StartLookup
  <2>2. CASE UdpTimesOut
    BY <1>3, <2>2, NoScan DEF UdpTimesOut
  <2>3. CASE TcpFails
    BY <1>0, <1>4, <2>3 DEF TcpFails, Shapes
  <2>4. CASE Parse
    <3>1. PICK parsed : parsed = ParseResponse(worker.bytes)
      OBVIOUS
    <3>2. CASE parsed = Err
      BY <1>3, <2>4, <3>1, <3>2, NoScan DEF Parse
    <3>3. CASE parsed # Err
      <4>1. PICK out : out = [kind |-> "dns", from |-> parsed.from, answers |-> parsed.answers,
                      notes |-> ({worker.note} \ {"no"})
                                  \cup (IF parsed.capped THEN {"capped"} ELSE {})]
        OBVIOUS
      <4>2. Finish(out)
        BY <2>4, <3>1, <3>3, <4>1 DEF Parse
      <4>3. out.kind # "scan"
        BY <4>1
      <4> QED
        BY <1>3, <4>2, <4>3
    <3> QED
      BY <3>2, <3>3
  <2>5. CASE \E m \in Messages : RecvUdp(m) \/ RecvTcp(m)
    <3>1. PICK m \in Messages : RecvUdp(m) \/ RecvTcp(m)
      BY <2>5
    <3>2. CASE RecvUdp(m)
      <4>1. PICK pc \in {"tcp", "parse"} : worker' = [worker EXCEPT !.bytes = m, !.pc = pc]
        BY <3>2 DEF RecvUdp
      <4>2. UNCHANGED slot /\ worker'.pc = pc
        BY <1>0, <3>2, <4>1 DEF RecvUdp, Shapes
      <4> QED
        BY <1>4, <4>1, <4>2
    <3>3. CASE RecvTcp(m)
      BY <1>4, <3>3 DEF RecvTcp
    <3> QED
      BY <3>1, <3>2, <3>3
  <2> QED
    BY <1>6, <2>1, <2>2, <2>3, <2>4, <2>5 DEF Lookup
<1> QED
  BY <1>5, <1>6

-----------------------------------------------------------------------------
(* The scan.                                                                   *)

\* The numbers of a scan that is under way.
LEMMA ScanFacts ==
  ASSUME ScanInv, Pooled
  PROVE  /\ Total \in Nat \ {0} /\ Workers \in Nat \ {0} /\ Workers <= ScanConcurrency
         /\ Cardinality(Named(req.spec)) = Total /\ Named(req.spec) \in SUBSET Nat
         /\ Ports \in [1 .. Total -> Named(req.spec)]
         /\ \A j, k \in 1 .. Total : Ports[j] = Ports[k] => j = k
         /\ IsFiniteSet(Probing) /\ Cardinality(Probing) \in Nat
         /\ ScanConcurrency \in Nat
<1>1. req \in Requests /\ Ports # <<>>
  BY DEF ScanInv, Running, Sweeping, Pooled
<1>2. req.spec \in Specs
  BY <1>1, RequestAssumption DEF Specs
<1>3. /\ Total \in Nat \ {0} /\ Cardinality(Named(req.spec)) = Total
      /\ Named(req.spec) \in SUBSET Nat /\ Ports \in [1 .. Total -> Named(req.spec)]
      /\ \A j, k \in 1 .. Total : Ports[j] = Ports[k] => j = k
  BY <1>1, <1>2, PortsAre DEF Ports, Total
<1>4. ScanConcurrency \in Nat \ {0}
  BY ProbeAssumption
<1>5. Workers = IF ScanConcurrency <= Total THEN ScanConcurrency ELSE Total
  BY <1>3, <1>4, LesserOf DEF Workers
<1>6. Workers \in Nat \ {0} /\ Workers <= ScanConcurrency
  BY <1>3, <1>4, <1>5
<1>7. IsFiniteSet(Probing) /\ Cardinality(Probing) \in Nat
  <2>1. \A p \in Int : IsFiniteSet(1 .. p)
    BY FS_Interval
  <2>2. IsFiniteSet(Scanners)
    BY <1>4, <2>1 DEF Scanners
  <2>3. Probing \in SUBSET Scanners
    BY DEF Probing
  <2> QED
    BY <2>2, <2>3, FS_Subset, FS_CardinalityType
<1> QED
  BY <1>3, <1>4, <1>6, <1>7

\* As long as the pool is there, nothing is shown as finished.
LEMMA PoolKeeps ==
  ASSUME ScanInv, Pooled, UNCHANGED <<ui, req>>, slot'.done = slot.done, Pooled'
  PROVE  Running' /\ Shows'
<1>1. Running /\ ui.job /\ ~slot.done /\ worker.pc # "idle" /\ worker'.pc # "idle"
  BY DEF ScanInv, Running, Pooled
<1>2. Running'
  BY <1>1 DEF Running, Pooled, Ports
<1>3. Shows'
  BY <1>1 DEF Shows
<1> QED
  BY <1>2, <1>3

\* Nobody probes, and nobody has: the scan begins.
LEMMA StartKeeps ==
  ASSUME ScanInv, StartScan
  PROVE  Running' /\ Sweeping' /\ Shows'
<1>0. Shapes /\ Running /\ worker.pc = "start" /\ req.action = "scan" /\ UNCHANGED scanners
  BY DEF ScanInv, AnswerInv, StartScan
<1>1. /\ \A i \in Scanners : scanners[i].pc = "off"
      /\ ui.job /\ ~slot.done /\ req \in Requests /\ Ports # <<>>
  BY <1>0 DEF Running
<1>2. CASE Finish(Err)
  BY <1>0, <1>1, <1>2, NoScan, FinishShows
<1>3. CASE /\ Goto("scope")
           /\ sweep' = [NoSweep EXCEPT !.progress =
                [kind |-> "scan", done |-> 0, total |-> Total,
                 open |-> <<>>, closed |-> 0, filtered |-> 0]]
  <2>1. worker'.pc = "scope" /\ UNCHANGED <<ui, slot, req>>
    BY <1>0, <1>3 DEF Goto, Shapes
  <2>2. Running' /\ Shows'
    BY <1>0, <1>1, <2>1 DEF Running, Shows, Pooled, Ports
  <2>3. /\ Ports' = Ports /\ Total' = Total /\ Workers' = Workers
    BY <2>1 DEF Ports, Total, Workers
  <2>4. Total \in Nat /\ Workers \in Nat
    <3>1. Total \in Nat
      BY <1>1, RequestAssumption, PortsAre DEF Ports, Total, Specs
    <3> QED
      BY <3>1, ProbeAssumption, LesserOf DEF Workers
  <2>5. PICK p : p = [kind |-> "scan", done |-> 0, total |-> Total,
                      open |-> <<>>, closed |-> 0, filtered |-> 0]
    OBVIOUS
  <2>6. sweep'.cursor = 0 /\ sweep'.spawned = 0 /\ sweep'.progress = p
    BY <1>3, <2>5 DEF NoSweep
  <2>7. Probing' = {} /\ Cardinality({}) = 0
    BY <1>0, <1>1, FS_EmptySet DEF Probing
  <2>8. Counted(sweep.progress)'
    BY <2>3, <2>4, <2>5, <2>6, <2>7 DEF Counted
  <2>9. Apart'
    <3>1. DOMAIN p.open = {}
      BY <2>5
    <3> QED
      BY <2>6, <2>7, <3>1 DEF Apart
  <2>10. ASSUME NEW i \in Scanners
         PROVE  /\ scanners'[i].pc = "off" <=> i > 0
                /\ scanners'[i].pc # "end"
    BY <1>0, <1>1, <2>10 DEF Scanners
  <2>11. Sweeping'
    BY <1>1, <2>3, <2>4, <2>6, <2>8, <2>9, <2>10 DEF Sweeping, Scanners
  <2> QED
    BY <2>2, <2>11
<1> QED
  BY <1>2, <1>3 DEF StartScan

\* A scanner, and the scan's record, in the form AnswerInv gives them.
LEMMA Forms ==
  ASSUME ScanInv
  PROVE  /\ Shapes /\ DOMAIN scanners = Scanners
         /\ sweep = [cursor |-> sweep.cursor, spawned |-> sweep.spawned, progress |-> sweep.progress]
         /\ \A i \in Scanners :
              scanners[i] = [pc |-> scanners[i].pc, port |-> scanners[i].port,
                             snap |-> scanners[i].snap]
BY DEF ScanInv, AnswerInv, Scanners

LEMMA SpawnKeeps ==
  ASSUME ScanInv, SpawnScanner
  PROVE  Running' /\ Sweeping' /\ Shows'
<1>0. /\ worker.pc = "scope" /\ sweep.spawned < Workers /\ Pooled
      /\ sweep' = [sweep EXCEPT !.spawned = @ + 1]
      /\ scanners' = [scanners EXCEPT ![sweep.spawned + 1].pc = "next"]
      /\ UNCHANGED <<ui, slot, req, worker>>
  BY DEF SpawnScanner, Pooled
<1>1. Running' /\ Shows'
  BY <1>0, PoolKeeps DEF Pooled
<1>2. PICK n : n = sweep.spawned
  OBVIOUS
<1>3. /\ Ports # <<>> /\ sweep.cursor \in Nat /\ n \in 0 .. Workers
      /\ Counted(sweep.progress) /\ Apart
      /\ \A i \in Scanners : /\ scanners[i].pc = "off" <=> i > n
                             /\ scanners[i].pc = "end" => sweep.cursor >= Total
  BY <1>0, <1>2 DEF ScanInv, Sweeping
<1>4. Workers \in Nat /\ Workers <= ScanConcurrency /\ ScanConcurrency \in Nat
  BY <1>0, ScanFacts
<1>5. n + 1 \in Scanners /\ n + 1 \in 0 .. Workers /\ scanners[n + 1].pc = "off"
  BY <1>0, <1>2, <1>3, <1>4 DEF Scanners
<1>6. /\ scanners'[n + 1].pc = "next" /\ scanners'[n + 1].port = scanners[n + 1].port
      /\ \A i \in Scanners : i # n + 1 => scanners'[i] = scanners[i]
  BY <1>0, <1>2, <1>5, Forms
<1>7. sweep'.cursor = sweep.cursor /\ sweep'.progress = sweep.progress /\ sweep'.spawned = n + 1
  BY <1>0, <1>2, Forms
<1>8. Ports' = Ports /\ Total' = Total /\ Workers' = Workers /\ Given' = Given
  BY <1>0, <1>7 DEF Ports, Total, Workers, Given
<1>9. Probing' = Probing /\ \A i \in Probing : scanners'[i] = scanners[i]
  BY <1>5, <1>6 DEF Probing
<1>10. Counted(sweep.progress)'
  BY <1>3, <1>7, <1>8, <1>9 DEF Counted
<1>11. Apart'
  BY <1>3, <1>7, <1>8, <1>9 DEF Apart
<1>12. ASSUME NEW i \in Scanners
       PROVE  /\ scanners'[i].pc = "off" <=> i > n + 1
              /\ scanners'[i].pc = "end" => sweep'.cursor >= Total'
  <2>1. i \in Nat /\ n \in Nat
    BY <1>3, <1>4 DEF Scanners
  <2> QED
    BY <1>3, <1>6, <1>7, <1>8, <2>1
<1>13. Sweeping'
  BY <1>3, <1>5, <1>7, <1>8, <1>10, <1>11, <1>12 DEF Sweeping
<1> QED
  BY <1>1, <1>13

\* The next port goes to nobody else.
LEMMA NextKeeps ==
  ASSUME ScanInv, NEW i \in Scanners, NextPort(i)
  PROVE  Running' /\ Sweeping' /\ Shows'
<1>0. /\ scanners[i].pc = "next"
      /\ sweep' = [sweep EXCEPT !.cursor = @ + 1]
      /\ scanners' = [scanners EXCEPT ![i] =
           IF sweep.cursor < Total
           THEN [scanners[i] EXCEPT !.pc = "probe", !.port = Ports[sweep.cursor + 1]]
           ELSE [scanners[i] EXCEPT !.pc = "end"]]
      /\ UNCHANGED <<ui, slot, req, worker>>
  BY DEF NextPort
<1>1. Pooled
  BY <1>0 DEF ScanInv, Running
<1>2. Running' /\ Shows'
  BY <1>0, <1>1, PoolKeeps DEF Pooled
<1>3. /\ Ports # <<>> /\ sweep.cursor \in Nat /\ sweep.spawned \in 0 .. Workers
      /\ Counted(sweep.progress) /\ Apart
      /\ \A j \in Scanners : /\ scanners[j].pc = "off" <=> j > sweep.spawned
                             /\ scanners[j].pc = "end" => sweep.cursor >= Total
  BY <1>1 DEF ScanInv, Sweeping
<1>4. PICK n : n = sweep.cursor
  OBVIOUS
<1>5. /\ Total \in Nat /\ Ports \in [1 .. Total -> Named(req.spec)]
      /\ \A j, k \in 1 .. Total : Ports[j] = Ports[k] => j = k
      /\ IsFiniteSet(Probing) /\ Cardinality(Probing) \in Nat
  BY <1>1, ScanFacts
<1>6. sweep'.cursor = n + 1 /\ sweep'.progress = sweep.progress /\ sweep'.spawned = sweep.spawned
  BY <1>0, <1>4, Forms
<1>7. Ports' = Ports /\ Total' = Total /\ Workers' = Workers
  BY <1>0 DEF Ports, Total, Workers
<1>8. \A j \in Scanners : j # i => scanners'[j] = scanners[j]
  BY <1>0, Forms
<1>9. PICK p : p = sweep.progress
  OBVIOUS
<1>10. n \in Nat /\ p.done \in Nat
  BY <1>3, <1>4, <1>9 DEF Counted
<1>11. CASE n < Total
  <2>1. scanners'[i].pc = "probe" /\ scanners'[i].port = Ports[n + 1]
    <3>1. scanners'[i] = [scanners[i] EXCEPT !.pc = "probe", !.port = Ports[n + 1]]
      BY <1>0, <1>4, <1>11, Forms
    <3> QED
      BY <3>1, Forms
  <2>2. Probing' = Probing \cup {i} /\ i \notin Probing
    BY <1>0, <1>8, <2>1 DEF Probing
  <2>3. Cardinality(Probing') = Cardinality(Probing) + 1
    BY <1>5, <2>2, FS_AddElement
  <2>4. Ports[n + 1] \notin Given /\ Ports[n + 1] \in Given' /\ Given \subseteq Given'
    <3>1. n + 1 \in 1 .. Total /\ \A k \in 1 .. Total : k <= n => k # n + 1 /\ k <= n + 1
      BY <1>5, <1>10, <1>11
    <3>2. Given = {Ports[k] : k \in {j \in 1 .. Total : j <= n}}
      BY <1>4 DEF Given
    <3>3. Given' = {Ports[k] : k \in {j \in 1 .. Total : j <= n + 1}}
      BY <1>6, <1>7 DEF Given
    <3>4. n + 1 <= n + 1
      BY <1>10
    <3> QED
      BY <1>5, <3>1, <3>2, <3>3, <3>4
  <2>5. Counted(sweep.progress)'
    <3>1. /\ p = [kind |-> "scan", done |-> p.done, total |-> Total, open |-> p.open,
                  closed |-> p.closed, filtered |-> p.filtered]
          /\ p.done \in Nat /\ p.closed \in Nat /\ p.filtered \in Nat /\ p.open \in Seq(Nat)
          /\ Len(p.open) + p.closed + p.filtered = p.done
          /\ p.done + Cardinality(Probing) = IF n <= Total THEN n ELSE Total
      BY <1>3, <1>4, <1>9 DEF Counted
    <3>2. p.done + Cardinality(Probing') = IF n + 1 <= Total THEN n + 1 ELSE Total
      BY <1>5, <1>10, <1>11, <2>3, <3>1
    <3> QED
      BY <1>6, <1>7, <1>9, <3>1, <3>2 DEF Counted
  <2>6. Apart'
    BY <1>3, <1>6, <1>8, <2>1, <2>2, <2>4 DEF Apart, Probing
  <2>7. ASSUME NEW j \in Scanners
        PROVE  /\ scanners'[j].pc = "off" <=> j > sweep'.spawned
               /\ scanners'[j].pc = "end" => sweep'.cursor >= Total'
    BY <1>0, <1>3, <1>4, <1>5, <1>6, <1>7, <1>8, <1>10, <2>1
  <2>8. Sweeping'
    BY <1>3, <1>6, <1>7, <1>10, <2>5, <2>6, <2>7 DEF Sweeping
  <2> QED
    BY <1>2, <2>8
<1>12. CASE ~(n < Total)
  <2>1. scanners'[i].pc = "end"
    BY <1>0, <1>4, <1>12, Forms
  <2>2. Probing' = Probing /\ \A j \in Probing : scanners'[j] = scanners[j]
    BY <1>0, <1>8, <2>1 DEF Probing
  <2>3. Given' = Given
    <3>1. \A k \in 1 .. Total : k <= n /\ k <= n + 1
      BY <1>5, <1>10, <1>12
    <3> QED
      BY <1>4, <1>6, <1>7, <3>1 DEF Given
  <2>4. Counted(sweep.progress)'
    <3>1. (IF n <= Total THEN n ELSE Total) = IF n + 1 <= Total THEN n + 1 ELSE Total
      BY <1>5, <1>10, <1>12
    <3> QED
      BY <1>3, <1>4, <1>6, <1>7, <2>2, <3>1 DEF Counted
  <2>5. Apart'
    BY <1>3, <1>6, <2>2, <2>3 DEF Apart
  <2>6. ASSUME NEW j \in Scanners
        PROVE  /\ scanners'[j].pc = "off" <=> j > sweep'.spawned
               /\ scanners'[j].pc = "end" => sweep'.cursor >= Total'
    BY <1>0, <1>3, <1>4, <1>5, <1>6, <1>7, <1>8, <1>10, <1>12, <2>1
  <2>7. Sweeping'
    BY <1>3, <1>6, <1>7, <1>10, <2>4, <2>5, <2>6 DEF Sweeping
  <2> QED
    BY <1>2, <2>7
<1> QED
  BY <1>11, <1>12

\* A probed port moves from its scanner to the progress.
LEMMA ProbeKeeps ==
  ASSUME ScanInv, NEW i \in Scanners, NEW state \in {"Open", "Closed", "Filtered"},
         ProbePort(i, state)
  PROVE  Running' /\ Sweeping' /\ Shows'
<1>1. PICK p : p = sweep.progress
  OBVIOUS
<1>2. PICK r : r = [p EXCEPT
            !.done = @ + 1,
            !.open = IF state = "Open" THEN Append(@, scanners[i].port) ELSE @,
            !.closed = IF state = "Closed" THEN @ + 1 ELSE @,
            !.filtered = IF state = "Filtered" THEN @ + 1 ELSE @]
  OBVIOUS
<1>3. /\ scanners[i].pc = "probe"
      /\ sweep' = [sweep EXCEPT !.progress = r]
      /\ scanners' = [scanners EXCEPT ![i] = [scanners[i] EXCEPT !.pc = "publish", !.snap = r]]
      /\ UNCHANGED <<ui, slot, req, worker>>
  BY <1>1, <1>2 DEF ProbePort
<1>4. Pooled
  BY <1>3 DEF ScanInv, Running
<1>5. Running' /\ Shows'
  BY <1>3, <1>4, PoolKeeps DEF Pooled
<1>6. /\ Ports # <<>> /\ sweep.cursor \in Nat /\ sweep.spawned \in 0 .. Workers
      /\ Counted(p) /\ Apart
      /\ \A j \in Scanners : /\ scanners[j].pc = "off" <=> j > sweep.spawned
                             /\ scanners[j].pc = "end" => sweep.cursor >= Total
  BY <1>1, <1>4 DEF ScanInv, Sweeping
<1>7. PICK x : x = scanners[i].port
  OBVIOUS
<1>8. /\ p = [kind |-> "scan", done |-> p.done, total |-> Total, open |-> p.open,
              closed |-> p.closed, filtered |-> p.filtered]
      /\ p.done \in Nat /\ p.closed \in Nat /\ p.filtered \in Nat /\ p.open \in Seq(Nat)
      /\ Len(p.open) + p.closed + p.filtered = p.done
      /\ p.done + Cardinality(Probing) = IF sweep.cursor <= Total THEN sweep.cursor ELSE Total
  BY <1>6 DEF Counted
<1>9. /\ r.kind = "scan" /\ r.done = p.done + 1 /\ r.total = Total
      /\ r.open = (IF state = "Open" THEN Append(p.open, x) ELSE p.open)
      /\ r.closed = (IF state = "Closed" THEN p.closed + 1 ELSE p.closed)
      /\ r.filtered = (IF state = "Filtered" THEN p.filtered + 1 ELSE p.filtered)
      /\ r = [kind |-> "scan", done |-> r.done, total |-> Total, open |-> r.open,
              closed |-> r.closed, filtered |-> r.filtered]
  <2>1. PICK d, t, o, c, f : p = [kind |-> "scan", done |-> d, total |-> t, open |-> o,
                                  closed |-> c, filtered |-> f]
    BY <1>8
  <2>2. /\ p.done = d /\ p.total = t /\ p.open = o /\ p.closed = c /\ p.filtered = f
        /\ t = Total
    BY <1>8, <2>1
  <2>3. r = [kind |-> "scan", done |-> d + 1, total |-> t,
             open |-> IF state = "Open" THEN Append(o, x) ELSE o,
             closed |-> IF state = "Closed" THEN c + 1 ELSE c,
             filtered |-> IF state = "Filtered" THEN f + 1 ELSE f]
    BY <1>2, <1>7, <2>1
  <2> QED
    BY <2>2, <2>3
<1>10. sweep'.cursor = sweep.cursor /\ sweep'.progress = r /\ sweep'.spawned = sweep.spawned
  BY <1>3, Forms
<1>11. /\ Ports' = Ports /\ Total' = Total /\ Workers' = Workers /\ Given' = Given
  BY <1>3, <1>10 DEF Ports, Total, Workers, Given
<1>12. /\ \A j \in Scanners : j # i => scanners'[j] = scanners[j]
       /\ scanners'[i].pc = "publish"
  <2>1. scanners'[i] = [scanners[i] EXCEPT !.pc = "publish", !.snap = r]
    BY <1>3, Forms
  <2> QED
    BY <1>3, <2>1, Forms
<1>13. Probing' = Probing \ {i} /\ i \in Probing
  BY <1>3, <1>12 DEF Probing
<1>14. Cardinality(Probing') = Cardinality(Probing) - 1 /\ Cardinality(Probing) \in Nat
  BY <1>4, <1>13, ScanFacts, FS_RemoveElement
<1>15. x \in Given /\ x \in Nat
  <2>1. x \in Given
    BY <1>6, <1>7, <1>13 DEF Apart
  <2>2. Given \subseteq Named(req.spec) /\ Named(req.spec) \subseteq Nat
    BY <1>4, ScanFacts DEF Given
  <2> QED
    BY <2>1, <2>2
<1>16. PICK open : open = p.open
  OBVIOUS
<1>17. PICK more : more = r.open
  OBVIOUS
<1>18. /\ more \in Seq(Nat) /\ Len(open) \in Nat
       /\ Len(more) = IF state = "Open" THEN Len(open) + 1 ELSE Len(open)
       /\ \A j \in 1 .. Len(more) : \/ j \in 1 .. Len(open) /\ more[j] = open[j]
                                    \/ j = Len(open) + 1 /\ more[j] = x
  <2>1. CASE state = "Open"
    <3>1. more = Append(open, x) /\ open \in Seq(Nat)
      BY <1>8, <1>9, <1>16, <1>17, <2>1
    <3> QED
      BY <1>15, <2>1, <3>1
  <2>2. CASE state # "Open"
    BY <1>8, <1>9, <1>16, <1>17, <2>2
  <2> QED
    BY <2>1, <2>2
<1>19. Counted(sweep.progress)'
  <2>1. r.done \in Nat /\ r.closed \in Nat /\ r.filtered \in Nat
    BY <1>8, <1>9
  <2>2. Len(more) + r.closed + r.filtered = r.done
    BY <1>8, <1>9, <1>16, <1>18
  <2>3. r.done + Cardinality(Probing') = IF sweep.cursor <= Total THEN sweep.cursor ELSE Total
    BY <1>8, <1>9, <1>14
  <2> QED
    BY <1>9, <1>10, <1>11, <1>17, <1>18, <2>1, <2>2, <2>3 DEF Counted
<1>20. Apart'
  <2>1. /\ \A j \in Probing : scanners[j].port \in Given
        /\ \A j \in DOMAIN open : open[j] \in Given
        /\ \A j, k \in Probing : scanners[j].port = scanners[k].port => j = k
        /\ \A j, k \in DOMAIN open : open[j] = open[k] => j = k
        /\ \A j \in Probing : \A k \in DOMAIN open : scanners[j].port # open[k]
    BY <1>1, <1>6, <1>16 DEF Apart
  <2>2. DOMAIN open = 1 .. Len(open) /\ DOMAIN more = 1 .. Len(more)
    BY <1>8, <1>16, <1>18
  <2>3. \A j \in Probing' : j \in Probing /\ j # i /\ scanners'[j].port = scanners[j].port
    BY <1>12, <1>13 DEF Probing
  <2>4. \A j \in Probing' : scanners'[j].port \in Given'
    BY <1>11, <2>1, <2>3
  <2>5. \A j \in DOMAIN more : more[j] \in Given'
    BY <1>11, <1>15, <1>18, <2>1, <2>2
  <2>6. \A j, k \in Probing' : scanners'[j].port = scanners'[k].port => j = k
    BY <2>1, <2>3
  <2>7. \A k \in DOMAIN open : open[k] # x
    BY <1>7, <1>13, <2>1
  <2>8. \A j, k \in DOMAIN more : more[j] = more[k] => j = k
    BY <1>18, <2>1, <2>2, <2>7
  <2>9. \A j \in Probing' : scanners'[j].port # x
    BY <1>7, <1>13, <2>1, <2>3
  <2>10. \A j \in Probing' : \A k \in DOMAIN more : scanners'[j].port # more[k]
    BY <1>18, <2>1, <2>2, <2>3, <2>9
  <2> QED
    BY <1>10, <1>17, <2>4, <2>5, <2>6, <2>8, <2>10 DEF Apart
<1>21. ASSUME NEW j \in Scanners
       PROVE  /\ scanners'[j].pc = "off" <=> j > sweep'.spawned
              /\ scanners'[j].pc = "end" => sweep'.cursor >= Total'
  BY <1>3, <1>6, <1>10, <1>11, <1>12
<1>22. Sweeping'
  BY <1>6, <1>10, <1>11, <1>19, <1>20, <1>21 DEF Sweeping
<1> QED
  BY <1>5, <1>22

\* A copy that is published late replaces no last result: the pool is still there.
LEMMA PublishKeeps ==
  ASSUME ScanInv, NEW i \in Scanners, PublishProgress(i)
  PROVE  Running' /\ Sweeping' /\ Shows'
<1>0. /\ scanners[i].pc = "publish"
      /\ slot' = [slot EXCEPT !.latest = scanners[i].snap]
      /\ scanners' = [scanners EXCEPT ![i] = [pc |-> "next", port |-> 0, snap |-> None]]
      /\ UNCHANGED <<ui, req, worker, sweep>>
  BY DEF PublishProgress
<1>1. Pooled
  BY <1>0 DEF ScanInv, Running
<1>2. slot'.done = slot.done
  BY <1>0, Forms DEF Shapes
<1>3. Running' /\ Shows'
  BY <1>0, <1>1, <1>2, PoolKeeps DEF Pooled
<1>4. /\ \A j \in Scanners : j # i => scanners'[j] = scanners[j]
      /\ scanners'[i].pc = "next"
  BY <1>0, Forms
<1>5. Probing' = Probing /\ \A j \in Probing : scanners'[j] = scanners[j]
  BY <1>0, <1>4 DEF Probing
<1>6. Ports' = Ports /\ Total' = Total /\ Workers' = Workers /\ Given' = Given
  BY <1>0 DEF Ports, Total, Workers, Given
<1>7. Sweeping
  BY DEF ScanInv
<1>8. Counted(sweep.progress)' /\ Apart'
  BY <1>0, <1>1, <1>5, <1>6, <1>7 DEF Sweeping, Counted, Apart
<1>9. ASSUME NEW j \in Scanners
      PROVE  /\ scanners'[j].pc = "off" <=> j > sweep'.spawned
             /\ scanners'[j].pc = "end" => sweep'.cursor >= Total'
  BY <1>0, <1>1, <1>4, <1>6, <1>7 DEF Sweeping
<1>10. Sweeping'
  BY <1>0, <1>1, <1>6, <1>7, <1>8, <1>9 DEF Sweeping
<1> QED
  BY <1>3, <1>10

\* When all scanners are through, every port has been probed.
LEMMA JoinKeeps ==
  ASSUME ScanInv, Join
  PROVE  Running' /\ Sweeping' /\ Shows'
<1>1. /\ worker.pc = "scope" /\ sweep.spawned = Workers /\ Pooled
      /\ \A i \in 1 .. Workers : scanners[i].pc = "end"
      /\ UNCHANGED scanners
  BY DEF Join, Pooled
<1>2. PICK p : p = sweep.progress
  OBVIOUS
<1>3. PICK out : out = [p EXCEPT !.open = SortedByPort(@)]
  OBVIOUS
<1>4. Finish(out)
  BY <1>2, <1>3 DEF Join
<1>5. /\ Counted(p) /\ Apart /\ sweep.cursor \in Nat
      /\ \A i \in Scanners : /\ scanners[i].pc = "off" <=> i > sweep.spawned
                             /\ scanners[i].pc = "end" => sweep.cursor >= Total
  BY <1>1, <1>2 DEF ScanInv, Sweeping
<1>6. /\ Total \in Nat /\ Workers \in Nat \ {0} /\ Workers <= ScanConcurrency
      /\ Cardinality(Named(req.spec)) = Total /\ ScanConcurrency \in Nat
      /\ Ports \in [1 .. Total -> Named(req.spec)]
  BY <1>1, ScanFacts
<1>7. \A i \in Scanners : scanners[i].pc \in {"off", "end"}
  BY <1>1, <1>5, <1>6 DEF Scanners
<1>8. sweep.cursor >= Total
  <2>1. 1 \in Scanners /\ 1 \in 1 .. Workers
    BY <1>6 DEF Scanners
  <2> QED
    BY <1>1, <1>5, <2>1
<1>9. Probing = {}
  BY <1>7 DEF Probing
<1>10. /\ p = [kind |-> "scan", done |-> p.done, total |-> Total, open |-> p.open,
               closed |-> p.closed, filtered |-> p.filtered]
       /\ p.done \in Nat /\ p.closed \in Nat /\ p.filtered \in Nat /\ p.open \in Seq(Nat)
       /\ Len(p.open) + p.closed + p.filtered = p.done /\ p.done = Total
  <2>1. Cardinality(Probing) = 0
    BY <1>9, FS_EmptySet
  <2> QED
    BY <1>5, <1>6, <1>8, <2>1 DEF Counted
<1>11. PICK open : open = p.open
  OBVIOUS
<1>12. PICK list : list = SortedByPort(open)
  OBVIOUS
<1>13. /\ out.done = Total /\ out.total = Total /\ out.open = list
       /\ out.closed = p.closed /\ out.filtered = p.filtered
  BY <1>3, <1>10, <1>11, <1>12
<1>14. /\ open \in Seq(Nat) /\ DOMAIN open = 1 .. Len(open)
       /\ \A j, k \in 1 .. Len(open) : open[j] = open[k] => j = k
       /\ \A j \in 1 .. Len(open) : open[j] \in Given
  <2>1. open \in Seq(Nat) /\ DOMAIN open = 1 .. Len(open)
    BY <1>10, <1>11
  <2> QED
    BY <1>2, <1>5, <1>11, <2>1 DEF Apart
<1>15. /\ Len(list) = Len(open) /\ DOMAIN list = 1 .. Len(open) /\ Rising(list, Len(open))
       /\ \A j \in 1 .. Len(open) : \E k \in 1 .. Len(open) : list[j] = open[k]
  BY <1>12, <1>14, SortedByPortIs
<1>16. Range(list) \subseteq Named(req.spec)
  <2>1. \A j \in 1 .. Len(open) : list[j] \in Given
    BY <1>14, <1>15
  <2>2. Given \subseteq Named(req.spec)
    BY <1>6 DEF Given
  <2> QED
    BY <1>15, <2>1, <2>2 DEF Range
<1>17. Covers(out)
  BY <1>6, <1>10, <1>11, <1>13, <1>15, <1>16 DEF Covers, Rising
<1> QED
  BY <1>1, <1>4, <1>7, <1>17, FinishShows

LEMMA ScanKept == ScanInv /\ [Next]_vars => ScanInv'
<1> SUFFICES ASSUME ScanInv, [Next]_vars PROVE Running' /\ Sweeping' /\ Shows'
  BY AnswersKept DEF ScanInv
<1>1. CASE Publish \/ UNCHANGED vars
  <2>1. UNCHANGED <<ui, slot, req, worker, sweep, scanners>>
    BY <1>1 DEF Publish, vars
  <2>2. /\ Pooled' = Pooled /\ Ports' = Ports /\ Total' = Total /\ Workers' = Workers
        /\ Given' = Given /\ Probing' = Probing
    BY <2>1 DEF Pooled, Ports, Total, Workers, Given, Probing
  <2>3. Running'
    BY <2>1, <2>2 DEF ScanInv, Running
  <2>4. Sweeping'
    BY <2>1, <2>2 DEF ScanInv, Sweeping, Counted, Apart
  <2>5. Shows'
    BY <2>1 DEF ScanInv, Shows, Covers
  <2> QED
    BY <2>3, <2>4, <2>5
<1>2. CASE Frames
  BY <1>2, FramesKeepScan DEF Frames
<1>3. CASE Lookup \/ Intel
  BY <1>3, LookupKeepsScan
<1>4. CASE Scan
  <2>1. ASSUME NEW i \in Scanners, Scanner(i) PROVE Running' /\ Sweeping' /\ Shows'
    BY <2>1, NextKeeps, ProbeKeeps, PublishKeeps DEF Scanner
  <2> QED
    BY <1>4, <2>1, StartKeeps, SpawnKeeps, JoinKeeps DEF Scan, Scanners
<1> QED
  BY <1>1, <1>2, <1>3, <1>4 DEF Next

\* A scan shown as finished is the whole of what was asked: parse_ports lists each
\* port once, the cursor gives each to one scanner, none is counted twice or left
\* out, and no copy of the progress is published behind the last result.
THEOREM ScanIsWhole == Spec => []ScanCoversAsked
<1>1. Init => ScanInv
  <2> SUFFICES ASSUME Init PROVE ScanInv
    OBVIOUS
  <2>1. AnswerInv
    BY AnswersAtFirst
  <2>2. worker.pc = "idle" /\ \A i \in Scanners : scanners[i].pc = "off"
    BY DEF Init, Idle, Resting, Scanners
  <2>3. Running /\ Sweeping
    BY <2>2 DEF Init, Running, Sweeping, Pooled
  <2>4. Shows
    BY NoScan DEF Init, Shows
  <2> QED
    BY <2>1, <2>3, <2>4 DEF ScanInv
<1>2. ScanInv => ScanCoversAsked
  BY DEF ScanInv, Shows, Covers, ScanCoversAsked
<1> QED
  BY <1>1, <1>2, ScanKept, PTL DEF Spec

-----------------------------------------------------------------------------
(* Numbers and sums                                                        *)

LEMMA MinOfTwo ==
  ASSUME NEW a \in Int, NEW b \in Int
  PROVE  Min({a, b}) = IF a <= b THEN a ELSE b
<1> DEFINE m == IF a <= b THEN a ELSE b
<1>1. m \in {a, b} /\ \A y \in {a, b} : m <= y
  OBVIOUS
<1>2. \A x \in {a, b} : (\A y \in {a, b} : x <= y) => x = m
  OBVIOUS
<1> HIDE DEF m
<1>3. Min({a, b}) = m
  BY <1>1, <1>2 DEF Min
<1> QED
  BY <1>3 DEF m

LEMMA AtLeastIs ==
  ASSUME NEW a \in Int, NEW b \in Int
  PROVE  AtLeast(a, b) = IF a >= b THEN a ELSE b
<1> DEFINE m == IF a >= b THEN a ELSE b
<1>1. m \in {a, b} /\ \A y \in {a, b} : m >= y
  OBVIOUS
<1>2. \A x \in {a, b} : (\A y \in {a, b} : x >= y) => x = m
  OBVIOUS
<1> HIDE DEF m
<1>3. Max({a, b}) = m
  BY <1>1, <1>2 DEF Max
<1> QED
  BY <1>3 DEF m, AtLeast

\* A quotient rounded down.
LEMMA Quotient ==
  ASSUME NEW a \in Nat, NEW d \in Nat \ {0}
  PROVE  a \div d \in Nat /\ d * (a \div d) <= a /\ a < d * (a \div d) + d
OBVIOUS

\* A quotient is the greatest number that goes into the dividend.
LEMMA QuotientReaches ==
  ASSUME NEW a \in Nat, NEW d \in Nat \ {0}, NEW q \in Nat, d * q <= a
  PROVE  q <= a \div d
<1>1. a \div d \in Nat /\ a < d * (a \div d) + d
  BY Quotient
<1>2. PICK r \in Nat : r = a \div d
  BY <1>1
<1>3. ASSUME r < q PROVE FALSE
  <2>1. d * (r + 1) <= d * q
    BY <1>3
  <2>2. d * (r + 1) = d * r + d
    OBVIOUS
  <2>3. d * q \in Int /\ d * r \in Int
    OBVIOUS
  <2> QED
    BY <1>1, <1>2, <2>1, <2>2, <2>3
<1> QED
  BY <1>2, <1>3

LEMMA Positive ==
  ASSUME NEW a \in Int, NEW d \in Nat \ {0}, 0 < d * a
  PROVE  0 < a
<1>1. ASSUME a <= 0 PROVE d * a <= 0
  BY <1>1
<1> QED
  BY <1>1

LEMMA SumNat ==
  ASSUME NEW U, IsFiniteSet(U), NEW g \in [U -> Nat]
  PROVE  SumOf(g) \in Nat
<1>1. Summed(g) \in Nat
  BY TotalNat
<1> QED
  BY <1>1 DEF SumOf, Summed

\* The sums of what add up add up.
AreSums(h, U, f, g) == \A x \in U : h[x] = f[x] + g[x]
SumsUp(h, f, g) == SumOf(h) = SumOf(f) + SumOf(g)

LEMMA SumsAdd ==
  ASSUME NEW U, IsFiniteSet(U), NEW f \in [U -> Nat], NEW g \in [U -> Nat], NEW h \in [U -> Nat],
         AreSums(h, U, f, g)
  PROVE  SumsUp(h, f, g)
<1>1. Summed(f) \in Nat /\ Summed(g) \in Nat /\ Summed(h) \in Nat /\ Cardinality(U) \in Nat
  BY TotalNat, FS_CardinalityType
<1>2. Outweighs(U, f, g, h, 1, 1, -1, 0)
  <2>1. Weighs(U, f, g, h, 1, 1, -1, 0)
    BY DEF AreSums, Weighs
  <2> QED
    BY <2>1, SumsWeigh
<1>3. Outweighs(U, f, g, h, -1, -1, 1, 0)
  <2>1. Weighs(U, f, g, h, -1, -1, 1, 0)
    BY DEF AreSums, Weighs
  <2> QED
    BY <2>1, SumsWeigh
<1>4. Summed(h) = Summed(f) + Summed(g)
  BY <1>1, <1>2, <1>3 DEF Outweighs
<1> QED
  BY <1>4 DEF SumsUp, SumOf, Summed

\* Terms of zero may be left out.
Supports(h, P, U, g) == P \subseteq U /\ h = [x \in P |-> g[x]] /\ \A x \in U \ P : g[x] = 0

LEMMA SumOfPart ==
  ASSUME NEW U, IsFiniteSet(U), NEW g \in [U -> Nat], NEW P, NEW h, Supports(h, P, U, g)
  PROVE  SumOf(g) = SumOf(h)
<1>1. P \in SUBSET U /\ h = [x \in P |-> g[x]] /\ \A x \in U \ P : g[x] = 0
  BY DEF Supports
<1>2. Summed(g) = Summed(h)
  BY <1>1, SumOfSupport
<1> QED
  BY <1>2 DEF SumOf, Summed

\* A sum of terms that are all at least, or all at most, c.
AllAtLeast(g, U, c) == \A x \in U : g[x] >= c
AllAre(g, U, c) == \A x \in U : g[x] = c

LEMMA SumAtLeast ==
  ASSUME NEW U, IsFiniteSet(U), NEW g \in [U -> Nat], NEW c \in Nat, AllAtLeast(g, U, c)
  PROVE  SumOf(g) >= c * Cardinality(U)
<1>1. Summed(g) \in Nat /\ Cardinality(U) \in Nat
  BY TotalNat, FS_CardinalityType
<1>2. Outweighs(U, g, g, g, 1, 0, 0, -c)
  <2>1. Weighs(U, g, g, g, 1, 0, 0, -c)
    BY DEF AllAtLeast, Weighs
  <2>2. -c \in Int
    OBVIOUS
  <2> QED
    BY <2>1, <2>2, SumsWeigh
<1>3. PICK n \in Nat : n = Cardinality(U)
  BY <1>1
<1>4. PICK s \in Nat : s = Summed(g)
  BY <1>1
<1>5. 0 <= s - c * n
  <2>1. (-c) * n = -(c * n) /\ c * n \in Nat
    OBVIOUS
  <2>2. 1 * s + 0 * s + 0 * s = s
    OBVIOUS
  <2>3. 0 <= s + (-c) * n
    BY <1>2, <1>3, <1>4, <2>2 DEF Outweighs
  <2> QED
    BY <2>1, <2>3
<1>6. c * n \in Nat
  OBVIOUS
<1>7. s >= c * n
  BY <1>5, <1>6
<1> QED
  BY <1>3, <1>4, <1>7 DEF SumOf, Summed

LEMMA SumOfSame ==
  ASSUME NEW U, IsFiniteSet(U), NEW g \in [U -> Nat], NEW c \in Nat, AllAre(g, U, c)
  PROVE  SumOf(g) = c * Cardinality(U)
<1>1. Summed(g) \in Nat /\ Cardinality(U) \in Nat
  BY TotalNat, FS_CardinalityType
<1>2. Outweighs(U, g, g, g, -1, 0, 0, c)
  <2>1. Weighs(U, g, g, g, -1, 0, 0, c)
    BY DEF AllAre, Weighs
  <2> QED
    BY <2>1, SumsWeigh
<1>3. SumOf(g) >= c * Cardinality(U)
  <2>1. AllAtLeast(g, U, c)
    BY DEF AllAre, AllAtLeast
  <2> QED
    BY <2>1, SumAtLeast
<1>4. PICK n \in Nat : n = Cardinality(U)
  BY <1>1
<1>5. PICK s \in Nat : s = Summed(g)
  BY <1>1
<1>6. c * n \in Nat
  OBVIOUS
<1>7. s <= c * n
  <2>1. (-1) * s + 0 * s + 0 * s = -s
    OBVIOUS
  <2>2. 0 <= -s + c * n
    BY <1>2, <1>4, <1>5, <2>1 DEF Outweighs
  <2> QED
    BY <1>6, <2>2
<1>8. s >= c * n
  BY <1>3, <1>4, <1>5 DEF SumOf, Summed
<1>9. s = c * n
  BY <1>6, <1>7, <1>8
<1> QED
  BY <1>4, <1>5, <1>9 DEF SumOf, Summed

\* A sum of one term.
LEMMA SumOfOne ==
  ASSUME NEW U, NEW x, U = {x}, NEW g \in [U -> Nat]
  PROVE  SumOf(g) = g[x]
<1>1. IsFiniteSet(U) /\ x \in U
  BY FS_Singleton
<1>2. PICK h : Leaves(g, U, x, h)
  BY DEF Leaves
<1>3. AddsUp(g, x, h)
  BY <1>1, <1>2, TotalLess
<1>4. DOMAIN h = {}
  BY <1>2 DEF Leaves
<1>5. Summed(h) = 0
  BY <1>4, TotalEmpty
<1>6. g[x] \in Nat
  BY <1>1
<1>7. Summed(g) = g[x]
  BY <1>3, <1>5, <1>6 DEF AddsUp
<1> QED
  BY <1>7 DEF SumOf, Summed

\* What is shared out by weight, rounded down.
AreShares(q, U, w, s, free) == \A i \in U : q[i] = (free * w[i]) \div s

LEMMA ShareIs ==
  ASSUME NEW w \in Nat, NEW s \in Nat \ {0}, NEW free \in Nat
  PROVE  /\ (free * w) \div s \in Nat
         /\ 0 <= free * w + (-s) * ((free * w) \div s)
         /\ 0 <= (-free) * w + s * ((free * w) \div s) + (s - 1)
<1>1. PICK a \in Nat : a = free * w
  OBVIOUS
<1>2. PICK q \in Nat : q = a \div s
  BY Quotient
<1>3. s * q <= a /\ a < s * q + s
  BY <1>2, Quotient
<1>4. (-s) * q = -(s * q) /\ s * q \in Nat /\ (-free) * w = -a
  BY <1>1
<1>5. 0 <= a + (-s) * q /\ 0 <= -a + s * q + (s - 1)
  BY <1>3, <1>4
<1> QED
  BY <1>1, <1>2, <1>4, <1>5

\* Rounded down, the shares of n miss what was shared by less than n.
LEMMA FloorShares ==
  ASSUME NEW U, IsFiniteSet(U), U # {}, NEW w \in [U -> Nat], NEW q \in [U -> Nat],
         NEW s \in Nat \ {0}, s = SumOf(w), NEW free \in Nat, AreShares(q, U, w, s, free)
  PROVE  SumOf(q) \in free - Cardinality(U) + 1 .. free
<1>1. PICK n \in Nat \ {0} : n = Cardinality(U)
  <2>1. Cardinality(U) \in Nat /\ Cardinality(U) # 0
    BY FS_CardinalityType, FS_EmptySet
  <2> QED
    BY <2>1
<1>2. Summed(w) = s
  BY DEF SumOf, Summed
<1>3. PICK t \in Nat : t = Summed(q)
  BY TotalNat
<1>4. -s \in Int /\ -free \in Int /\ s - 1 \in Int
  OBVIOUS
<1>5. 0 <= free * s + (-s) * t
  <2>1. Weighs(U, w, q, q, free, -s, 0, 0)
    <3>1. ASSUME NEW i \in U PROVE 0 <= free * w[i] + (-s) * q[i] + 0 * q[i] + 0
      <4>1. q[i] = (free * w[i]) \div s
        BY DEF AreShares
      <4>2. 0 <= free * w[i] + (-s) * q[i]
        BY <4>1, ShareIs
      <4> QED
        BY <4>2
    <3> QED
      BY <3>1 DEF Weighs
  <2>2. Outweighs(U, w, q, q, free, -s, 0, 0)
    BY <1>4, <2>1, SumsWeigh
  <2>3. 0 <= free * s + (-s) * t + 0 * t + 0 * n
    BY <1>1, <1>2, <1>3, <2>2 DEF Outweighs
  <2> QED
    BY <2>3
<1>6. 0 <= (-free) * s + s * t + (s - 1) * n
  <2>1. Weighs(U, w, q, q, -free, s, 0, s - 1)
    <3>1. ASSUME NEW i \in U PROVE 0 <= (-free) * w[i] + s * q[i] + 0 * q[i] + (s - 1)
      <4>1. q[i] = (free * w[i]) \div s
        BY DEF AreShares
      <4>2. 0 <= (-free) * w[i] + s * q[i] + (s - 1)
        BY <4>1, ShareIs
      <4> QED
        BY <4>2
    <3> QED
      BY <3>1 DEF Weighs
  <2>2. Outweighs(U, w, q, q, -free, s, 0, s - 1)
    BY <1>4, <2>1, SumsWeigh
  <2>3. 0 <= (-free) * s + s * t + 0 * t + (s - 1) * n
    BY <1>1, <1>2, <1>3, <2>2 DEF Outweighs
  <2> QED
    BY <2>3
<1>7. t <= free
  <2>1. free * s + (-s) * t = s * (free - t)
    OBVIOUS
  <2>2. s * (free - t + 1) = s * (free - t) + s
    OBVIOUS
  <2>3. 0 < s * (free - t + 1)
    <3>1. s * (free - t) \in Int
      OBVIOUS
    <3> QED
      BY <1>5, <2>1, <2>2, <3>1
  <2>4. 0 < free - t + 1
    BY <2>3, Positive
  <2> QED
    BY <2>4
<1>8. free - n + 1 <= t
  <2>1. (-free) * s + s * t + (s - 1) * n = s * (t - free + n) - n
    OBVIOUS
  <2>2. 0 < s * (t - free + n)
    <3>1. s * (t - free + n) \in Int
      OBVIOUS
    <3> QED
      BY <1>6, <2>1, <3>1
  <2>3. 0 < t - free + n
    BY <2>2, Positive
  <2> QED
    BY <2>3
<1>9. t \in free - n + 1 .. free
  BY <1>7, <1>8
<1>10. t = SumOf(q)
  BY <1>3 DEF SumOf, Summed
<1> QED
  BY <1>1, <1>9, <1>10

-----------------------------------------------------------------------------
(* Bands                                                                   *)

LayoutInv ==
  /\ rows \in [DOMAIN Rows -> [height : Nat, weights : Seq(Nat)]]
  /\ \A r \in DOMAIN Rows : rows[r].height >= MinRow /\ rows[r].weights # <<>>
  /\ window \in Windows

LEMMA ConstantsAre ==
  /\ Gap \in Nat \ {0} /\ ColMin \in Nat \ {0} /\ MinRow \in Nat \ {0}
  /\ PadX \in Nat \ {0} /\ GlyphW \in Nat \ {0} /\ ColMin >= 30
BY LayoutAssumption

LEMMA WindowIs ==
  ASSUME LayoutInv
  PROVE  window.w \in Nat /\ window.h \in Nat /\ window.w >= 60
<1>1. window \in [w : Nat, h : Nat]
  BY WindowsAssumption DEF LayoutInv
<1>2. window.w >= 60
  BY WindowsAssumption DEF LayoutInv
<1> QED
  BY <1>1, <1>2

LEMMA RowIs ==
  ASSUME LayoutInv
  PROVE  \A r \in DOMAIN rows :
           /\ rows[r].height \in Nat /\ rows[r].height >= MinRow
           /\ rows[r].weights \in Seq(Nat) /\ Len(rows[r].weights) \in Nat \ {0}
<1> SUFFICES ASSUME NEW r \in DOMAIN rows
             PROVE  /\ rows[r].height \in Nat /\ rows[r].height >= MinRow
                    /\ rows[r].weights \in Seq(Nat) /\ Len(rows[r].weights) \in Nat \ {0}
  OBVIOUS
<1>1. r \in DOMAIN Rows
  BY DEF LayoutInv
<1>2. rows[r] \in [height : Nat, weights : Seq(Nat)]
  BY <1>1 DEF LayoutInv
<1>3. rows[r].height >= MinRow /\ rows[r].weights # <<>>
  BY <1>1 DEF LayoutInv
<1>4. rows[r].weights \in Seq(Nat)
  BY <1>2
<1>5. Len(rows[r].weights) \in Nat \ {0}
  BY <1>3, <1>4
<1> QED
  BY <1>2, <1>3, <1>4, <1>5

\* A band has at least one widget, and when it has more they fit at the floor.
LEMMA PerBandIs ==
  ASSUME LayoutInv
  PROVE  /\ PerBand \in Nat \ {0}
         /\ PerBand >= 2 => (ColMin + Gap) * PerBand <= window.w + Gap
<1>1. PICK d \in Nat \ {0} : d = ColMin + Gap
  BY ConstantsAre
<1>2. PICK a \in Nat : a = window.w + Gap
  BY ConstantsAre, WindowIs
<1>3. a \div d \in Nat /\ d * (a \div d) <= a
  BY Quotient
<1>4. PerBand = IF 1 >= a \div d THEN 1 ELSE a \div d
  BY <1>1, <1>2, <1>3, AtLeastIs DEF PerBand
<1>5. PerBand \in Nat \ {0}
  BY <1>3, <1>4
<1>6. PerBand >= 2 => PerBand = a \div d
  BY <1>3, <1>4
<1> QED
  BY <1>1, <1>2, <1>3, <1>5, <1>6

BandAt(r, s) ==
  [row |-> r, start |-> s * PerBand,
   len |-> Min({PerBand, Len(rows[r].weights) - s * PerBand})]
Slices(r) == 0 .. (Len(rows[r].weights) - 1) \div PerBand

LEMMA BandsAre ==
  \A b : b \in BandsOf <=> \E r \in DOMAIN rows : \E s \in Slices(r) : b = BandAt(r, s)
<1> DEFINE Pieces(r) == {BandAt(r, s) : s \in Slices(r)}
<1>1. BandsOf = UNION {Pieces(r) : r \in DOMAIN rows}
  BY DEF BandsOf, BandAt, Slices
<1>2. \A b : b \in BandsOf <=> \E r \in DOMAIN rows : b \in Pieces(r)
  <2> HIDE DEF Pieces
  <2> QED
    BY <1>1
<1> QED
  BY <1>2

\* The s-th piece of a row starts within it.
LEMMA SliceIs ==
  ASSUME LayoutInv, NEW r \in DOMAIN rows, NEW s \in Slices(r)
  PROVE  /\ s \in Nat /\ s * PerBand \in Nat /\ s * PerBand < Len(rows[r].weights)
<1>1. PICK n \in Nat \ {0} : n = Len(rows[r].weights)
  BY RowIs
<1>2. PICK p \in Nat \ {0} : p = PerBand
  BY PerBandIs
<1>3. PICK q \in Nat : q = (n - 1) \div p /\ p * q <= n - 1
  <2>1. n - 1 \in Nat
    OBVIOUS
  <2> QED
    BY <2>1, Quotient
<1>4. s \in 0 .. q
  BY <1>1, <1>2, <1>3 DEF Slices
<1>5. p * s <= p * q
  BY <1>4
<1>6. s * p = p * s /\ p * s \in Nat /\ p * q \in Nat
  BY <1>4
<1>7. s * p < n
  BY <1>3, <1>5, <1>6
<1> QED
  BY <1>1, <1>2, <1>4, <1>6, <1>7

\* A band lies within its row and has no more widgets than a band may.
LEMMA BandIs ==
  ASSUME LayoutInv, NEW b \in BandsOf
  PROVE  /\ b.row \in DOMAIN rows /\ b.start \in Nat /\ b.len \in Nat \ {0}
         /\ b.len <= PerBand /\ b.start + b.len <= Len(rows[b.row].weights)
<1>1. PICK r \in DOMAIN rows : \E s \in Slices(r) : b = BandAt(r, s)
  BY BandsAre
<1>2. PICK s \in Slices(r) : b = BandAt(r, s)
  BY <1>1
<1>3. PICK n \in Nat \ {0} : n = Len(rows[r].weights)
  BY RowIs
<1>4. PICK p \in Nat \ {0} : p = PerBand
  BY PerBandIs
<1>5. PICK k \in Nat : k = s * p /\ k < n
  BY <1>3, <1>4, SliceIs
<1>6. b.row = r /\ b.start = k /\ b.len = Min({p, n - k})
  BY <1>2, <1>3, <1>4, <1>5 DEF BandAt
<1>7. b.len = IF p <= n - k THEN p ELSE n - k
  <2>1. n - k \in Int /\ p \in Int
    OBVIOUS
  <2> QED
    BY <1>6, <2>1, MinOfTwo
<1> QED
  BY <1>3, <1>4, <1>5, <1>6, <1>7

\* What a band has for its widgets: enough for all of them at the floor.
LEMMA ContentIs ==
  ASSUME LayoutInv, NEW b \in BandsOf
  PROVE  /\ ContentW(b) = window.w - Gap * (b.len - 1) /\ ContentW(b) \in Nat
         /\ b.len = 1 => ContentW(b) = window.w
         /\ b.len >= 2 => b.len * ColMin <= ContentW(b)
<1>1. PICK n \in Nat \ {0} : n = b.len
  BY BandIs
<1>2. PICK w \in Nat : w = window.w /\ w >= 60
  BY WindowIs
<1>3. PICK g \in Nat \ {0} : g = Gap
  BY ConstantsAre
<1>4. PICK c \in Nat \ {0} : c = ColMin /\ c >= 30
  BY ConstantsAre
<1>5. PICK m \in Int : m = w - g * (n - 1)
  OBVIOUS
<1>6. ASSUME n >= 2 PROVE n * c <= m
  <2>1. PICK p \in Nat : p = PerBand /\ n <= p
    BY <1>1, BandIs, PerBandIs
  <2>2. (c + g) * p <= w + g
    <3>1. p >= 2
      BY <1>6, <2>1
    <3> QED
      BY <1>2, <1>3, <1>4, <2>1, <3>1, PerBandIs
  <2>3. (c + g) * n <= (c + g) * p
    BY <2>1
  <2>4. (c + g) * n = n * c + g * n /\ g * (n - 1) = g * n - g
    OBVIOUS
  <2>5. n * c \in Int /\ g * n \in Int /\ (c + g) * p \in Int
    OBVIOUS
  <2> QED
    BY <1>5, <2>2, <2>3, <2>4, <2>5
<1>7. m >= 60
  <2>1. CASE n = 1
    BY <1>2, <1>5, <2>1
  <2>2. CASE n >= 2
    <3>1. 2 * c <= n * c
      BY <2>2
    <3>2. n * c \in Int
      OBVIOUS
    <3> QED
      BY <1>4, <1>6, <2>2, <3>1, <3>2
  <2> QED
    BY <2>1, <2>2
<1>8. ContentW(b) = m
  <2>1. ContentW(b) = AtLeast(m, 60)
    BY <1>1, <1>2, <1>3, <1>5 DEF ContentW
  <2> QED
    BY <1>7, <2>1, AtLeastIs
<1>9. n = 1 => m = w
  BY <1>5
<1> QED
  BY <1>1, <1>2, <1>3, <1>4, <1>5, <1>6, <1>7, <1>8, <1>9

LEMMA BandRow == \A r, s : BandAt(r, s).row = r
BY DEF BandAt

\* The s-th band of a row of n widgets, p of them a band, starts behind k widgets.
Offset(r, s, n, p, k) == n = Len(rows[r].weights) /\ p = PerBand /\ k = s * p
Measures(b, n, p, k) == b.start = k /\ b.len = IF p <= n - k THEN p ELSE n - k

LEMMA BandAtIs ==
  ASSUME LayoutInv, NEW r \in DOMAIN rows, NEW s \in Slices(r),
         NEW n \in Nat, NEW p \in Nat, NEW k \in Nat, Offset(r, s, n, p, k)
  PROVE  Measures(BandAt(r, s), n, p, k)
<1>2. k = s * p
  BY DEF Offset
<1>3. Min({p, n - k}) = IF p <= n - k THEN p ELSE n - k
  <2>1. n - k \in Int /\ p \in Int
    OBVIOUS
  <2> QED
    BY <2>1, MinOfTwo
<1>4. BandAt(r, s).start = k /\ BandAt(r, s).len = Min({p, n - k})
  BY <1>2 DEF BandAt, Offset
<1> QED
  BY <1>3, <1>4 DEF Measures

LEMMA QuotientUnique ==
  ASSUME NEW a \in Nat, NEW d \in Nat \ {0}, NEW q \in Nat, d * q <= a, a < d * q + d
  PROVE  q = a \div d
<1>1. PICK r \in Nat : r = a \div d /\ d * r <= a /\ q <= r
  BY Quotient, QuotientReaches
<1>2. ASSUME q < r PROVE FALSE
  <2>1. d * (q + 1) <= d * r
    BY <1>2
  <2>2. d * (q + 1) = d * q + d
    OBVIOUS
  <2>3. d * q \in Int /\ d * r \in Int
    OBVIOUS
  <2> QED
    BY <1>1, <2>1, <2>2, <2>3
<1> QED
  BY <1>1, <1>2

Holds(b, r, i) == b.row = r /\ i \in b.start + 1 .. b.start + b.len

\* Every widget is in one band.
LEMMA WidgetOnce ==
  ASSUME LayoutInv, NEW r \in DOMAIN rows, NEW i \in DOMAIN rows[r].weights
  PROVE  Cardinality({b \in BandsOf : Holds(b, r, i)}) = 1
<1>1. PICK n \in Nat \ {0} : n = Len(rows[r].weights)
  BY RowIs
<1>2. PICK p \in Nat \ {0} : p = PerBand
  BY PerBandIs
<1>3. PICK k \in 0 .. n - 1 : i = k + 1
  <2>1. i \in 1 .. n
    <3>1. rows[r].weights \in Seq(Nat)
      BY RowIs
    <3> QED
      BY <1>1, <3>1
  <2> QED
    BY <2>1
<1>4. PICK q \in Nat : q = k \div p /\ p * q <= k /\ k < p * q + p
  BY Quotient
<1>5. q \in Slices(r)
  <2>1. n - 1 \in Nat /\ p * q <= n - 1
    <3>1. p * q \in Int
      OBVIOUS
    <3> QED
      BY <1>4, <3>1
  <2>2. PICK t \in Nat : t = (n - 1) \div p
    BY <2>1, Quotient
  <2>3. q <= t
    BY <2>1, <2>2, QuotientReaches
  <2>4. Slices(r) = 0 .. t
    BY <1>1, <1>2, <2>2 DEF Slices
  <2> QED
    BY <2>3, <2>4
<1>6. BandAt(r, q) \in BandsOf
  BY <1>5, BandsAre
<1>7. Holds(BandAt(r, q), r, i)
  <2>1. PICK x \in Nat : x = q * p /\ x = p * q
    OBVIOUS
  <2>2. BandAt(r, q).start = x /\ BandAt(r, q).len = IF p <= n - x THEN p ELSE n - x
    <3>1. Offset(r, q, n, p, x)
      BY <1>1, <1>2, <2>1 DEF Offset
    <3>2. Measures(BandAt(r, q), n, p, x)
      BY <1>5, <3>1, BandAtIs
    <3> QED
      BY <3>2 DEF Measures
  <2>3. x <= k /\ k < x + p
    BY <1>4, <2>1
  <2>4. i \in BandAt(r, q).start + 1 .. BandAt(r, q).start + BandAt(r, q).len
    BY <1>3, <2>2, <2>3
  <2> QED
    BY <2>4, BandRow DEF Holds
<1>8. ASSUME NEW b \in BandsOf, Holds(b, r, i) PROVE b = BandAt(r, q)
  <2>1. PICK y \in DOMAIN rows : \E s \in Slices(y) : b = BandAt(y, s)
    BY BandsAre
  <2>2. PICK s \in Slices(y) : b = BandAt(y, s)
    BY <2>1
  <2>3. y = r
    BY <1>8, <2>2, BandRow DEF Holds
  <2>4. s \in Slices(r) /\ s \in Nat
    BY <2>3, SliceIs
  <2>5. PICK x \in Nat : x = s * p /\ x = p * s
    BY <2>4
  <2>6. b.start = x /\ b.len = IF p <= n - x THEN p ELSE n - x
    <3>1. Offset(r, s, n, p, x)
      BY <1>1, <1>2, <2>5 DEF Offset
    <3>2. Measures(BandAt(r, s), n, p, x)
      BY <2>4, <3>1, BandAtIs
    <3> QED
      BY <2>2, <2>3, <3>2 DEF Measures
  <2>7. x <= k /\ k < x + p
    BY <1>3, <1>8, <2>6 DEF Holds
  <2>8. s = k \div p
    BY <2>4, <2>5, <2>7, QuotientUnique
  <2> QED
    BY <1>4, <2>2, <2>3, <2>8
<1>9. PICK S : S = {b \in BandsOf : Holds(b, r, i)}
  OBVIOUS
<1>10. S = {BandAt(r, q)}
  BY <1>6, <1>7, <1>8, <1>9
<1> QED
  BY <1>9, <1>10, FS_Singleton

LEMMA PiecesFinite ==
  ASSUME LayoutInv, NEW r \in DOMAIN rows
  PROVE  IsFiniteSet({BandAt(r, s) : s \in Slices(r)})
<1>1. PICK T : T = {BandAt(r, s) : s \in Slices(r)}
  OBVIOUS
<1>2. IsFiniteSet(Slices(r))
  <2>1. PICK n \in Nat \ {0} : n = Len(rows[r].weights)
    BY RowIs
  <2>2. n - 1 \in Nat /\ PerBand \in Nat \ {0}
    BY <2>1, PerBandIs
  <2>3. (n - 1) \div PerBand \in Nat
    BY <2>2, Quotient
  <2>4. PICK m \in Int : m = (n - 1) \div PerBand
    BY <2>3
  <2>5. IsFiniteSet(0 .. m)
    BY FS_Interval
  <2> QED
    BY <2>1, <2>4, <2>5 DEF Slices
<1>3. PICK f : f = [s \in Slices(r) |-> BandAt(r, s)]
  OBVIOUS
<1>4. f \in Surjection(Slices(r), T)
  BY <1>1, <1>3 DEF Surjection
<1> QED
  BY <1>1, <1>2, <1>4, FS_Surjection

LEMMA RowsFinite ==
  ASSUME LayoutInv
  PROVE  IsFiniteSet(DOMAIN rows) /\ DOMAIN rows # {}
<1>1. DOMAIN rows = DOMAIN Rows
  BY DEF LayoutInv
<1>2. PICK R : R = [height : Nat, weights : Seq(Nat) \ {<<>>}]
  OBVIOUS
<1>3. Rows \in Seq(R) /\ Rows # <<>>
  BY <1>2, RowsAssumption
<1>4. PICK m \in Nat : m = Len(Rows) /\ DOMAIN Rows = 1 .. m /\ m # 0
  BY <1>3
<1>5. IsFiniteSet(1 .. m)
  BY FS_Interval
<1> QED
  BY <1>1, <1>4, <1>5

LEMMA BandsFinite ==
  ASSUME LayoutInv
  PROVE  IsFiniteSet(BandsOf) /\ BandsOf # {}
<1> DEFINE Pieces(r) == {BandAt(r, s) : s \in Slices(r)}
<1>1. \A r \in DOMAIN rows : IsFiniteSet(Pieces(r))
  BY PiecesFinite
<1>2. BandsOf = UNION {Pieces(r) : r \in DOMAIN rows}
  BY DEF BandsOf, BandAt, Slices
<1> HIDE DEF Pieces
<1>3. PICK T : T = {Pieces(r) : r \in DOMAIN rows}
  OBVIOUS
<1>4. PICK f : f = [r \in DOMAIN rows |-> Pieces(r)]
  OBVIOUS
<1>5. f \in Surjection(DOMAIN rows, T)
  BY <1>3, <1>4 DEF Surjection
<1>6. IsFiniteSet(T)
  BY <1>5, RowsFinite, FS_Surjection
<1>7. \A S \in T : IsFiniteSet(S)
  BY <1>1, <1>3
<1>8. IsFiniteSet(UNION T)
  BY <1>6, <1>7, FS_UNION
<1>9. PICK r \in DOMAIN rows : TRUE
  BY RowsFinite
<1>10. 0 \in Slices(r)
  <2>1. PICK n \in Nat \ {0} : n = Len(rows[r].weights)
    BY RowIs
  <2>2. n - 1 \in Nat /\ PerBand \in Nat \ {0}
    BY <2>1, PerBandIs
  <2>3. (n - 1) \div PerBand \in Nat
    BY <2>2, Quotient
  <2> QED
    BY <2>1, <2>3 DEF Slices
<1>11. BandAt(r, 0) \in BandsOf
  BY <1>10, BandsAre
<1> QED
  BY <1>2, <1>3, <1>8, <1>11

-----------------------------------------------------------------------------
(* Heights                                                                 *)

\* The rows' heights, and what is drawn of them.
AskedHeights == [b \in BandsOf |-> rows[b.row].height]
DrawnHeights == [b \in BandsOf |-> Height(b)]

\* The rows ask for something, so height_scale never divides by zero.
LEMMA SumHIs ==
  ASSUME LayoutInv
  PROVE  /\ AskedHeights \in [BandsOf -> Nat] /\ SumH \in Nat \ {0}
         /\ SumH = SumOf(AskedHeights)
<1>1. \A b \in BandsOf : rows[b.row].height \in Nat /\ rows[b.row].height >= MinRow
  BY BandIs, RowIs
<1>2. AskedHeights \in [BandsOf -> Nat]
  BY <1>1 DEF AskedHeights
<1>3. PICK n \in Nat \ {0} : n = Cardinality(BandsOf)
  <2>1. Cardinality(BandsOf) \in Nat /\ Cardinality(BandsOf) # 0
    BY BandsFinite, FS_CardinalityType, FS_EmptySet
  <2> QED
    BY <2>1
<1>4. AllAtLeast(AskedHeights, BandsOf, 1)
  BY <1>1, ConstantsAre DEF AllAtLeast, AskedHeights
<1>5. SumOf(AskedHeights) \in Nat /\ SumOf(AskedHeights) >= 1 * Cardinality(BandsOf)
  BY <1>2, <1>4, BandsFinite, SumAtLeast, SumNat
<1>6. PICK s \in Nat \ {0} : s = SumOf(AskedHeights)
  BY <1>3, <1>5
<1>7. SumH = AtLeast(1, s)
  BY <1>6 DEF SumH, AskedHeights
<1>8. SumH = s
  BY <1>7, AtLeastIs
<1> QED
  BY <1>2, <1>6, <1>8

LEMMA FreeIs ==
  ASSUME LayoutInv
  PROVE  Free \in Int
<1>1. Cardinality(BandsOf) \in Nat
  BY BandsFinite, FS_CardinalityType
<1>2. PICK c \in Nat : c = Cardinality(BandsOf)
  BY <1>1
<1>3. window.h - c * Gap \in Int
  BY WindowIs, ConstantsAre
<1> QED
  BY <1>2, <1>3 DEF Free

\* Stretched, a band is drawn with its share, which is no less than its row asked for.
LEMMA HeightIs ==
  ASSUME LayoutInv, Free >= SumH, NEW b \in BandsOf
  PROVE  Height(b) \in Nat /\ Height(b) = (Free * rows[b.row].height) \div SumH
<1>1. PICK s \in Nat \ {0} : s = SumH
  BY SumHIs
<1>2. PICK f \in Nat : f = Free /\ f >= s
  BY <1>1, FreeIs
<1>3. PICK h \in Nat : h = rows[b.row].height /\ h >= MinRow
  BY BandIs, RowIs
<1>4. PICK q \in Nat : q = (f * h) \div s
  BY Quotient
<1>5. h <= q
  <2>1. s * h <= f * h
    BY <1>2
  <2>2. f * h \in Nat
    OBVIOUS
  <2> QED
    BY <1>4, <2>1, <2>2, QuotientReaches
<1>6. Scaled(h) = q
  <2>1. CASE f > s
    <3>1. h * f = f * h
      OBVIOUS
    <3>2. Scaled(h) = (h * f) \div s
      BY <1>1, <1>2, <2>1 DEF Scaled
    <3> QED
      BY <1>4, <3>1, <3>2
  <2>2. CASE f = s
    <3>1. Scaled(h) = h
      BY <1>1, <1>2, <2>2 DEF Scaled
    <3>2. h = (f * h) \div s
      <4>1. f * h \in Nat /\ s * h <= f * h /\ f * h < s * h + s
        BY <2>2
      <4> QED
        BY <4>1, QuotientUnique
    <3> QED
      BY <1>4, <3>1, <3>2
  <2> QED
    BY <1>2, <2>1, <2>2
<1>7. Height(b) = AtLeast(q, MinRow)
  BY <1>3, <1>6 DEF Height
<1>8. q >= MinRow
  BY <1>3, <1>5, ConstantsAre
<1>9. Height(b) = q
  BY <1>7, <1>8, AtLeastIs, ConstantsAre
<1> QED
  BY <1>1, <1>2, <1>3, <1>4, <1>9

\* The bands fill the height, to within a pixel a band.
LEMMA HeightsFill ==
  ASSUME LayoutInv, Free >= SumH
  PROVE  SumOf(DrawnHeights) \in Free - Cardinality(BandsOf) + 1 .. Free
<1>1. PICK s \in Nat \ {0} : s = SumH /\ s = SumOf(AskedHeights)
  BY SumHIs
<1>2. PICK f \in Nat : f = Free
  BY <1>1, FreeIs
<1>3. DrawnHeights \in [BandsOf -> Nat]
  BY HeightIs DEF DrawnHeights
<1>4. AreShares(DrawnHeights, BandsOf, AskedHeights, s, f)
  BY <1>1, <1>2, HeightIs DEF AreShares, DrawnHeights, AskedHeights
<1>5. SumOf(DrawnHeights) \in f - Cardinality(BandsOf) + 1 .. f
  BY <1>1, <1>3, <1>4, BandsFinite, SumHIs, FloorShares
<1> QED
  BY <1>2, <1>5

-----------------------------------------------------------------------------
(* Widths                                                                  *)

\* A sum is the sum over a part of the domain and the sum over the rest.
Restricts(h, P, g) == h = [x \in P |-> g[x]]
Parts(V, P, R) == P \subseteq V /\ R = V \ P

LEMMA SumSplits ==
  ASSUME NEW V, IsFiniteSet(V), NEW g \in [V -> Nat], NEW P, NEW R, Parts(V, P, R),
         NEW a, Restricts(a, P, g), NEW b, Restricts(b, R, g)
  PROVE  SumOf(g) = SumOf(a) + SumOf(b)
<1> DEFINE f1 == [x \in V |-> IF x \in P THEN g[x] ELSE 0]
           f2 == [x \in V |-> IF x \in P THEN 0 ELSE g[x]]
<1>1. P \in SUBSET V /\ R = V \ P
  BY DEF Parts
<1>2. f1 \in [V -> Nat] /\ f2 \in [V -> Nat] /\ R \in SUBSET V
  BY <1>1
<1>3. AreSums(g, V, f1, f2)
  BY DEF AreSums
<1>4. Supports(a, P, V, f1) /\ Supports(b, R, V, f2)
  BY <1>1 DEF Restricts, Supports
<1> HIDE DEF f1, f2
<1>5. SumsUp(g, f1, f2)
  BY <1>2, <1>3, SumsAdd
<1>6. SumOf(f1) = SumOf(a)
  BY <1>2, <1>4, SumOfPart
<1>7. SumOf(f2) = SumOf(b)
  BY <1>2, <1>4, SumOfPart
<1> QED
  BY <1>5, <1>6, <1>7 DEF SumsUp

\* n weights, and room for n widgets at the floor.
Setting(w, avail, floor, n) ==
  /\ n \in Nat \ {0} /\ w \in [1 .. n -> Nat] /\ AllAtLeast(w, 1 .. n, 1)
  /\ avail \in Nat /\ floor \in Nat /\ floor * n <= avail

\* What is left for u widgets when k are at the floor is at least as much as they had
\* there.
Rest(free, avail, floor, n, k, u) == n = k + u /\ floor * n <= avail /\ free = avail - floor * k
RoomFor(free, floor, u) == free >= floor * u

LEMMA LeftOver ==
  ASSUME NEW n \in Nat, NEW k \in Nat, NEW u \in Nat, NEW floor \in Nat, NEW avail \in Nat,
         NEW free, Rest(free, avail, floor, n, k, u)
  PROVE  free \in Nat /\ RoomFor(free, floor, u)
<1>1. floor * n = floor * k + floor * u
  BY DEF Rest
<1>2. floor * k \in Nat /\ floor * u \in Nat /\ floor * n \in Nat
  OBVIOUS
<1>3. free = avail - floor * k /\ floor * n <= avail
  BY DEF Rest
<1>4. free >= floor * u
  BY <1>1, <1>2, <1>3
<1> QED
  BY <1>2, <1>3, <1>4 DEF RoomFor

\* Some of the first n numbers, but not all, and the others.
Splits(T, n, pinned, U) ==
  n \in Nat /\ T = 1 .. n /\ pinned \subseteq T /\ pinned # T /\ U = T \ pinned
Counts(n, k, pinned, u, U) == k = Cardinality(pinned) /\ u = Cardinality(U) /\ n = k + u

LEMMA OthersSplit ==
  ASSUME NEW T, NEW n, NEW pinned, NEW U, Splits(T, n, pinned, U)
  PROVE  /\ IsFiniteSet(T) /\ IsFiniteSet(U) /\ IsFiniteSet(pinned)
         /\ \E k \in Nat : \E u \in Nat \ {0} : Counts(n, k, pinned, u, U)
<1>1. IsFiniteSet(T) /\ Cardinality(T) = n
  <2>1. n \in Nat /\ T = 1 .. n
    BY DEF Splits
  <2>2. IsFiniteSet(1 .. n) /\ Cardinality(1 .. n) = IF 1 > n THEN 0 ELSE n - 1 + 1
    BY <2>1, FS_Interval
  <2> QED
    BY <2>1, <2>2
<1>2. pinned \in SUBSET T /\ U \in SUBSET T /\ U = T \ pinned /\ T \cap pinned = pinned
  BY DEF Splits
<1>3. IsFiniteSet(pinned) /\ IsFiniteSet(U)
  BY <1>1, <1>2, FS_Subset
<1>4. Cardinality(U) = Cardinality(T) - Cardinality(pinned)
  <2>1. Cardinality(T \ pinned) = Cardinality(T) - Cardinality(T \cap pinned)
    BY <1>1, FS_Difference
  <2> QED
    BY <1>2, <2>1
<1>5. U # {}
  BY DEF Splits
<1>6. PICK k \in Nat : k = Cardinality(pinned)
  BY <1>3, FS_CardinalityType
<1>7. PICK u \in Nat \ {0} : u = Cardinality(U)
  <2>1. Cardinality(U) \in Nat /\ Cardinality(U) # 0
    BY <1>3, <1>5, FS_CardinalityType, FS_EmptySet
  <2> QED
    BY <2>1
<1>8. n = k + u
  <2>1. n \in Nat
    BY DEF Splits
  <2> QED
    BY <1>1, <1>4, <1>6, <1>7, <2>1
<1>9. Counts(n, k, pinned, u, U)
  BY <1>6, <1>7, <1>8 DEF Counts
<1> QED
  BY <1>1, <1>3, <1>9

\* What the ones that are not pinned share, and what each of them gets of it.
Sharing(U, w, free, part, sum, q) ==
  /\ part = [i \in U |-> w[i]] /\ sum = SumOf(part)
  /\ q = [i \in U |-> (free * w[i]) \div sum]

\* They get all of it, to within a pixel a widget.
LEMMA SharingIs ==
  ASSUME NEW U, IsFiniteSet(U), U # {}, NEW w \in [U -> Nat], AllAtLeast(w, U, 1),
         NEW free \in Nat, NEW sum, NEW part, NEW q, Sharing(U, w, free, part, sum, q)
  PROVE  /\ part \in [U -> Nat] /\ sum \in Nat \ {0} /\ q \in [U -> Nat]
         /\ SumOf(q) \in free - Cardinality(U) + 1 .. free
<1>1. part \in [U -> Nat] /\ AllAtLeast(part, U, 1)
  BY DEF Sharing, AllAtLeast
<1>2. PICK n \in Nat \ {0} : n = Cardinality(U)
  <2>1. Cardinality(U) \in Nat /\ Cardinality(U) # 0
    BY FS_CardinalityType, FS_EmptySet
  <2> QED
    BY <2>1
<1>3. SumOf(part) \in Nat /\ SumOf(part) >= 1 * Cardinality(U)
  BY <1>1, SumAtLeast, SumNat
<1>4. sum \in Nat \ {0} /\ sum = SumOf(part)
  BY <1>2, <1>3 DEF Sharing
<1>5. \A i \in U : q[i] = (free * part[i]) \div sum /\ q[i] \in Nat
  BY <1>1, <1>4, ShareIs DEF Sharing
<1>6. q \in [U -> Nat] /\ AreShares(q, U, part, sum, free)
  BY <1>5 DEF Sharing, AreShares
<1> QED
  BY <1>1, <1>4, <1>6, FloorShares

\* Unless all are pinned the widths add up to what there is, and the last one that is
\* not pinned is not below the floor.
LEMMA SharesAre ==
  ASSUME NEW n, NEW w, NEW avail, NEW floor, Setting(w, avail, floor, n),
         NEW pinned \in SUBSET (1 .. n), pinned # 1 .. n,
         NEW px, px = Shares(w, avail, floor, pinned)
  PROVE  /\ px \in [1 .. n -> Nat] /\ SumOf(px) \in avail - n + 1 .. avail
         /\ AllAre(px, pinned, floor)
         /\ \A i \in 1 .. n : 1 .. n \ pinned = {i} => px[i] >= floor
<1>1. /\ n \in Nat \ {0} /\ w \in [1 .. n -> Nat] /\ avail \in Nat /\ floor \in Nat
      /\ floor * n <= avail /\ \A i \in 1 .. n : w[i] >= 1
  BY DEF Setting, AllAtLeast
<1>2. PICK U : U = 1 .. n \ pinned
  OBVIOUS
<1>3. PICK T : T = 1 .. n
  OBVIOUS
<1>4. Splits(T, n, pinned, U)
  BY <1>1, <1>2, <1>3 DEF Splits
<1>5. PICK k \in Nat : \E x \in Nat \ {0} : Counts(n, k, pinned, x, U)
  BY <1>4, OthersSplit
<1>6. PICK u \in Nat \ {0} : k = Cardinality(pinned) /\ u = Cardinality(U) /\ n = k + u
  BY <1>5 DEF Counts
<1>7. IsFiniteSet(T) /\ IsFiniteSet(U) /\ IsFiniteSet(pinned) /\ U # {} /\ U \in SUBSET (1 .. n)
  BY <1>2, <1>4, OthersSplit
<1>8. PICK free \in Nat : free = avail - floor * k /\ free >= floor * u
  <2>1. PICK f : f = avail - floor * k
    OBVIOUS
  <2>2. Rest(f, avail, floor, n, k, u)
    BY <1>1, <1>6, <2>1 DEF Rest
  <2>3. f \in Nat /\ RoomFor(f, floor, u)
    BY <1>1, <2>2, LeftOver
  <2> QED
    BY <2>1, <2>3 DEF RoomFor
<1>9. PICK v : v = [i \in U |-> w[i]]
  OBVIOUS
<1>10. v \in [U -> Nat] /\ AllAtLeast(v, U, 1)
  BY <1>1, <1>7, <1>9 DEF AllAtLeast
<1>11. PICK part : part = [i \in U |-> v[i]]
  OBVIOUS
<1>12. PICK sum : sum = SumOf(part)
  OBVIOUS
<1>13. PICK q : q = [i \in U |-> (free * v[i]) \div sum]
  OBVIOUS
<1>14. Sharing(U, v, free, part, sum, q)
  BY <1>11, <1>12, <1>13 DEF Sharing
<1>15. q \in [U -> Nat] /\ SumOf(q) \in free - u + 1 .. free
  BY <1>6, <1>7, <1>10, <1>14, SharingIs
<1>16. AtLeast(avail - Cardinality(pinned) * floor, 0) = free
  <2>1. avail - Cardinality(pinned) * floor = free
    <3>1. Cardinality(pinned) * floor = floor * k
      BY <1>1, <1>6
    <3> QED
      BY <1>8, <3>1
  <2> QED
    BY <2>1, AtLeastIs
<1>17. SumOf([i \in DOMAIN w \ pinned |-> w[i]]) = sum
  <2>1. DOMAIN w \ pinned = U
    BY <1>1, <1>2
  <2>2. [i \in DOMAIN w \ pinned |-> w[i]] = part
    BY <1>9, <1>11, <2>1
  <2> QED
    BY <1>12, <2>2
<1>18. px = [i \in 1 .. n |-> IF i \in pinned THEN floor ELSE (free * w[i]) \div sum]
  BY <1>1, <1>16, <1>17 DEF Shares
<1>19. \A i \in U : px[i] = q[i]
  BY <1>2, <1>7, <1>9, <1>13, <1>18
<1>20. \A i \in pinned : px[i] = floor
  BY <1>18
<1>21. px \in [1 .. n -> Nat]
  <2>1. \A i \in 1 .. n : px[i] \in Nat
    BY <1>1, <1>2, <1>15, <1>19, <1>20
  <2> QED
    BY <1>18, <2>1
<1>22. SumOf(px) \in avail - n + 1 .. avail
  <2>1. PICK a : Restricts(a, pinned, px)
    BY DEF Restricts
  <2>2. Restricts(q, U, px)
    BY <1>13, <1>19 DEF Restricts
  <2>3. px \in [T -> Nat] /\ Parts(T, pinned, U)
    BY <1>2, <1>3, <1>21 DEF Parts
  <2>4. SumOf(px) = SumOf(a) + SumOf(q)
    BY <1>7, <2>1, <2>2, <2>3, SumSplits
  <2>5. a \in [pinned -> Nat] /\ AllAre(a, pinned, floor)
    BY <1>1, <1>20, <2>1 DEF Restricts, AllAre
  <2>6. SumOf(a) = floor * Cardinality(pinned)
    BY <1>1, <1>7, <2>5, SumOfSame
  <2>7. PICK x \in Nat : x = floor * k
    BY <1>1
  <2>8. SumOf(a) = x /\ free = avail - x
    BY <1>6, <1>8, <2>6, <2>7
  <2>9. PICK y \in Nat : y = SumOf(q)
    BY <1>7, <1>15, SumNat
  <2>10. SumOf(px) = x + y /\ y \in free - u + 1 .. free
    BY <1>15, <2>4, <2>8, <2>9
  <2>11. n = k + u /\ avail \in Nat
    BY <1>1, <1>6
  <2>12. x + y \in avail - n + 1 .. avail
    <3>1. y >= avail - x - u + 1 /\ y <= avail - x
      BY <2>8, <2>10, <2>11
    <3> QED
      BY <2>11, <3>1
  <2> QED
    BY <2>10, <2>12
<1>23. ASSUME NEW i \in 1 .. n, 1 .. n \ pinned = {i} PROVE px[i] >= floor
  <2>1. U = {i}
    BY <1>2, <1>23
  <2>2. u = 1
    BY <1>6, <2>1, FS_Singleton
  <2>3. SumOf(q) = q[i]
    BY <1>15, <2>1, SumOfOne
  <2>4. q[i] = px[i]
    BY <1>19, <2>1
  <2>5. px[i] \in free .. free /\ floor * u = floor
    BY <1>1, <1>15, <2>2, <2>3, <2>4
  <2> QED
    BY <1>1, <1>8, <2>5
<1>24. AllAre(px, pinned, floor)
  BY <1>20 DEF AllAre
<1> QED
  BY <1>21, <1>22, <1>23, <1>24

LEMMA MinIs ==
  ASSUME NEW S \in SUBSET Nat, S # {}
  PROVE  Min(S) \in S /\ \A t \in S : Min(S) <= t
<1>1. PICK m \in S : \A t \in S : m <= t
  BY LeastExists
<1> QED
  BY <1>1 DEF Min

\* Some of the first n, not all.
ProperOf(n) == {p \in SUBSET (1 .. n) : p # 1 .. n}

\* A pass that changes nothing finds no widget too narrow.
LEMMA PassIs ==
  ASSUME NEW n, NEW w, NEW avail, NEW floor, Setting(w, avail, floor, n),
         NEW pinned \in ProperOf(n), NEW new, new = Pass(w, avail, floor, pinned)
  PROVE  /\ new \in ProperOf(n)
         /\ new # pinned => \E x \in 1 .. n \ pinned : new = pinned \cup {x}
         /\ new = pinned <=> AllAtLeast(Shares(w, avail, floor, pinned), 1 .. n, floor)
<1>1. n \in Nat \ {0} /\ w \in [1 .. n -> Nat] /\ floor \in Nat /\ DOMAIN w = 1 .. n
  BY DEF Setting
<1>2. pinned \in SUBSET (1 .. n) /\ pinned # 1 .. n
  BY DEF ProperOf
<1>3. PICK px : px = Shares(w, avail, floor, pinned)
  OBVIOUS
<1>4. /\ px \in [1 .. n -> Nat] /\ AllAre(px, pinned, floor)
      /\ \A i \in 1 .. n : 1 .. n \ pinned = {i} => px[i] >= floor
  BY <1>2, <1>3, SharesAre
<1>5. PICK low : low = {i \in 1 .. n \ pinned : px[i] < floor}
  OBVIOUS
<1>6. new = IF low = {} THEN pinned ELSE pinned \cup {Min(low)}
  BY <1>1, <1>3, <1>5 DEF Pass
<1>7. CASE low = {}
  <2>1. new = pinned
    BY <1>6, <1>7
  <2>2. \A i \in 1 .. n : px[i] >= floor
    <3>1. ASSUME NEW i \in 1 .. n PROVE px[i] >= floor
      <4>1. CASE i \in pinned
        BY <1>1, <1>4, <4>1 DEF AllAre
      <4>2. CASE i \notin pinned
        <5>1. ~(px[i] < floor) /\ px[i] \in Nat
          BY <1>4, <1>5, <1>7, <4>2
        <5> QED
          BY <1>1, <5>1
      <4> QED
        BY <4>1, <4>2
    <3> QED
      BY <3>1
  <2> QED
    BY <1>3, <2>1, <2>2 DEF AllAtLeast
<1>8. CASE low # {}
  <2>1. low \in SUBSET Nat
    BY <1>1, <1>5
  <2>2. PICK x \in low : x = Min(low)
    BY <1>8, <2>1, MinIs
  <2>3. x \in 1 .. n \ pinned /\ px[x] < floor /\ new = pinned \cup {x}
    BY <1>5, <1>6, <1>8, <2>2
  <2>4. px[x] \in Nat
    BY <1>4, <2>3
  <2>5. 1 .. n \ pinned # {x}
    BY <1>1, <1>4, <2>3, <2>4
  <2>6. new \in ProperOf(n)
    BY <1>2, <2>3, <2>5 DEF ProperOf
  <2>7. ~AllAtLeast(px, 1 .. n, floor)
    BY <1>1, <2>3, <2>4 DEF AllAtLeast
  <2> QED
    BY <1>3, <2>3, <2>6, <2>7
<1> QED
  BY <1>7, <1>8

\* The sets that are pinned after each pass.
PassesTo(after, w, avail, floor, n) ==
  /\ after[0] = {} /\ after[n + 1] = Pinned(w, avail, floor)
  /\ \A k \in 0 .. n + 1 : after[k] \in ProperOf(n)
  /\ \A k \in 1 .. n + 1 : after[k] = Pass(w, avail, floor, after[k - 1])

LEMMA LenIs ==
  ASSUME NEW n \in Nat, NEW S, NEW w \in [1 .. n -> S]
  PROVE  w \in Seq(S) /\ Len(w) = n
<1>1. w \in Seq(S)
  BY SeqDef
<1>2. DOMAIN w = 1 .. Len(w) /\ Len(w) \in Nat /\ DOMAIN w = 1 .. n
  BY <1>1, LenProperties
<1> QED
  BY <1>1, <1>2

LEMMA PinnedPasses ==
  ASSUME NEW n, NEW w, NEW avail, NEW floor, Setting(w, avail, floor, n)
  PROVE  \E f : PassesTo(f, w, avail, floor, n)
<1> DEFINE S == ProperOf(n)
           Again(p) == Pass(w, avail, floor, p)
           step == [k \in 1 .. n + 1 |-> [p \in S |-> Again(p)]]
           after[k \in 0 .. n + 1] == IF k = 0 THEN {} ELSE Again(after[k - 1])
<1>1. n \in Nat \ {0} /\ Len(w) = n /\ n + 1 \in Nat
  <2>1. n \in Nat \ {0} /\ w \in [1 .. n -> Nat]
    BY DEF Setting
  <2> QED
    BY <2>1, LenIs
<1>2. {} \in S
  BY <1>1 DEF ProperOf
<1>3. \A p \in S : Again(p) \in S
  BY PassIs
<1>4. Pinned(w, avail, floor) = after[n + 1]
  BY <1>1 DEF Pinned
<1> HIDE DEF S, Again, after
<1>5. step \in [1 .. n + 1 -> [S -> S]]
  BY <1>3
<1>6. \A k \in 1 .. n + 1, p \in S : step[k][p] = Again(p)
  OBVIOUS
<1> HIDE DEF step
<1>7. PICK f : Recursion(f, n + 1, S, {}, step)
  BY <1>1, <1>2, <1>5, RecursionExists
<1>8. f \in [0 .. n + 1 -> S] /\ f[0] = {} /\ \A k \in 0 .. n + 1 : f[k] \in S
  BY <1>7 DEF Recursion
<1>9. \A k \in 1 .. n + 1 : f[k] = Again(f[k - 1])
  <2>1. \A k \in 1 .. n + 1 : k - 1 \in 0 .. n + 1
    BY <1>1
  <2> QED
    BY <1>6, <1>7, <1>8, <2>1 DEF Recursion
<1>10. f = [k \in 0 .. n + 1 |-> IF k = 0 THEN {} ELSE Again(f[k - 1])]
  <2>1. \A k \in 0 .. n + 1 : f[k] = IF k = 0 THEN {} ELSE Again(f[k - 1])
    <3>1. \A k \in 0 .. n + 1 : k # 0 => k \in 1 .. n + 1
      BY <1>1
    <3> QED
      BY <1>8, <1>9, <3>1
  <2> QED
    BY <1>8, <2>1
<1>11. after = [k \in 0 .. n + 1 |-> IF k = 0 THEN {} ELSE Again(after[k - 1])]
  BY <1>10 DEF after
<1>12. after[0] = {} /\ \A k \in 1 .. n + 1 : after[k] = Again(after[k - 1])
  <2>1. 0 \in 0 .. n + 1 /\ \A k \in 1 .. n + 1 : k \in 0 .. n + 1 /\ k # 0
    BY <1>1
  <2>2. after[0] = {}
    BY <1>11, <2>1
  <2>3. ASSUME NEW k \in 1 .. n + 1 PROVE after[k] = Again(after[k - 1])
    <3>1. k \in 0 .. n + 1 /\ k # 0
      BY <2>1
    <3> QED
      BY <1>11, <3>1
  <2> QED
    BY <2>2, <2>3
<1>13. \A k \in 0 .. n + 1 : after[k] \in S
  <2> DEFINE good == {k \in 0 .. n + 1 : after[k] \in S}
  <2>1. 0 \in good
    <3>1. after[0] \in S /\ 0 \in 0 .. n + 1
      BY <1>1, <1>2, <1>12
    <3> QED
      BY <3>1
  <2>2. ASSUME NEW k \in 1 .. n + 1, k - 1 \in good PROVE k \in good
    <3>1. after[k] \in S
      BY <1>3, <1>12, <2>2
    <3> QED
      BY <1>1, <3>1
  <2> HIDE DEF good
  <2>3. 0 .. n + 1 \subseteq good
    BY <1>1, <2>1, <2>2, UpTo
  <2> QED
    BY <2>3 DEF good
<1> HIDE DEF after
<1>14. PassesTo(after, w, avail, floor, n)
  BY <1>4, <1>12, <1>13 DEF PassesTo, S, Again
<1> QED
  BY <1>14

\* The loop ends with nobody below the floor, and somebody above.
LEMMA PinnedIs ==
  ASSUME NEW n, NEW w, NEW avail, NEW floor, Setting(w, avail, floor, n)
  PROVE  /\ Pinned(w, avail, floor) \in ProperOf(n)
         /\ AllAtLeast(Shares(w, avail, floor, Pinned(w, avail, floor)), 1 .. n, floor)
<1>1. PICK after : PassesTo(after, w, avail, floor, n)
  BY PinnedPasses
<1>2. n \in Nat \ {0} /\ n + 1 \in Nat
  BY DEF Setting
<1>3. /\ \A k \in 0 .. n + 1 : after[k] \in ProperOf(n)
      /\ \A k \in 1 .. n + 1 : after[k] = Pass(w, avail, floor, after[k - 1])
      /\ after[n + 1] = Pinned(w, avail, floor)
  BY <1>1 DEF PassesTo
<1>4. \A p \in ProperOf(n) : IsFiniteSet(p) /\ Cardinality(p) \in Nat /\ Cardinality(p) <= n
  <2>1. IsFiniteSet(1 .. n) /\ Cardinality(1 .. n) = IF 1 > n THEN 0 ELSE n - 1 + 1
    BY <1>2, FS_Interval
  <2>2. PICK T : T = 1 .. n
    OBVIOUS
  <2>3. IsFiniteSet(T) /\ Cardinality(T) = n
    BY <1>2, <2>1, <2>2
  <2>4. \A p \in SUBSET T : IsFiniteSet(p) /\ Cardinality(p) \in Nat /\ Cardinality(p) <= n
    BY <2>3, FS_Subset, FS_CardinalityType
  <2> QED
    BY <2>2, <2>4 DEF ProperOf
<1> DEFINE Fixed(p) == Pass(w, avail, floor, p) = p
           good == {k \in 0 .. n + 1 : Fixed(after[k]) \/ Cardinality(after[k]) >= k}
<1>5. 0 \in good
  <2>1. after[0] \in ProperOf(n) /\ 0 \in 0 .. n + 1
    BY <1>2, <1>3
  <2>2. Cardinality(after[0]) >= 0
    BY <1>4, <2>1
  <2> QED
    BY <2>1, <2>2
<1>6. ASSUME NEW k \in 1 .. n + 1, k - 1 \in good PROVE k \in good
  <2>1. PICK p \in ProperOf(n) : p = after[k - 1]
    <3>1. k - 1 \in 0 .. n + 1
      BY <1>2
    <3> QED
      BY <1>3, <3>1
  <2>2. PICK q \in ProperOf(n) : q = after[k] /\ q = Pass(w, avail, floor, p)
    <3>1. k \in 0 .. n + 1
      BY <1>2
    <3> QED
      BY <1>3, <2>1, <3>1
  <2>3. CASE Fixed(p)
    <3>1. q = p
      BY <2>2, <2>3
    <3>2. Fixed(after[k]) /\ k \in 0 .. n + 1
      BY <1>2, <2>2, <2>3, <3>1
    <3> QED
      BY <3>2
  <2>4. CASE ~Fixed(p)
    <3>1. q # p
      BY <2>2, <2>4
    <3>2. PICK x \in 1 .. n \ p : q = p \cup {x}
      BY <2>2, <3>1, PassIs
    <3>3. Cardinality(p) >= k - 1
      BY <1>6, <2>1, <2>4
    <3>4. Cardinality(q) = Cardinality(p) + 1
      <4>1. x \notin p /\ IsFiniteSet(p)
        BY <1>4, <3>2
      <4> QED
        BY <3>2, <4>1, FS_AddElement
    <3>5. Cardinality(p) \in Nat
      BY <1>4
    <3>6. Cardinality(q) >= k
      BY <3>3, <3>4, <3>5
    <3>7. Cardinality(after[k]) >= k /\ k \in 0 .. n + 1
      BY <1>2, <2>2, <3>6
    <3> QED
      BY <3>7
  <2> QED
    BY <2>3, <2>4
<1> HIDE DEF good
<1>7. 0 .. n + 1 \subseteq good
  BY <1>2, <1>5, <1>6, UpTo
<1>8. PICK p \in ProperOf(n) : p = after[n + 1]
  BY <1>2, <1>3
<1>9. Fixed(p)
  <2>1. n + 1 \in good
    BY <1>2, <1>7
  <2>2. Fixed(p) \/ Cardinality(p) >= n + 1
    BY <1>8, <2>1 DEF good
  <2> QED
    BY <1>2, <1>4, <2>2
<1>10. AllAtLeast(Shares(w, avail, floor, p), 1 .. n, floor)
  BY <1>9, PassIs
<1> QED
  BY <1>3, <1>8, <1>10

\* When nobody is too narrow nobody is pinned.
LEMMA NonePinned ==
  ASSUME NEW n, NEW w, NEW avail, NEW floor, Setting(w, avail, floor, n),
         AllAtLeast(Shares(w, avail, floor, {}), 1 .. n, floor)
  PROVE  Pinned(w, avail, floor) = {}
<1>1. PICK after : PassesTo(after, w, avail, floor, n)
  BY PinnedPasses
<1>2. n \in Nat \ {0} /\ n + 1 \in Nat
  BY DEF Setting
<1>3. PICK none \in ProperOf(n) : none = {}
  <2>1. 1 \in 1 .. n
    BY <1>2
  <2> QED
    BY <2>1 DEF ProperOf
<1>4. Pass(w, avail, floor, none) = none
  <2>1. AllAtLeast(Shares(w, avail, floor, none), 1 .. n, floor)
    BY <1>3
  <2> QED
    BY <2>1, PassIs
<1> DEFINE good == {k \in 0 .. n + 1 : after[k] = none}
<1>5. 0 \in good
  BY <1>1, <1>2, <1>3 DEF PassesTo
<1>6. \A k \in 1 .. n + 1 : k - 1 \in good => k \in good
  BY <1>1, <1>4 DEF PassesTo
<1> HIDE DEF good
<1>7. 0 .. n + 1 \subseteq good
  BY <1>2, <1>5, <1>6, UpTo
<1>8. n + 1 \in good
  BY <1>2, <1>7
<1> QED
  BY <1>1, <1>3, <1>8 DEF PassesTo, good

\* The weights that count, and the floor.
Counting(weights, n) == [i \in 1 .. n |-> IF weights[i] > 0 THEN weights[i] ELSE 1]
FloorOf(avail, n) == Min({ColMin, avail \div n})

LEMMA FloorIs ==
  ASSUME NEW n \in Nat \ {0}, NEW avail \in Nat
  PROVE  /\ FloorOf(avail, n) \in Nat /\ FloorOf(avail, n) * n <= avail
         /\ n * ColMin <= avail => FloorOf(avail, n) = ColMin
         /\ n = 1 => FloorOf(avail, n) = Min({ColMin, avail})
<1>1. PICK c \in Nat : c = ColMin
  BY ConstantsAre
<1>2. PICK q \in Nat : q = avail \div n /\ n * q <= avail
  BY Quotient
<1>3. FloorOf(avail, n) = IF c <= q THEN c ELSE q
  BY <1>1, <1>2, MinOfTwo DEF FloorOf
<1>4. PICK f \in Nat : f = FloorOf(avail, n) /\ f <= q
  BY <1>3
<1>5. f * n <= avail
  <2>1. n * f <= n * q
    BY <1>4
  <2>2. n * f = f * n /\ n * f \in Int /\ n * q \in Int
    OBVIOUS
  <2> QED
    BY <1>2, <2>1, <2>2
<1>6. ASSUME n * c <= avail PROVE f = c
  <2>1. c <= q
    BY <1>2, <1>6, QuotientReaches
  <2> QED
    BY <1>3, <1>4, <2>1
<1>7. ASSUME n = 1 PROVE q = avail
  BY <1>2, <1>7
<1> QED
  BY <1>1, <1>2, <1>4, <1>5, <1>6, <1>7 DEF FloorOf

LEMMA CountingSetting ==
  ASSUME NEW n \in Nat \ {0}, NEW avail \in Nat, NEW weights \in Seq(Nat), Len(weights) = n
  PROVE  Setting(Counting(weights, n), avail, FloorOf(avail, n), n)
<1>1. PICK w : w = Counting(weights, n)
  OBVIOUS
<1>2. \A i \in 1 .. n : w[i] \in Nat /\ w[i] >= 1
  BY <1>1 DEF Counting
<1>3. w \in [1 .. n -> Nat] /\ AllAtLeast(w, 1 .. n, 1)
  BY <1>1, <1>2 DEF Counting, AllAtLeast
<1>4. PICK f \in Nat : f = FloorOf(avail, n) /\ f * n <= avail
  BY FloorIs
<1> QED
  BY <1>1, <1>3, <1>4 DEF Setting

\* What resolve_widths promises of the widths of n widgets.
Resolved(px, n, avail) ==
  /\ px \in [1 .. n -> Nat] /\ SumOf(px) \in avail - n + 1 .. avail
  /\ AllAtLeast(px, 1 .. n, FloorOf(avail, n))

\* resolve_widths keeps what it promises, for all weights.
LEMMA ResolveIs ==
  ASSUME NEW n \in Nat \ {0}, NEW avail \in Nat, NEW weights \in Seq(Nat), Len(weights) = n
  PROVE  Resolved(ResolveWidths(weights, avail), n, avail)
<1>1. PICK w : w = Counting(weights, n)
  OBVIOUS
<1>2. PICK f : f = FloorOf(avail, n)
  OBVIOUS
<1>3. PICK pinned : pinned = Pinned(w, avail, f)
  OBVIOUS
<1>4. PICK px : px = Shares(w, avail, f, pinned)
  OBVIOUS
<1>5. Setting(w, avail, f, n)
  BY <1>1, <1>2, CountingSetting
<1>6. pinned \in SUBSET (1 .. n) /\ pinned # 1 .. n
  BY <1>3, <1>5, PinnedIs DEF ProperOf
<1>7. px \in [1 .. n -> Nat] /\ SumOf(px) \in avail - n + 1 .. avail
  BY <1>4, <1>5, <1>6, SharesAre
<1>8. AllAtLeast(px, 1 .. n, f)
  BY <1>3, <1>4, <1>5, PinnedIs
<1>9. ResolveWidths(weights, avail) = px
  BY <1>1, <1>2, <1>3, <1>4 DEF ResolveWidths, Counting, FloorOf
<1> QED
  BY <1>2, <1>7, <1>8, <1>9 DEF Resolved

\* Weights for the row of band b, and those of the band's own widgets.
WeightsFor(weights, b) == weights \in Seq(Nat) /\ Len(weights) = Len(rows[b.row].weights)
Own(weights, b) == SubSeq(weights, b.start + 1, b.start + b.len)

LEMMA OwnIs ==
  ASSUME LayoutInv, NEW b \in BandsOf, NEW weights, WeightsFor(weights, b)
  PROVE  /\ Own(weights, b) \in Seq(Nat) /\ Len(Own(weights, b)) = b.len
         /\ \A i \in 1 .. b.len : Own(weights, b)[i] = weights[b.start + i]
<1>1. PICK n \in Nat \ {0} : n = b.len
  BY BandIs
<1>2. PICK k \in Nat : k = b.start
  BY BandIs
<1>3. PICK m \in Nat : m = Len(weights) /\ k + n <= m
  BY <1>1, <1>2, BandIs, RowIs DEF WeightsFor
<1>4. \A i \in 1 .. m : weights[i] \in Nat
  BY <1>3 DEF WeightsFor
<1>5. \A i \in k + 1 .. k + n : weights[i] \in Nat
  BY <1>3, <1>4
<1>6. /\ SubSeq(weights, k + 1, k + n) \in Seq(Nat)
      /\ Len(SubSeq(weights, k + 1, k + n)) =
           IF k + 1 <= k + n THEN k + n - (k + 1) + 1 ELSE 0
      /\ \A i \in 1 .. k + n - (k + 1) + 1 : SubSeq(weights, k + 1, k + n)[i] = weights[k + 1 + i - 1]
  BY <1>5, SubSeqProperties
<1>7. k + n - (k + 1) + 1 = n /\ k + 1 <= k + n /\ \A i \in 1 .. n : k + 1 + i - 1 = k + i
  OBVIOUS
<1> QED
  BY <1>1, <1>2, <1>6, <1>7 DEF Own

\* It does so for every band.
LEMMA WidthsForAre ==
  ASSUME LayoutInv, NEW b \in BandsOf, NEW weights, WeightsFor(weights, b)
  PROVE  Resolved(WidthsFor(weights, b), b.len, ContentW(b))
<1>1. Own(weights, b) \in Seq(Nat) /\ Len(Own(weights, b)) = b.len
  BY OwnIs
<1>2. b.len \in Nat \ {0} /\ ContentW(b) \in Nat
  BY BandIs, ContentIs
<1>3. WidthsFor(weights, b) = ResolveWidths(Own(weights, b), ContentW(b))
  BY DEF WidthsFor, Own
<1> QED
  BY <1>1, <1>2, <1>3, ResolveIs

\* The floor of a band: nothing is narrower than a column or than the window, and of
\* two or more nothing is narrower than a column.
LEMMA BandFloor ==
  ASSUME LayoutInv, NEW b \in BandsOf
  PROVE  /\ FloorOf(ContentW(b), b.len) \in Nat
         /\ FloorOf(ContentW(b), b.len) >= Min({ColMin, window.w})
         /\ b.len >= 2 => FloorOf(ContentW(b), b.len) = ColMin
<1>1. PICK n \in Nat \ {0} : n = b.len
  BY BandIs
<1>2. PICK a \in Nat : a = ContentW(b)
  BY ContentIs
<1>3. Min({ColMin, window.w}) \in Nat /\ Min({ColMin, window.w}) <= ColMin
  BY ConstantsAre, WindowIs, MinOfTwo
<1>4. n >= 2 => FloorOf(a, n) = ColMin
  BY <1>1, <1>2, ContentIs, FloorIs
<1>5. n = 1 => FloorOf(a, n) = Min({ColMin, window.w})
  BY <1>1, <1>2, ContentIs, FloorIs
<1>6. n = 1 \/ n >= 2
  OBVIOUS
<1> QED
  BY <1>1, <1>2, <1>3, <1>4, <1>5, <1>6, ConstantsAre

-----------------------------------------------------------------------------
(* Seams                                                                   *)

Without(h, V, x, y, g) == h = [z \in V \ {x, y} |-> g[z]]
PairAndRest(g, x, y, h) == SumOf(g) = g[x] + g[y] + SumOf(h)

LEMMA PairSplits ==
  ASSUME NEW V, IsFiniteSet(V), NEW g \in [V -> Nat], NEW x \in V, NEW y \in V, x # y,
         NEW h, Without(h, V, x, y, g)
  PROVE  PairAndRest(g, x, y, h)
<1>1. PICK T : T = V \ {x}
  OBVIOUS
<1>2. IsFiniteSet(T) /\ y \in T
  BY <1>1, FS_Subset
<1>3. PICK r : r = [z \in T |-> g[z]]
  OBVIOUS
<1>4. r \in [T -> Nat] /\ Leaves(g, V, x, r)
  BY <1>1, <1>3 DEF Leaves
<1>5. V \ {x, y} = T \ {y}
  BY <1>1
<1>6. Leaves(r, T, y, h)
  BY <1>1, <1>3, <1>5 DEF Leaves, Without
<1>7. Summed(g) \in Nat /\ Summed(r) \in Nat /\ AddsUp(g, x, r)
  BY <1>4, TotalLess
<1>8. Summed(h) \in Nat /\ AddsUp(r, y, h)
  BY <1>2, <1>4, <1>6, TotalLess
<1>9. r[y] = g[y] /\ g[x] \in Nat /\ g[y] \in Nat
  BY <1>2, <1>3
<1>10. Summed(g) = g[x] + Summed(r) /\ Summed(r) = g[y] + Summed(h)
  BY <1>7, <1>8, <1>9 DEF AddsUp
<1>11. Summed(g) = g[x] + g[y] + Summed(h)
  BY <1>7, <1>8, <1>9, <1>10
<1> QED
  BY <1>11 DEF SumOf, Summed, PairAndRest

\* new differs from px in k and k + 1 only, which have as much together as before and
\* neither is below the floor.
Moved(new, px, n, k) ==
  /\ new \in [1 .. n -> Nat] /\ AllAtLeast(new, 1 .. n, ColMin)
  /\ SumOf(new) = SumOf(px) /\ new[k] + new[k + 1] = px[k] + px[k + 1]
  /\ \A i \in 1 .. n \ {k, k + 1} : new[i] = px[i]

\* The left width is clamped between the floor and what leaves the floor to the right.
LEMMA LeftIs ==
  ASSUME NEW both \in Nat, NEW c \in Nat, both >= 2 * c, NEW x \in Int, NEW left,
         left = Clamp(x, c, both - c)
  PROVE  left \in Nat /\ left >= c /\ both - left >= c /\ both - left \in Nat
<1>1. left \in Int /\ left >= c /\ left <= both - c
  BY DEF Clamp
<1> QED
  BY <1>1

\* A drag moves width between two neighbours only.
LEMMA DraggedIs ==
  ASSUME NEW n \in Nat, NEW px \in [1 .. n -> Nat], AllAtLeast(px, 1 .. n, ColMin),
         NEW k \in 1 .. n - 1, NEW d \in Int
  PROVE  Moved(Dragged(px, k, d), px, n, k)
<1>1. PICK c \in Nat : c = ColMin
  BY ConstantsAre
<1>2. PICK l \in 1 .. n : l = k + 1 /\ k \in 1 .. n /\ k # l
  OBVIOUS
<1>3. px[k] \in Nat /\ px[l] \in Nat /\ px[k] >= c /\ px[l] >= c
  BY <1>1, <1>2 DEF AllAtLeast
<1>4. PICK both \in Nat : both = px[k] + px[l] /\ both >= 2 * c
  BY <1>3
<1>5. Min({c, both \div 2}) = c
  <2>1. both \div 2 \in Int /\ c <= both \div 2
    <3>1. both \div 2 \in Nat /\ c <= both \div 2
      BY <1>4, Quotient, QuotientReaches
    <3> QED
      BY <3>1
  <2> QED
    BY <2>1, MinOfTwo
<1>6. PICK x \in Int : x = px[k] + d
  BY <1>3
<1>7. PICK left : left = Clamp(x, c, both - c)
  OBVIOUS
<1>8. left \in Nat /\ left >= c /\ both - left >= c /\ both - left \in Nat
  BY <1>4, <1>7, LeftIs
<1>9. PICK new : new = [px EXCEPT ![k] = left, ![l] = both - left]
  OBVIOUS
<1>10. Dragged(px, k, d) = new
  BY <1>1, <1>2, <1>4, <1>5, <1>6, <1>7, <1>9 DEF Dragged
<1>11. /\ new \in [1 .. n -> Nat] /\ new[k] = left /\ new[l] = both - left
       /\ \A i \in 1 .. n \ {k, l} : new[i] = px[i]
  <2>1. new \in [1 .. n -> Nat]
    BY <1>2, <1>8, <1>9
  <2>2. new[k] = left /\ new[l] = both - left
    BY <1>2, <1>9
  <2>3. \A i \in 1 .. n \ {k, l} : new[i] = px[i]
    BY <1>2, <1>9
  <2> QED
    BY <2>1, <2>2, <2>3
<1>12. AllAtLeast(new, 1 .. n, ColMin)
  <2>1. \A i \in 1 .. n \ {k, l} : px[i] >= c
    BY <1>1 DEF AllAtLeast
  <2>2. \A i \in 1 .. n : i = k \/ i = l \/ i \in 1 .. n \ {k, l}
    OBVIOUS
  <2> QED
    BY <1>1, <1>8, <1>11, <2>1, <2>2 DEF AllAtLeast
<1>13. SumOf(new) = SumOf(px)
  <2>1. PICK T : T = 1 .. n
    OBVIOUS
  <2>2. IsFiniteSet(T)
    BY <2>1, FS_Interval
  <2>3. px \in [T -> Nat] /\ new \in [T -> Nat] /\ k \in T /\ l \in T /\ k # l
    BY <1>2, <1>11, <2>1
  <2>4. PICK h : Without(h, T, k, l, px)
    BY DEF Without
  <2>5. Without(h, T, k, l, new)
    BY <1>11, <2>1, <2>4 DEF Without
  <2>6. PairAndRest(px, k, l, h)
    BY <2>2, <2>3, <2>4, PairSplits
  <2>7. PairAndRest(new, k, l, h)
    BY <2>2, <2>3, <2>5, PairSplits
  <2>8. new[k] + new[l] = px[k] + px[l]
    BY <1>3, <1>4, <1>8, <1>11
  <2> QED
    BY <2>6, <2>7, <2>8 DEF PairAndRest
<1>14. new[k] + new[k + 1] = px[k] + px[k + 1]
  BY <1>2, <1>3, <1>4, <1>8, <1>11
<1>15. \A i \in 1 .. n \ {k, k + 1} : new[i] = px[i]
  BY <1>2, <1>11
<1> QED
  BY <1>10, <1>11, <1>12, <1>13, <1>14, <1>15 DEF Moved

\* A piece of a sequence replaced by another of the same length.
Spliced(w, px, start, len) ==
  SubSeq(w, 1, start) \o px \o SubSeq(w, start + len + 1, Len(w))
Piece(w, start, len) == w \in Seq(Nat) /\ start + len <= Len(w)
Carries(new, w, px, start, len) ==
  /\ new \in Seq(Nat) /\ Len(new) = Len(w)
  /\ \A i \in 1 .. len : new[start + i] = px[i]

LEMMA SplicedIs ==
  ASSUME NEW w, NEW k \in Nat, NEW n \in Nat, Piece(w, k, n),
         NEW px \in [1 .. n -> Nat], NEW new, new = Spliced(w, px, k, n)
  PROVE  Carries(new, w, px, k, n)
<1>1. w \in Seq(Nat) /\ k + n <= Len(w)
  BY DEF Piece
<1>2. PICK m \in Nat : m = Len(w) /\ k + n <= m
  BY <1>1
<1>3. px \in Seq(Nat) /\ Len(px) = n
  BY LenIs
<1>4. \A i \in 1 .. m : w[i] \in Nat
  BY <1>1, <1>2
<1>5. PICK a : a = SubSeq(w, 1, k)
  OBVIOUS
<1>6. a \in Seq(Nat) /\ Len(a) = k
  <2>1. \A i \in 1 .. k : w[i] \in Nat
    BY <1>2, <1>4
  <2>2. a \in Seq(Nat) /\ Len(a) = IF 1 <= k THEN k - 1 + 1 ELSE 0
    BY <1>5, <2>1, SubSeqProperties
  <2> QED
    BY <2>2
<1>7. PICK c : c = SubSeq(w, k + n + 1, m)
  OBVIOUS
<1>8. c \in Seq(Nat) /\ Len(c) = m - (k + n)
  <2>1. \A i \in k + n + 1 .. m : w[i] \in Nat
    BY <1>4
  <2>2. PICK x \in Int : x = k + n + 1
    OBVIOUS
  <2>3. c = SubSeq(w, x, m) /\ \A i \in x .. m : w[i] \in Nat
    BY <1>7, <2>1, <2>2
  <2>4. c \in Seq(Nat) /\ Len(c) = IF x <= m THEN m - x + 1 ELSE 0
    BY <2>3, SubSeqProperties
  <2> QED
    BY <1>2, <2>2, <2>4
<1>9. PICK e : e = a \o px
  OBVIOUS
<1>10. e \in Seq(Nat) /\ Len(e) = k + n /\ \A i \in 1 .. n : e[k + i] = px[i]
  <2>1. /\ e \in Seq(Nat) /\ Len(e) = k + n
        /\ \A i \in 1 .. k + n : e[i] = IF i <= k THEN a[i] ELSE px[i - k]
    BY <1>3, <1>6, <1>9, ConcatProperties
  <2>2. ASSUME NEW i \in 1 .. n PROVE e[k + i] = px[i]
    <3>1. PICK j \in 1 .. k + n : j = k + i
      OBVIOUS
    <3>2. e[j] = px[j - k] /\ j - k = i
      BY <2>1, <3>1
    <3> QED
      BY <3>1, <3>2
  <2> QED
    BY <2>1, <2>2
<1>11. new = e \o c
  BY <1>2, <1>5, <1>7, <1>9 DEF Spliced
<1>12. PICK x \in Nat, y \in Nat : x = Len(e) /\ x = k + n /\ y = Len(c) /\ x + y = m
  <2>1. PICK x \in Nat : x = k + n
    OBVIOUS
  <2>2. PICK y \in Nat : y = m - x /\ x + y = m
    <3>1. x <= m
      BY <1>2, <2>1
    <3>2. m - x \in Nat /\ x + (m - x) = m
      BY <3>1
    <3> QED
      BY <3>2
  <2>3. x = Len(e) /\ y = Len(c)
    BY <1>8, <1>10, <2>1, <2>2
  <2> QED
    BY <2>1, <2>2, <2>3
<1>13. /\ new \in Seq(Nat) /\ Len(new) = x + y
       /\ \A i \in 1 .. x + y : new[i] = IF i <= x THEN e[i] ELSE c[i - x]
  <2>1. /\ new \in Seq(Nat) /\ Len(new) = Len(e) + Len(c)
        /\ \A i \in 1 .. Len(e) + Len(c) :
             new[i] = IF i <= Len(e) THEN e[i] ELSE c[i - Len(e)]
    <3>1. e \in Seq(Nat) /\ c \in Seq(Nat)
      BY <1>8, <1>10
    <3> QED
      BY <1>11, <3>1, ConcatProperties
  <2> QED
    BY <1>12, <2>1
<1>14. ASSUME NEW i \in 1 .. n PROVE new[k + i] = px[i]
  <2>1. PICK j \in 1 .. x : j = k + i
    BY <1>12
  <2>2. new[j] = e[j]
    BY <1>12, <1>13
  <2> QED
    BY <1>10, <2>1, <2>2
<1> QED
  BY <1>2, <1>12, <1>13, <1>14 DEF Carries

\* What a drag of a vertical seam stores: the weights of band b's row are replaced
\* by ones whose own part is what the seam left.
Stored(b, k, d) ==
  Spliced(rows[b.row].weights, Dragged(Widths(b), k, d), b.start, b.len)

LEMMA WidthsAre ==
  ASSUME LayoutInv, NEW b \in BandsOf
  PROVE  WeightsFor(rows[b.row].weights, b) /\ Resolved(Widths(b), b.len, ContentW(b))
<1>1. WeightsFor(rows[b.row].weights, b)
  BY BandIs, RowIs DEF WeightsFor
<1> QED
  BY <1>1, WidthsForAre DEF Widths

LEMMA DragVIs ==
  ASSUME LayoutInv, NEW b \in BandsOf, NEW d \in Deltas, NEW k \in 1 .. b.len - 1,
         DragV(b, k, d)
  PROVE  /\ rows' = [rows EXCEPT ![b.row] = [rows[b.row] EXCEPT !.weights = Stored(b, k, d)]]
         /\ window' = window
         /\ Moved(Dragged(Widths(b), k, d), Widths(b), b.len, k)
         /\ WeightsFor(Stored(b, k, d), b)
         /\ Own(Stored(b, k, d), b) = Dragged(Widths(b), k, d)
<1>1. PICK n \in Nat \ {0} : n = b.len /\ n >= 2 /\ k \in 1 .. n - 1
  BY BandIs
<1>2. PICK px : px = Widths(b)
  OBVIOUS
<1>3. px \in [1 .. n -> Nat] /\ AllAtLeast(px, 1 .. n, ColMin)
  BY <1>1, <1>2, WidthsAre, BandFloor DEF Resolved
<1>4. d \in Int
  BY LayoutAssumption
<1>5. PICK new : new = Dragged(px, k, d)
  OBVIOUS
<1>6. Moved(new, px, n, k)
  BY <1>1, <1>3, <1>4, <1>5, DraggedIs
<1>7. new \in [1 .. n -> Nat]
  BY <1>6 DEF Moved
<1>8. PICK w \in Seq(Nat) : w = rows[b.row].weights
  BY BandIs, RowIs
<1>9. PICK s \in Nat : s = b.start /\ s + n <= Len(w)
  BY <1>1, <1>8, BandIs
<1>10. PICK r : r = Spliced(w, new, s, n)
  OBVIOUS
<1>11. r = Stored(b, k, d)
  BY <1>1, <1>2, <1>5, <1>8, <1>9, <1>10 DEF Stored
<1>12. r \in Seq(Nat) /\ Len(r) = Len(w) /\ \A i \in 1 .. n : r[s + i] = new[i]
  <2>1. Piece(w, s, n)
    BY <1>9 DEF Piece
  <2>2. Carries(r, w, new, s, n)
    BY <1>7, <1>10, <2>1, SplicedIs
  <2> QED
    BY <2>2 DEF Carries
<1>13. WeightsFor(r, b)
  BY <1>8, <1>12 DEF WeightsFor
<1>14. Own(r, b) = new
  <2>1. PICK o : o = Own(r, b)
    OBVIOUS
  <2>2. o \in Seq(Nat) /\ Len(o) = n /\ \A i \in 1 .. n : o[i] = r[s + i]
    BY <1>1, <1>9, <1>13, <2>1, OwnIs
  <2>3. new \in Seq(Nat) /\ Len(new) = n
    BY <1>7, LenIs
  <2>4. \A i \in 1 .. n : o[i] = new[i]
    BY <1>12, <2>2
  <2>5. o = new
    BY <2>2, <2>3, <2>4, SeqEqual
  <2> QED
    BY <2>1, <2>5
<1>15. rows' = [rows EXCEPT ![b.row].weights = r] /\ window' = window
  BY <1>1, <1>2, <1>5, <1>8, <1>9, <1>10 DEF DragV, Spliced
<1>16. rows' = [rows EXCEPT ![b.row] = [rows[b.row] EXCEPT !.weights = r]]
  BY <1>15
<1> QED
  BY <1>1, <1>2, <1>5, <1>6, <1>11, <1>13, <1>14, <1>15, <1>16

\* Shared out over a little more room, at most n - 1 more, what is a part of the sum
\* grows by at most as much.
LEMMA Grows ==
  ASSUME NEW s \in Nat \ {0}, NEW n \in Nat \ {0}, NEW avail \in s .. s + n - 1, NEW x \in 0 .. s
  PROVE  (avail * x) \div s \in x .. x + n - 1
<1>1. PICK e \in 0 .. n - 1 : avail = s + e
  <2>1. avail - s \in 0 .. n - 1 /\ avail = s + (avail - s)
    OBVIOUS
  <2> QED
    BY <2>1
<1>2. avail * x = s * x + e * x
  BY <1>1
<1>3. e * x <= e * s
  OBVIOUS
<1>4. e * s = s * e /\ s * (x + e) = s * x + s * e
  OBVIOUS
<1>5. avail * x \in Nat /\ s * x \in Nat /\ e * x \in Nat /\ s * e \in Nat
  OBVIOUS
<1>6. PICK q \in Nat : q = (avail * x) \div s /\ s * q <= avail * x
  BY <1>5, Quotient
<1>7. x <= q
  <2>1. s * x <= avail * x
    BY <1>2, <1>5
  <2> QED
    BY <1>5, <1>6, <2>1, QuotientReaches
<1>8. q <= x + e
  <2>1. ASSUME q > x + e PROVE FALSE
    <3>1. s * (x + e + 1) <= s * q
      BY <2>1
    <3>2. s * (x + e + 1) = s * x + s * e + s
      OBVIOUS
    <3>3. s * q \in Nat
      OBVIOUS
    <3> QED
      BY <1>2, <1>3, <1>4, <1>5, <1>6, <3>1, <3>2, <3>3
  <2> QED
    BY <2>1, <1>6
<1> QED
  BY <1>6, <1>7, <1>8

\* Two parts together.
LEMMA TwoGrow ==
  ASSUME NEW s \in Nat \ {0}, NEW n \in Nat \ {0}, NEW avail \in s .. s + n - 1,
         NEW x \in 0 .. s, NEW y \in 0 .. s, NEW z \in 0 .. s, z = x + y
  PROVE  (avail * x) \div s + (avail * y) \div s \in z .. z + n - 1
<1>1. PICK p \in Nat : p = (avail * x) \div s /\ s * p <= avail * x /\ x <= p
  <2>1. avail * x \in Nat
    OBVIOUS
  <2> QED
    BY <2>1, Quotient, Grows
<1>2. PICK q \in Nat : q = (avail * y) \div s /\ s * q <= avail * y /\ y <= q
  <2>1. avail * y \in Nat
    OBVIOUS
  <2> QED
    BY <2>1, Quotient, Grows
<1>3. (avail * z) \div s \in Nat /\ (avail * z) \div s <= z + n - 1
  <2>1. avail * z \in Nat
    OBVIOUS
  <2>2. (avail * z) \div s \in z .. z + n - 1
    BY Grows
  <2> QED
    BY <2>1, <2>2, Quotient
<1>4. p + q <= (avail * z) \div s
  <2>1. s * (p + q) = s * p + s * q /\ avail * z = avail * x + avail * y
    OBVIOUS
  <2>2. /\ s * p \in Int /\ s * q \in Int /\ avail * x \in Int /\ avail * y \in Int
        /\ avail * z \in Nat /\ p + q \in Nat
    OBVIOUS
  <2>3. s * (p + q) <= avail * z
    BY <1>1, <1>2, <2>1, <2>2
  <2> QED
    BY <2>2, <2>3, QuotientReaches
<1>5. z <= p + q /\ p + q <= z + n - 1
  BY <1>1, <1>2, <1>3, <1>4
<1> QED
  BY <1>1, <1>2, <1>5

\* Weights that are widths already, all at the floor or above, that fill the room to
\* within a pixel a widget.
Filling(px, avail, floor, n) ==
  /\ n \in Nat \ {0} /\ px \in [1 .. n -> Nat] /\ AllAtLeast(px, 1 .. n, floor)
  /\ floor \in Nat \ {0} /\ floor * n <= avail /\ avail \in Nat
  /\ SumOf(px) \in avail - n + 1 .. avail

LEMMA FillingSum ==
  ASSUME NEW n, NEW px, NEW avail, NEW floor, Filling(px, avail, floor, n),
         NEW s, s = SumOf(px)
  PROVE  s \in Nat \ {0} /\ avail \in s .. s + n - 1 /\ \A i \in 1 .. n : px[i] \in 0 .. s
<1>1. /\ n \in Nat \ {0} /\ px \in [1 .. n -> Nat] /\ \A i \in 1 .. n : px[i] >= floor
      /\ floor \in Nat \ {0} /\ avail \in Nat /\ s \in avail - n + 1 .. avail
  BY DEF Filling, AllAtLeast
<1>2. PICK T : T = 1 .. n
  OBVIOUS
<1>3. IsFiniteSet(T) /\ px \in [T -> Nat]
  <2>1. IsFiniteSet(1 .. n)
    BY <1>1, FS_Interval
  <2> QED
    BY <1>1, <1>2, <2>1
<1>4. s \in Nat
  BY <1>3, SumNat
<1>5. ASSUME NEW i \in 1 .. n PROVE px[i] <= s
  <2>1. PICK h : Leaves(px, T, i, h)
    BY DEF Leaves
  <2>2. Summed(px) \in Nat /\ Summed(h) \in Nat /\ AddsUp(px, i, h)
    BY <1>2, <1>3, <2>1, TotalLess
  <2>3. Summed(px) = px[i] + Summed(h) /\ px[i] \in Nat
    BY <1>1, <2>2 DEF AddsUp
  <2>4. s = Summed(px)
    BY DEF SumOf, Summed
  <2> QED
    BY <2>2, <2>3, <2>4
<1>6. s # 0
  <2>1. px[1] \in Nat /\ px[1] >= floor /\ 1 \in 1 .. n
    BY <1>1
  <2>2. px[1] <= s
    BY <1>5, <2>1
  <2> QED
    BY <1>1, <1>4, <2>1, <2>2
<1>7. \A i \in 1 .. n : px[i] \in 0 .. s
  BY <1>1, <1>4, <1>5
<1>8. avail \in s .. s + n - 1
  BY <1>1, <1>4
<1> QED
  BY <1>4, <1>6, <1>7, <1>8

\* They are shared out without anyone at the floor.
ScaledUp(new, px, n, avail, s) == new = [i \in 1 .. n |-> (avail * px[i]) \div s]

LEMMA FillingShares ==
  ASSUME NEW n, NEW px, NEW avail, NEW floor, Filling(px, avail, floor, n),
         NEW s, s = SumOf(px), NEW new, new = Shares(px, avail, floor, Pinned(px, avail, floor))
  PROVE  ScaledUp(new, px, n, avail, s)
<1>1. /\ n \in Nat \ {0} /\ px \in [1 .. n -> Nat] /\ \A i \in 1 .. n : px[i] >= floor
      /\ floor \in Nat \ {0} /\ avail \in Nat /\ floor * n <= avail
  BY DEF Filling, AllAtLeast
<1>2. s \in Nat \ {0} /\ avail \in s .. s + n - 1 /\ \A i \in 1 .. n : px[i] \in 0 .. s
  BY FillingSum
<1>3. Setting(px, avail, floor, n)
  <2>1. \A i \in 1 .. n : px[i] \in Nat /\ px[i] >= floor
    BY <1>1
  <2>2. AllAtLeast(px, 1 .. n, 1)
    BY <1>1, <2>1 DEF AllAtLeast
  <2> QED
    BY <1>1, <2>2 DEF Setting
<1>4. Shares(px, avail, floor, {}) = [i \in 1 .. n |-> (avail * px[i]) \div s]
  <2>1. DOMAIN px \ {} = 1 .. n /\ DOMAIN px = 1 .. n /\ px = [i \in 1 .. n |-> px[i]]
    BY <1>1
  <2>2. [i \in DOMAIN px \ {} |-> px[i]] = px
    BY <2>1
  <2>3. Cardinality({}) = 0 /\ avail - 0 * floor = avail
    BY <1>1, FS_EmptySet
  <2>4. AtLeast(avail - Cardinality({}) * floor, 0) = avail
    <3>1. AtLeast(avail, 0) = avail
      BY <1>1, AtLeastIs
    <3> QED
      BY <2>3, <3>1
  <2>5. SumOf([i \in DOMAIN px \ {} |-> px[i]]) = s
    BY <2>2
  <2>6. Shares(px, avail, floor, {}) =
          [i \in DOMAIN px |-> IF i \in {} THEN floor ELSE (avail * px[i]) \div s]
    BY <2>4, <2>5 DEF Shares
  <2> QED
    BY <2>1, <2>6
<1>5. AllAtLeast(Shares(px, avail, floor, {}), 1 .. n, floor)
  <2>1. ASSUME NEW i \in 1 .. n PROVE (avail * px[i]) \div s >= floor
    <3>1. (avail * px[i]) \div s \in px[i] .. px[i] + n - 1
      BY <1>1, <1>2, Grows
    <3> QED
      BY <1>1, <3>1
  <2> QED
    BY <1>4, <2>1 DEF AllAtLeast
<1>6. Pinned(px, avail, floor) = {}
  BY <1>3, <1>5, NonePinned
<1> QED
  BY <1>4, <1>6 DEF ScaledUp

\* The next frame shares what a drag stored.
LEMMA NextFrame ==
  ASSUME LayoutInv, NEW b \in BandsOf, NEW weights, WeightsFor(weights, b), b.len >= 2,
         NEW px, px = Own(weights, b), Filling(px, ContentW(b), ColMin, b.len),
         NEW s, s = SumOf(px)
  PROVE  WidthsFor(weights, b) = [i \in 1 .. b.len |-> (ContentW(b) * px[i]) \div s]
<1>1. PICK n : n = b.len
  OBVIOUS
<1>2. PICK avail : avail = ContentW(b)
  OBVIOUS
<1>3. PICK f : f = ColMin
  OBVIOUS
<1>4. Filling(px, avail, f, n) /\ n \in Nat \ {0} /\ px \in [1 .. n -> Nat]
  BY <1>1, <1>2, <1>3 DEF Filling
<1>5. Counting(px, n) = px
  <2>1. \A i \in 1 .. n : px[i] > 0
    <3>1. f \in Nat \ {0} /\ \A i \in 1 .. n : px[i] >= f
      BY <1>4 DEF Filling, AllAtLeast
    <3> QED
      BY <1>4, <3>1
  <2> QED
    BY <1>4, <2>1 DEF Counting
<1>6. FloorOf(avail, n) = f
  BY <1>1, <1>2, <1>3, BandFloor
<1>7. Len(px) = n
  BY <1>4, LenIs
<1>8. ResolveWidths(px, avail) =
        Shares(Counting(px, n), avail, FloorOf(avail, n), Pinned(Counting(px, n), avail, FloorOf(avail, n)))
  BY <1>7 DEF ResolveWidths, Counting, FloorOf
<1>9. PICK new : new = Shares(px, avail, f, Pinned(px, avail, f))
  OBVIOUS
<1>10. new = [i \in 1 .. n |-> (avail * px[i]) \div s]
  <2>1. ScaledUp(new, px, n, avail, s)
    BY <1>4, <1>9, FillingShares
  <2> QED
    BY <2>1 DEF ScaledUp
<1>11. WidthsFor(weights, b) = new
  BY <1>2, <1>5, <1>6, <1>8, <1>9 DEF WidthsFor, Own
<1> QED
  BY <1>1, <1>2, <1>10, <1>11

\* What the frame after a drag shows is what the drag left, to within a pixel a widget.
LEMMA SeamHolds ==
  ASSUME LayoutInv, NEW b \in BandsOf, NEW d \in Deltas, NEW k \in 1 .. b.len - 1,
         DragV(b, k, d)
  PROVE  MovesTwo(b, k, WidthsFor(rows'[b.row].weights, b))
<1>1. PICK n \in Nat \ {0} : n = b.len /\ n >= 2 /\ k \in 1 .. n - 1
  BY BandIs
<1>2. PICK px : px = Widths(b)
  OBVIOUS
<1>3. PICK avail \in Nat : avail = ContentW(b) /\ ColMin * n <= avail
  <2>1. n * ColMin <= ContentW(b) /\ ContentW(b) \in Nat /\ n * ColMin = ColMin * n
    BY <1>1, ContentIs, ConstantsAre
  <2> QED
    BY <2>1
<1>4. px \in [1 .. n -> Nat] /\ SumOf(px) \in avail - n + 1 .. avail
  BY <1>1, <1>2, <1>3, WidthsAre DEF Resolved
<1>5. PICK mid : mid = Dragged(px, k, d)
  OBVIOUS
<1>6. PICK r : r = Stored(b, k, d)
  OBVIOUS
<1>7. Moved(mid, px, n, k) /\ WeightsFor(r, b) /\ mid = Own(r, b)
  BY <1>1, <1>2, <1>5, <1>6, DragVIs
<1>8. rows'[b.row].weights = r
  <2>1. rows' = [rows EXCEPT ![b.row] = [rows[b.row] EXCEPT !.weights = r]]
    BY <1>6, DragVIs
  <2>2. b.row \in DOMAIN rows
    BY BandIs
  <2>3. rows'[b.row] = [rows[b.row] EXCEPT !.weights = r]
    BY <2>1, <2>2
  <2>4. "weights" \in DOMAIN rows[b.row]
    <3>1. rows[b.row] \in [height : Nat, weights : Seq(Nat)]
      BY <2>2 DEF LayoutInv
    <3> QED
      BY <3>1
  <2> QED
    BY <2>3, <2>4
<1>9. PICK s : s = SumOf(mid)
  OBVIOUS
<1>10. Filling(mid, avail, ColMin, n)
  BY <1>1, <1>3, <1>4, <1>7, ConstantsAre DEF Moved, Filling
<1>11. /\ s \in Nat \ {0} /\ avail \in s .. s + n - 1
       /\ \A i \in 1 .. n : mid[i] \in 0 .. s
  BY <1>9, <1>10, FillingSum
<1>12. PICK new : new = WidthsFor(r, b)
  OBVIOUS
<1>13. new = [i \in 1 .. n |-> (avail * mid[i]) \div s]
  BY <1>1, <1>3, <1>7, <1>9, <1>10, <1>12, NextFrame
<1>14. \A i \in 1 .. n : new[i] \in mid[i] .. mid[i] + n - 1
  <2>1. \A i \in 1 .. n : (avail * mid[i]) \div s \in mid[i] .. mid[i] + n - 1
    BY <1>11, Grows
  <2> QED
    BY <1>13, <2>1
<1>15. ASSUME NEW i \in 1 .. n \ {k, k + 1} PROVE px[i] - new[i] \in -n .. n
  <2>1. mid[i] = px[i] /\ px[i] \in Nat
    BY <1>4, <1>7 DEF Moved
  <2>2. new[i] \in px[i] .. px[i] + n - 1
    BY <1>14, <2>1
  <2> QED
    BY <2>1, <2>2
<1>16. (px[k] + px[k + 1]) - (new[k] + new[k + 1]) \in -n .. n
  <2>1. PICK l \in 1 .. n : l = k + 1 /\ k \in 1 .. n /\ k # l
    BY <1>1
  <2>2. PICK x \in 0 .. s : x = mid[k]
    BY <1>11, <2>1
  <2>3. PICK y \in 0 .. s : y = mid[l]
    BY <1>11, <2>1
  <2>4. PICK z \in 0 .. s : z = x + y
    <3>1. PICK T : T = 1 .. n
      OBVIOUS
    <3>2. IsFiniteSet(1 .. n)
      BY FS_Interval
    <3>3. mid \in [T -> Nat] /\ k \in T /\ l \in T /\ IsFiniteSet(T)
      BY <1>7, <2>1, <3>1, <3>2 DEF Moved
    <3>4. PICK h : Without(h, T, k, l, mid)
      BY DEF Without
    <3>5. PairAndRest(mid, k, l, h)
      BY <2>1, <3>3, <3>4, PairSplits
    <3>6. SumOf(h) \in Nat
      <4>1. PICK V : V = T \ {k, l}
        OBVIOUS
      <4>2. IsFiniteSet(V) /\ h \in [V -> Nat]
        BY <3>3, <3>4, <4>1, FS_Subset DEF Without
      <4> QED
        BY <4>2, SumNat
    <3>7. s = x + y + SumOf(h)
      BY <1>9, <2>2, <2>3, <3>5 DEF PairAndRest
    <3>8. x + y \in 0 .. s
      BY <1>11, <3>6, <3>7
    <3> QED
      BY <3>8
  <2>5. (avail * x) \div s + (avail * y) \div s \in z .. z + n - 1
    BY <1>11, <2>4, TwoGrow
  <2>6. new[k] = (avail * x) \div s /\ new[l] = (avail * y) \div s
    BY <1>13, <2>1, <2>2, <2>3
  <2>7. px[k] + px[l] = z
    BY <1>7, <2>1, <2>2, <2>3, <2>4 DEF Moved
  <2>8. PICK v \in z .. z + n - 1 : v = new[k] + new[l]
    BY <2>5, <2>6
  <2>9. z - v \in -n .. n
    OBVIOUS
  <2> QED
    BY <2>1, <2>7, <2>8, <2>9
<1>17. DOMAIN px = 1 .. n
  BY <1>4
<1>18. MovesTwo(b, k, new)
  BY <1>1, <1>2, <1>15, <1>16, <1>17 DEF MovesTwo
<1> QED
  BY <1>8, <1>12, <1>18

-----------------------------------------------------------------------------
(* The grid                                                                *)

LEMMA WidthsFill ==
  ASSUME LayoutInv, NEW b \in BandsOf
  PROVE  /\ \A i \in DOMAIN Widths(b) : Widths(b)[i] >= Min({ColMin, window.w})
         /\ SumOf(Widths(b)) \in window.w - Gap * (b.len - 1) - b.len + 1
                                     .. window.w - Gap * (b.len - 1)
<1>1. PICK n \in Nat \ {0} : n = b.len
  BY BandIs
<1>2. PICK avail \in Nat : avail = ContentW(b) /\ avail = window.w - Gap * (n - 1)
  BY <1>1, ContentIs
<1>3. PICK px : px = Widths(b)
  OBVIOUS
<1>4. PICK f \in Nat : f = FloorOf(avail, n) /\ f >= Min({ColMin, window.w})
  BY <1>1, <1>2, BandFloor
<1>5. /\ px \in [1 .. n -> Nat] /\ SumOf(px) \in avail - n + 1 .. avail
      /\ \A i \in 1 .. n : px[i] >= f
  BY <1>1, <1>2, <1>3, <1>4, WidthsAre DEF Resolved, AllAtLeast
<1>6. Min({ColMin, window.w}) \in Nat
  BY ConstantsAre, WindowIs, MinOfTwo
<1>7. \A i \in DOMAIN px : px[i] >= Min({ColMin, window.w})
  BY <1>4, <1>5, <1>6
<1> QED
  BY <1>1, <1>2, <1>3, <1>5, <1>7

LEMMA InvFills == LayoutInv => FillsWindow
<1> SUFFICES ASSUME LayoutInv PROVE FillsWindow
  OBVIOUS
<1>1. ASSUME NEW r \in DOMAIN rows, NEW i \in DOMAIN rows[r].weights
      PROVE  Cardinality({b \in BandsOf : b.row = r /\ i \in b.start + 1 .. b.start + b.len}) = 1
  BY WidgetOnce DEF Holds
<1>2. ASSUME NEW b \in BandsOf
      PROVE  LET px == Widths(b)
             IN  /\ \A i \in DOMAIN px : px[i] >= Min({ColMin, window.w})
                 /\ SumOf(px) \in window.w - Gap * (b.len - 1) - b.len + 1
                                     .. window.w - Gap * (b.len - 1)
  BY WidthsFill
<1>3. ASSUME Free >= SumH
      PROVE  LET drawn == SumOf([b \in BandsOf |-> Height(b)])
             IN  drawn \in Free - Cardinality(BandsOf) + 1 .. Free
  BY <1>3, HeightsFill DEF DrawnHeights
<1> QED
  BY <1>1, <1>2, <1>3 DEF FillsWindow

LEMMA LayoutAtFirst == GridInit => LayoutInv
<1> SUFFICES ASSUME GridInit PROVE LayoutInv
  OBVIOUS
<1>1. rows = Rows /\ window \in Windows
  BY DEF GridInit
<1>2. PICK R : R = [height : Nat, weights : Seq(Nat) \ {<<>>}]
  OBVIOUS
<1>3. Rows \in Seq(R)
  BY <1>2, RowsAssumption
<1>4. Rows \in [DOMAIN Rows -> R]
  BY <1>3
<1>5. ASSUME NEW r \in DOMAIN Rows
      PROVE  /\ Rows[r] \in [height : Nat, weights : Seq(Nat)]
             /\ Rows[r].height >= MinRow /\ Rows[r].weights # <<>>
  <2>1. Rows[r] \in [height : Nat, weights : Seq(Nat) \ {<<>>}]
    BY <1>2, <1>4
  <2> QED
    BY <2>1, RowsAssumption
<1>6. Rows \in [DOMAIN Rows -> [height : Nat, weights : Seq(Nat)]]
  BY <1>4, <1>5
<1> QED
  BY <1>1, <1>5, <1>6 DEF LayoutInv

\* A row with other weights of the same number, or another height, is a row.
LEMMA RowChanged ==
  ASSUME LayoutInv, NEW r \in DOMAIN rows,
         NEW new \in [height : Nat, weights : Seq(Nat)],
         new.height >= MinRow, new.weights # <<>>,
         rows' = [rows EXCEPT ![r] = new], window' \in Windows
  PROVE  LayoutInv'
<1>1. /\ rows \in [DOMAIN Rows -> [height : Nat, weights : Seq(Nat)]] /\ r \in DOMAIN Rows
      /\ \A x \in DOMAIN Rows : rows[x].height >= MinRow /\ rows[x].weights # <<>>
  BY DEF LayoutInv
<1>2. rows' \in [DOMAIN Rows -> [height : Nat, weights : Seq(Nat)]]
  BY <1>1
<1>3. \A x \in DOMAIN Rows : rows'[x] = IF x = r THEN new ELSE rows[x]
  BY <1>1
<1>4. \A x \in DOMAIN Rows : rows'[x].height >= MinRow /\ rows'[x].weights # <<>>
  BY <1>1, <1>3
<1> QED
  BY <1>2, <1>4 DEF LayoutInv

LEMMA DragVKeeps ==
  ASSUME LayoutInv, NEW b \in BandsOf, NEW d \in Deltas, NEW k \in 1 .. b.len - 1,
         DragV(b, k, d)
  PROVE  LayoutInv'
<1>1. PICK r \in DOMAIN rows : r = b.row
  BY BandIs
<1>2. PICK w \in Seq(Nat) : w = Stored(b, k, d) /\ Len(w) = Len(rows[r].weights)
  BY <1>1, DragVIs DEF WeightsFor
<1>3. w # <<>>
  BY <1>2, RowIs
<1>4. rows[r] \in [height : Nat, weights : Seq(Nat)] /\ rows[r].height >= MinRow
  BY RowIs DEF LayoutInv
<1>5. PICK new : new = [rows[r] EXCEPT !.weights = w]
  OBVIOUS
<1>6. /\ new \in [height : Nat, weights : Seq(Nat)]
      /\ new.height = rows[r].height /\ new.weights = w
  BY <1>4, <1>5
<1>7. rows' = [rows EXCEPT ![r] = new] /\ window' \in Windows
  BY <1>1, <1>2, <1>5, DragVIs DEF LayoutInv
<1> QED
  BY <1>3, <1>4, <1>6, <1>7, RowChanged

LEMMA DragHKeeps ==
  ASSUME LayoutInv, NEW b \in BandsOf, NEW d \in Deltas, DragH(b, d)
  PROVE  LayoutInv'
<1>1. PICK r \in DOMAIN rows : r = b.row
  BY BandIs
<1>2. /\ rows[r] \in [height : Nat, weights : Seq(Nat)] /\ rows[r].weights # <<>>
      /\ rows[r].height \in Nat
  BY RowIs DEF LayoutInv
<1>3. Unscaled(d) \in Int
  <2>1. d \in Int /\ Free \in Int /\ SumH \in Nat \ {0}
    BY LayoutAssumption, FreeIs, SumHIs
  <2>2. CASE Free > SumH
    <3>1. PICK f \in Nat \ {0} : f = Free
      BY <2>1, <2>2
    <3>2. PICK a \in Int : a = d * SumH
      BY <2>1
    <3>3. a \div f \in Int
      OBVIOUS
    <3> QED
      BY <2>2, <3>1, <3>2, <3>3 DEF Unscaled
  <2>3. CASE ~(Free > SumH)
    BY <2>1, <2>3 DEF Unscaled
  <2> QED
    BY <2>2, <2>3
<1>4. PICK h \in Nat : h = AtLeast(rows[r].height + Unscaled(d), MinRow) /\ h >= MinRow
  <2>1. PICK x \in Int : x = rows[r].height + Unscaled(d)
    BY <1>2, <1>3
  <2> QED
    BY <2>1, AtLeastIs, ConstantsAre
<1>5. PICK new : new = [rows[r] EXCEPT !.height = h]
  OBVIOUS
<1>6. /\ new \in [height : Nat, weights : Seq(Nat)]
      /\ new.height = h /\ new.weights = rows[r].weights
  BY <1>2, <1>5
<1>7. rows' = [rows EXCEPT ![r] = new] /\ window' \in Windows
  BY <1>1, <1>4, <1>5 DEF DragH, LayoutInv
<1> QED
  BY <1>2, <1>4, <1>6, <1>7, RowChanged

LEMMA LayoutKept == LayoutInv /\ [GridNext]_grid => LayoutInv'
<1> SUFFICES ASSUME LayoutInv, [GridNext]_grid PROVE LayoutInv'
  OBVIOUS
<1>1. ASSUME NEW size \in Windows, Resize(size) PROVE LayoutInv'
  BY <1>1 DEF Resize, LayoutInv
<1>2. ASSUME NEW b \in BandsOf, NEW d \in Deltas,
             DragH(b, d) \/ \E k \in 1 .. b.len - 1 : DragV(b, k, d)
      PROVE  LayoutInv'
  BY <1>2, DragHKeeps, DragVKeeps
<1>3. CASE UNCHANGED grid
  BY <1>3 DEF grid, LayoutInv
<1> QED
  BY <1>1, <1>2, <1>3 DEF GridNext

\* What the dashboard stores between frames stays such as fills a window, whatever is
\* dragged: every row keeps its widgets and a height that can be drawn.
THEOREM LayoutHolds == GridSpec => []LayoutInv
<1> QED
  BY LayoutAtFirst, LayoutKept, PTL DEF GridSpec

\* Whatever is dragged in whatever window, every widget is drawn in one band and each
\* band fills the window from edge to edge: bands_of and resolve_widths.
THEOREM WindowIsFilled == GridSpec => []FillsWindow
<1> QED
  BY LayoutHolds, InvFills, PTL

\* A vertical seam moves width between its two neighbours only, and the next frame's
\* resolve_widths leaves it there.
THEOREM SeamsMoveTwo == GridSpec => SeamMovesTwo
<1> DEFINE A == \A b \in BandsOf, d \in Deltas : \A k \in 1 .. b.len - 1 :
                  DragV(b, k, d) => MovesTwo(b, k, WidthsFor(rows'[b.row].weights, b))
<1>1. LayoutInv /\ [GridNext]_grid => [A]_grid
  BY SeamHolds
<1> QED
  BY <1>1, LayoutHolds, PTL DEF GridSpec, SeamMovesTwo

-----------------------------------------------------------------------------
(* Tables                                                                  *)

Drop(t, i) == t.cols[i][2]
Width(t, i) == t.cols[i][1]
Must(t) == {i \in DOMAIN t.cols : Drop(t, i) = 0}

\* Only column f is flexible, it is never dropped, and what is not fits into 25
\* characters when it has its minimum.
TableOk(t, f) ==
  /\ f \in DOMAIN t.cols /\ Width(t, f) = 0 /\ Drop(t, f) = 0
  /\ DOMAIN t.cols \in SUBSET Nat /\ IsFiniteSet(DOMAIN t.cols)
  /\ \A i \in DOMAIN t.cols :
       Width(t, i) \in Nat /\ (Width(t, i) = 0 => i = f) /\ Drop(t, i) \in Nat
  /\ t.flex[1] \in Nat /\ t.flex[2] \in Nat /\ t.flex[1] <= t.flex[2]
  /\ WidthOf(t.cols, Must(t)) + t.flex[1] <= 25

\* Of two terms, one of them zero.
LEMMA SumOfMust ==
  ASSUME NEW f, NEW o, NEW U \in SUBSET {f, o}, f \in U, NEW g \in [U -> Nat], g[f] = 0,
         NEW c \in Nat, o \in U => g[o] <= c
  PROVE  SumOf(g) <= c
<1>1. IsFiniteSet({f, o})
  <2>1. IsFiniteSet({f}) /\ {f, o} = {f} \cup {o}
    BY FS_Singleton
  <2> QED
    BY <2>1, FS_AddElement
<1>2. IsFiniteSet(U)
  BY <1>1, FS_Subset
<1>3. PICK P \in SUBSET U : P = U \ {f}
  OBVIOUS
<1>4. PICK h : h = [x \in P |-> g[x]]
  OBVIOUS
<1>5. Supports(h, P, U, g)
  BY <1>3, <1>4 DEF Supports
<1>6. SumOf(g) = SumOf(h)
  BY <1>2, <1>5, SumOfPart
<1>7. CASE P = {}
  <2>1. Summed(h) = 0
    BY <1>4, <1>7, TotalEmpty
  <2>2. SumOf(g) = 0
    BY <1>6, <2>1 DEF SumOf, Summed
  <2> QED
    BY <2>2
<1>8. CASE P # {}
  <2>1. P = {o} /\ o \in U
    BY <1>3, <1>8
  <2>2. h \in [P -> Nat] /\ h[o] = g[o]
    BY <1>4, <2>1
  <2>3. SumOf(h) = h[o]
    BY <2>1, <2>2, SumOfOne
  <2> QED
    BY <1>6, <2>1, <2>2, <2>3
<1> QED
  BY <1>7, <1>8

LEMMA MustFits ==
  ASSUME NEW t, NEW f, NEW o, Must(t) \subseteq {f, o}, f \in Must(t), Width(t, f) = 0,
         NEW c \in Nat, \A i \in Must(t) : Width(t, i) \in 0 .. c
  PROVE  WidthOf(t.cols, Must(t)) <= c
<1>1. PICK U \in SUBSET {f, o} : U = Must(t)
  OBVIOUS
<1>2. PICK g : g = [i \in U |-> Width(t, i)]
  OBVIOUS
<1>3. g \in [U -> Nat] /\ g[f] = 0 /\ f \in U /\ (o \in U => g[o] <= c)
  BY <1>1, <1>2
<1>4. SumOf(g) <= c
  BY <1>3, SumOfMust
<1> QED
  BY <1>1, <1>2, <1>4 DEF WidthOf, Width

\* n columns of which only f and o may not be dropped, of c characters at most.
Columns(t, f, o, n, c) ==
  /\ n \in Nat /\ DOMAIN t.cols = 1 .. n /\ f \in 1 .. n /\ Width(t, f) = 0 /\ Drop(t, f) = 0
  /\ \A i \in 1 .. n :
       /\ Width(t, i) \in Nat /\ (Width(t, i) = 0 => i = f) /\ Drop(t, i) \in Nat
       /\ Drop(t, i) = 0 => i \in {f, o} /\ Width(t, i) \in 0 .. c
  /\ t.flex[1] \in Nat /\ t.flex[2] \in Nat /\ t.flex[1] <= t.flex[2]
  /\ c \in Nat /\ c + t.flex[1] <= 25

LEMMA ColumnsOk ==
  ASSUME NEW t, NEW f, NEW o, NEW n, NEW c, Columns(t, f, o, n, c)
  PROVE  TableOk(t, f)
<1>1. IsFiniteSet(1 .. n)
  BY FS_Interval DEF Columns
<1>2. WidthOf(t.cols, Must(t)) <= c
  <2>1. /\ Must(t) \subseteq {f, o} /\ f \in Must(t) /\ Width(t, f) = 0 /\ c \in Nat
        /\ \A i \in Must(t) : Width(t, i) \in 0 .. c
    BY DEF Columns, Must
  <2> QED
    BY <2>1, MustFits
<1>3. WidthOf(t.cols, Must(t)) \in Nat
  <2>1. PICK U : U = Must(t)
    OBVIOUS
  <2>2. U \in SUBSET (1 .. n) /\ \A i \in U : Width(t, i) \in Nat
    BY <2>1 DEF Columns, Must
  <2>3. IsFiniteSet(U)
    <3>1. PICK T : T = 1 .. n
      OBVIOUS
    <3> QED
      BY <1>1, <2>2, <3>1, FS_Subset
  <2>4. [i \in U |-> Width(t, i)] \in [U -> Nat]
    BY <2>2
  <2>5. SumOf([i \in U |-> Width(t, i)]) \in Nat
    BY <2>3, <2>4, SumNat
  <2> QED
    BY <2>1, <2>5 DEF WidthOf, Width
<1>4. WidthOf(t.cols, Must(t)) + t.flex[1] <= 25
  <2>1. PICK m : m = WidthOf(t.cols, Must(t))
    OBVIOUS
  <2>2. PICK l : l = t.flex[1]
    OBVIOUS
  <2>3. m \in Nat /\ l \in Nat /\ c \in Nat /\ m <= c /\ c + l <= 25
    BY <1>2, <1>3, <2>1, <2>2 DEF Columns
  <2>4. m + l <= 25
    BY <2>3
  <2> QED
    BY <2>1, <2>2, <2>4
<1>5. DOMAIN t.cols \in SUBSET Nat /\ IsFiniteSet(DOMAIN t.cols)
  BY <1>1 DEF Columns
<1> QED
  BY <1>4, <1>5 DEF Columns, TableOk

\* Each of the tables is such.
LEMMA TablesOk == \A t \in Tables : \E f : TableOk(t, f)
<1>1. Columns(FLOWS, 1, 8, 8, 11)
  BY DEF FLOWS, Columns, Width, Drop
<1>2. Columns(HOSTS, 1, 7, 7, 10)
  BY DEF HOSTS, Columns, Width, Drop
<1>3. Columns(SERVICES, 2, 1, 6, 7)
  BY DEF SERVICES, Columns, Width, Drop
<1>4. Columns(ANSWERS, 4, 4, 4, 0)
  BY DEF ANSWERS, Columns, Width, Drop
<1>5. Columns(SCAN, 3, 3, 3, 0)
  BY DEF SCAN, Columns, Width, Drop
<1>6. Columns(INTEL, 2, 2, 2, 0)
  BY DEF INTEL, Columns, Width, Drop
<1>7. /\ TableOk(FLOWS, 1) /\ TableOk(HOSTS, 1) /\ TableOk(SERVICES, 2)
      /\ TableOk(ANSWERS, 4) /\ TableOk(SCAN, 3) /\ TableOk(INTEL, 2)
  BY <1>1, <1>2, <1>3, <1>4, <1>5, <1>6, ColumnsOk
<1> QED
  BY <1>7 DEF Tables

\* The columns that go before column i, and those that are left when m have gone.
MayGo(t) == {i \in DOMAIN t.cols : Drop(t, i) > 0}
Earlier(t, i) ==
  {j \in MayGo(t) : Drop(t, j) > Drop(t, i) \/ (Drop(t, j) = Drop(t, i) /\ j > i)}
LeftAt(t, m) == {i \in DOMAIN t.cols : i \in MayGo(t) => Cardinality(Earlier(t, i)) >= m}
Fitting(t, budget, m) == WidthOf(t.cols, LeftAt(t, m)) + t.flex[1] <= budget
Enough(t, budget) ==
  {Cardinality(MayGo(t))} \cup {m \in 0 .. Cardinality(MayGo(t)) : Fitting(t, budget, m)}

LEMMA KeptLeft ==
  ASSUME NEW t, NEW budget
  PROVE  Kept(t, budget) = LeftAt(t, Min(Enough(t, budget)))
BY DEF Kept, LeftAt, Enough, Fitting, Earlier, MayGo, Drop

\* What is kept fits, and with it what must be.
LEMMA KeptFits ==
  ASSUME NEW t, NEW f, TableOk(t, f), NEW budget \in Nat, budget >= 25,
         NEW kept, kept = Kept(t, budget)
  PROVE  /\ kept \in SUBSET DOMAIN t.cols /\ Must(t) \subseteq kept
         /\ WidthOf(t.cols, kept) + t.flex[1] <= budget
<1>1. /\ IsFiniteSet(DOMAIN t.cols) /\ DOMAIN t.cols \in SUBSET Nat
      /\ \A i \in DOMAIN t.cols : Drop(t, i) \in Nat
  BY DEF TableOk
<1>2. PICK go : go = MayGo(t)
  OBVIOUS
<1>3. go \in SUBSET DOMAIN t.cols /\ IsFiniteSet(go)
  <2>1. go \in SUBSET DOMAIN t.cols
    BY <1>2 DEF MayGo
  <2> QED
    BY <1>1, <2>1, FS_Subset
<1>4. PICK n \in Nat : n = Cardinality(go)
  BY <1>3, FS_CardinalityType
<1>5. ASSUME NEW i \in go PROVE Cardinality(Earlier(t, i)) \in Nat /\ Cardinality(Earlier(t, i)) < n
  <2>1. PICK e : e = Earlier(t, i)
    OBVIOUS
  <2>2. e \subseteq go /\ i \notin e
    <3>1. i \in Nat /\ Drop(t, i) \in Nat
      BY <1>1, <1>3
    <3> QED
      BY <1>2, <2>1, <3>1 DEF Earlier
  <2>3. PICK r \in SUBSET go : r = go \ {i}
    OBVIOUS
  <2>4. e \in SUBSET r
    BY <2>2, <2>3
  <2>5. IsFiniteSet(r) /\ Cardinality(r) = n - 1
    BY <1>3, <1>4, <2>3, FS_RemoveElement
  <2>6. IsFiniteSet(e) /\ Cardinality(e) <= Cardinality(r)
    BY <2>4, <2>5, FS_Subset
  <2>7. Cardinality(e) \in Nat
    BY <2>6, FS_CardinalityType
  <2> QED
    BY <2>1, <2>5, <2>6, <2>7
<1>6. LeftAt(t, n) = Must(t)
  <2>1. ASSUME NEW i \in DOMAIN t.cols PROVE i \in go <=> Drop(t, i) # 0
    BY <1>1, <1>2 DEF MayGo
  <2>2. ASSUME NEW i \in go PROVE ~(Cardinality(Earlier(t, i)) >= n)
    BY <1>5
  <2> QED
    BY <1>2, <2>1, <2>2 DEF LeftAt, Must
<1>7. Fitting(t, budget, n)
  <2>1. WidthOf(t.cols, Must(t)) + t.flex[1] <= 25
    BY DEF TableOk
  <2>2. WidthOf(t.cols, Must(t)) \in Nat
    <3>1. PICK U : U = Must(t)
      OBVIOUS
    <3>2. U \in SUBSET DOMAIN t.cols /\ \A i \in U : Width(t, i) \in Nat
      BY <3>1 DEF TableOk, Must
    <3>3. IsFiniteSet(U) /\ [i \in U |-> Width(t, i)] \in [U -> Nat]
      BY <1>1, <3>2, FS_Subset
    <3>4. SumOf([i \in U |-> Width(t, i)]) \in Nat
      BY <3>3, SumNat
    <3> QED
      BY <3>1, <3>4 DEF WidthOf, Width
  <2>3. t.flex[1] \in Nat
    BY DEF TableOk
  <2>4. WidthOf(t.cols, Must(t)) + t.flex[1] <= budget
    BY <2>1, <2>2, <2>3
  <2> QED
    BY <1>6, <2>4 DEF Fitting
<1>8. PICK E : E = Enough(t, budget)
  OBVIOUS
<1>9. E \in SUBSET Nat /\ E # {} /\ \A m \in E : Fitting(t, budget, m)
  <2>1. E = {n} \cup {m \in 0 .. n : Fitting(t, budget, m)}
    BY <1>2, <1>4, <1>8 DEF Enough
  <2> QED
    BY <1>7, <2>1
<1>10. PICK m \in E : m = Min(E)
  BY <1>9, MinIs
<1>11. kept = LeftAt(t, m)
  BY <1>8, <1>10, KeptLeft
<1>12. Must(t) \subseteq kept
  <2>1. \A i \in Must(t) : i \notin MayGo(t) /\ i \in DOMAIN t.cols
    BY DEF Must, MayGo
  <2> QED
    BY <1>11, <2>1 DEF LeftAt
<1>13. kept \in SUBSET DOMAIN t.cols
  BY <1>11 DEF LeftAt
<1> QED
  BY <1>9, <1>10, <1>11, <1>12, <1>13 DEF Fitting

\* What is spread over the others is all there is to spread.
Evened(spare, others, extra) == spare = [i \in others |-> Spare(i, others, extra)]

LEMMA SpareIs ==
  ASSUME NEW others \in SUBSET Nat, IsFiniteSet(others), others # {}, NEW extra \in Nat,
         NEW spare, Evened(spare, others, extra)
  PROVE  spare \in [others -> Nat] /\ SumOf(spare) = extra
<1>1. PICK n \in Nat \ {0} : n = Cardinality(others)
  <2>1. Cardinality(others) \in Nat /\ Cardinality(others) # 0
    BY FS_CardinalityType, FS_EmptySet
  <2> QED
    BY <2>1
<1>2. PICK q \in Nat : q = extra \div n
  BY Quotient
<1>3. PICK r \in Nat : r = extra % n /\ r < n /\ extra = q * n + r
  <2>1. extra % n \in 0 .. n - 1
    OBVIOUS
  <2>2. extra % n = extra - n * (extra \div n)
    OBVIOUS
  <2>3. n * q = q * n /\ n * q \in Nat
    OBVIOUS
  <2> QED
    BY <1>2, <2>1, <2>2, <2>3
<1>4. PICK g : g = [i \in others |-> q]
  OBVIOUS
<1>5. PICK h : h = FirstOf(others, r)
  OBVIOUS
<1>6. g \in [others -> Nat] /\ AllAre(g, others, q)
  BY <1>4 DEF AllAre
<1>7. h \in [others -> Nat]
  BY <1>5 DEF FirstOf
<1>8. \A i \in others : spare[i] = g[i] + h[i]
  <2>1. ASSUME NEW i \in others PROVE spare[i] = g[i] + h[i]
    <3>1. spare[i] = q + (IF Cardinality(SmallerIn(others, i)) < r THEN 1 ELSE 0)
      BY <1>1, <1>2, <1>3 DEF Evened, Spare, SmallerIn
    <3>2. h[i] = IF Cardinality(SmallerIn(others, i)) < r THEN 1 ELSE 0
      BY <1>5 DEF FirstOf
    <3> QED
      BY <1>4, <3>1, <3>2
  <2> QED
    BY <2>1
<1>9. spare \in [others -> Nat]
  <2>1. \A i \in others : spare[i] \in Nat
    <3>1. \A i \in others : g[i] \in Nat /\ h[i] \in Nat
      BY <1>6, <1>7
    <3> QED
      BY <1>8, <3>1
  <2> QED
    BY <2>1 DEF Evened
<1>10. AreSums(spare, others, g, h)
  BY <1>8 DEF AreSums
<1>11. SumOf(spare) = SumOf(g) + SumOf(h)
  <2>1. SumsUp(spare, g, h)
    BY <1>6, <1>7, <1>9, <1>10, SumsAdd
  <2> QED
    BY <2>1 DEF SumsUp
<1>12. SumOf(g) = q * n
  BY <1>1, <1>6, SumOfSame
<1>13. SumOf(h) = r
  <2>1. Summed(FirstOf(others, r)) = IF r <= Cardinality(others) THEN r ELSE Cardinality(others)
    BY SumOfFirst
  <2>2. r <= n
    BY <1>3
  <2> QED
    BY <1>1, <1>5, <2>1, <2>2 DEF SumOf, Summed
<1> QED
  BY <1>3, <1>9, <1>11, <1>12, <1>13

\* The others, of which there is at least one.
Others(t, kept) ==
  IF {i \in kept : Width(t, i) # 0} = {} THEN kept ELSE {i \in kept : Width(t, i) # 0}

\* The columns that are kept take all the characters there are.
LEMMA FitSpans ==
  ASSUME NEW t, NEW f, TableOk(t, f), NEW budget \in Nat, budget >= 25,
         NEW plan, plan = Fit(t, budget)
  PROVE  /\ SumOf(plan) = budget
         /\ \A i \in DOMAIN t.cols :
              /\ t.cols[i][2] = 0 => i \in DOMAIN plan
              /\ t.cols[i][1] = 0 => plan[i] >= t.flex[1]
<1>1. /\ IsFiniteSet(DOMAIN t.cols) /\ DOMAIN t.cols \in SUBSET Nat
      /\ f \in DOMAIN t.cols /\ Width(t, f) = 0 /\ Drop(t, f) = 0
      /\ \A i \in DOMAIN t.cols : Width(t, i) \in Nat /\ (Width(t, i) = 0 => i = f)
  BY DEF TableOk
<1>2. PICK kept : kept = Kept(t, budget)
  OBVIOUS
<1>3. /\ kept \in SUBSET DOMAIN t.cols /\ Must(t) \subseteq kept
      /\ WidthOf(t.cols, kept) + t.flex[1] <= budget
  BY <1>2, KeptFits
<1>4. IsFiniteSet(kept) /\ kept \in SUBSET Nat /\ f \in kept
  <2>1. IsFiniteSet(kept)
    BY <1>1, <1>3, FS_Subset
  <2>2. f \in Must(t)
    BY <1>1 DEF Must
  <2> QED
    BY <1>1, <1>3, <2>1, <2>2
<1>5. PICK widths : widths = [i \in kept |-> Width(t, i)]
  OBVIOUS
<1>6. widths \in [kept -> Nat] /\ widths[f] = 0
  BY <1>1, <1>3, <1>4, <1>5
<1>7. PICK used \in Nat : used = SumOf(widths) /\ used = WidthOf(t.cols, kept)
  <2>1. SumOf(widths) \in Nat
    BY <1>4, <1>6, SumNat
  <2>2. WidthOf(t.cols, kept) = SumOf(widths)
    BY <1>5 DEF WidthOf, Width
  <2> QED
    BY <2>1, <2>2
<1>8. PICK lo \in Nat, hi \in Nat : lo = t.flex[1] /\ hi = t.flex[2] /\ lo <= hi
  BY DEF TableOk
<1>9. PICK room \in Nat : room = budget - used /\ lo <= room
  <2>1. used + lo <= budget
    BY <1>3, <1>7, <1>8
  <2>2. budget - used \in Nat /\ lo <= budget - used
    BY <2>1
  <2> QED
    BY <2>2
<1>10. PICK flex \in Nat : flex = Clamp(room, lo, hi) /\ lo <= flex /\ flex <= room
  <2>1. Clamp(room, lo, hi) = IF room > hi THEN hi ELSE room
    BY <1>9 DEF Clamp
  <2> QED
    BY <1>8, <1>9, <2>1
<1>11. PICK extra \in Nat : extra = room - flex
  <2>1. room - flex \in Nat
    BY <1>10
  <2> QED
    BY <2>1
<1>12. AtLeast(budget - used, 0) = room /\ AtLeast(budget - used - flex, 0) = extra
  <2>1. AtLeast(room, 0) = room /\ AtLeast(extra, 0) = extra
    BY AtLeastIs
  <2>2. budget - used - flex = extra
    BY <1>9, <1>11
  <2> QED
    BY <1>9, <2>1, <2>2
<1>13. PICK others : others = Others(t, kept)
  OBVIOUS
<1>14. others \in SUBSET kept /\ others # {} /\ IsFiniteSet(others) /\ others \in SUBSET Nat
  <2>1. others \in SUBSET kept /\ others # {}
    BY <1>4, <1>13 DEF Others
  <2> QED
    BY <1>4, <2>1, FS_Subset
<1>15. plan = [i \in kept |-> (IF Width(t, i) = 0 THEN flex ELSE Width(t, i))
                               + Spare(i, others, extra)]
  BY <1>2, <1>7, <1>8, <1>9, <1>10, <1>12, <1>13 DEF Fit, Others, Width
<1>16. PICK base : base = [i \in kept |-> IF Width(t, i) = 0 THEN flex ELSE Width(t, i)]
  OBVIOUS
<1>17. PICK given : given = [i \in kept |-> Spare(i, others, extra)]
  OBVIOUS
<1>18. PICK spare : Evened(spare, others, extra)
  BY DEF Evened
<1>19. spare \in [others -> Nat] /\ SumOf(spare) = extra
  BY <1>14, <1>18, SpareIs
<1>20. given \in [kept -> Nat] /\ Supports(spare, others, kept, given)
  <2>1. \A i \in others : given[i] = spare[i]
    BY <1>14, <1>17, <1>18 DEF Evened
  <2>2. \A i \in kept \ others : given[i] = 0
    BY <1>17 DEF Spare
  <2>3. \A i \in kept : given[i] \in Nat
    BY <1>19, <2>1, <2>2
  <2>4. given \in [kept -> Nat]
    BY <1>17, <2>3
  <2>5. spare = [i \in others |-> given[i]]
    BY <1>19, <2>1
  <2> QED
    BY <1>14, <2>2, <2>4, <2>5 DEF Supports
<1>21. SumOf(given) = extra
  <2>1. SumOf(given) = SumOf(spare)
    BY <1>4, <1>20, SumOfPart
  <2> QED
    BY <1>19, <2>1
<1>22. base \in [kept -> Nat] /\ base[f] = flex
  BY <1>1, <1>3, <1>4, <1>16
<1>23. SumOf(base) = used + flex
  <2>1. PICK h : Leaves(widths, kept, f, h)
    BY DEF Leaves
  <2>2. Leaves(base, kept, f, h)
    <3>1. \A i \in kept \ {f} : base[i] = widths[i]
      BY <1>1, <1>3, <1>5, <1>16
    <3> QED
      BY <2>1, <3>1 DEF Leaves
  <2>3. Summed(h) \in Nat /\ AddsUp(widths, f, h)
    BY <1>4, <1>6, <2>1, TotalLess
  <2>4. AddsUp(base, f, h)
    BY <1>4, <1>22, <2>2, TotalLess
  <2>5. Summed(widths) = 0 + Summed(h) /\ Summed(base) = flex + Summed(h)
    BY <1>6, <1>22, <2>3, <2>4 DEF AddsUp
  <2>6. Summed(widths) = used
    BY <1>7 DEF SumOf, Summed
  <2>7. Summed(base) = used + flex
    BY <2>3, <2>5, <2>6
  <2> QED
    BY <2>7 DEF SumOf, Summed
<1>24. plan \in [kept -> Nat] /\ AreSums(plan, kept, base, given)
  <2>1. \A i \in kept : plan[i] = base[i] + given[i] /\ base[i] \in Nat /\ given[i] \in Nat
    BY <1>15, <1>16, <1>17, <1>20, <1>22
  <2>2. \A i \in kept : plan[i] \in Nat
    BY <2>1
  <2> QED
    BY <1>15, <2>1, <2>2 DEF AreSums
<1>25. SumOf(plan) = budget
  <2>1. SumOf(plan) = SumOf(base) + SumOf(given)
    <3>1. SumsUp(plan, base, given)
      BY <1>4, <1>20, <1>22, <1>24, SumsAdd
    <3> QED
      BY <3>1 DEF SumsUp
  <2>2. used + flex + extra = budget
    BY <1>9, <1>11
  <2> QED
    BY <1>21, <1>23, <2>1, <2>2
<1>26. ASSUME NEW i \in DOMAIN t.cols, t.cols[i][2] = 0 PROVE i \in DOMAIN plan
  <2>1. i \in Must(t)
    BY <1>26 DEF Must, Drop
  <2> QED
    BY <1>3, <1>24, <2>1
<1>27. ASSUME NEW i \in DOMAIN t.cols, t.cols[i][1] = 0 PROVE plan[i] >= t.flex[1]
  <2>1. i = f
    BY <1>1, <1>27 DEF Width
  <2>2. plan[f] = base[f] + given[f] /\ given[f] \in Nat
    BY <1>4, <1>20, <1>24 DEF AreSums
  <2> QED
    BY <1>8, <1>10, <1>22, <2>1, <2>2
<1> QED
  BY <1>25, <1>26, <1>27

\* Every widget has room for what no table drops.
LEMMA BudgetIs ==
  ASSUME LayoutInv, NEW b \in BandsOf, NEW px \in Range(Widths(b))
  PROVE  CharBudget(px) \in Nat /\ CharBudget(px) >= 25
<1>1. PICK i \in DOMAIN Widths(b) : px = Widths(b)[i]
  BY DEF Range
<1>2. PICK g \in Nat \ {0} : g = GlyphW
  BY ConstantsAre
<1>3. PICK p \in Nat : p = PadX
  BY ConstantsAre
<1>4. PICK m \in Nat : m = Min({ColMin, window.w}) /\ m >= 25 * g + 2 * p
  <2>1. Min({ColMin, window.w}) \in Nat
    BY ConstantsAre, WindowIs, MinOfTwo
  <2>2. Min({ColMin, window.w}) >= 25 * GlyphW + 2 * PadX
    BY WindowsAssumption DEF LayoutInv
  <2> QED
    BY <1>2, <1>3, <2>1, <2>2
<1>5. px \in Nat /\ px >= m
  <2>1. Widths(b) \in [1 .. b.len -> Nat]
    BY WidthsAre DEF Resolved
  <2>2. Widths(b)[i] \in Nat
    BY <1>1, <2>1
  <2>3. Widths(b)[i] >= Min({ColMin, window.w})
    BY <1>1, WidthsFill
  <2> QED
    BY <1>1, <1>4, <2>2, <2>3
<1>6. PICK a \in Nat : a = px - 2 * p /\ g * 25 <= a
  <2>1. g * 25 = 25 * g /\ 25 * g \in Nat
    OBVIOUS
  <2>2. px - 2 * p >= 25 * g
    BY <1>4, <1>5, <2>1
  <2>3. px - 2 * p \in Nat
    BY <1>5, <2>1, <2>2
  <2> QED
    BY <2>1, <2>2, <2>3
<1>7. PICK q \in Nat : q = a \div g /\ 25 <= q
  BY <1>6, Quotient, QuotientReaches
<1>8. CharBudget(px) = AtLeast(q, 8)
  BY <1>2, <1>3, <1>6, <1>7 DEF CharBudget
<1> QED
  BY <1>7, <1>8, AtLeastIs

LEMMA InvSpans == LayoutInv => TablesSpan
<1> SUFFICES ASSUME LayoutInv,
                    NEW budget \in {CharBudget(px) : px \in UNION {Range(Widths(b)) : b \in BandsOf}},
                    NEW t \in Tables
             PROVE  LET plan == Fit(t, budget)
                    IN  /\ SumOf(plan) = budget
                        /\ \A i \in DOMAIN t.cols :
                             /\ t.cols[i][2] = 0 => i \in DOMAIN plan
                             /\ t.cols[i][1] = 0 => plan[i] >= t.flex[1]
  BY DEF TablesSpan
<1>1. PICK px \in UNION {Range(Widths(b)) : b \in BandsOf} : budget = CharBudget(px)
  OBVIOUS
<1>2. PICK b \in BandsOf : px \in Range(Widths(b))
  BY <1>1
<1>3. budget \in Nat /\ budget >= 25
  BY <1>1, <1>2, BudgetIs
<1>4. PICK f : TableOk(t, f)
  BY TablesOk
<1> QED
  BY <1>3, <1>4, FitSpans

\* In every widget that can be drawn fit makes a row that spans the whole cell.
THEOREM TablesAreSpanned == GridSpec => []TablesSpan
<1> QED
  BY LayoutHolds, InvSpans, PTL

=============================================================================
