------------------------------ MODULE Portmap ------------------------------
(* The NAT-PMP lease thread of portmap.rs, the gateway it leases the       *)
(* inbound port from, and the WireGuard driver that opens and closes the   *)
(* forwarded port on the thread's events (wg.rs, route).                   *)
(*                                                                         *)
(* A tick is the longest an exchange can take: three attempts, 1.75 s.     *)
EXTENDS Naturals, Sequences

CONSTANTS
  Ports,            \* external ports the gateway hands out
  Grants,           \* lifetimes it grants, in ticks
  MIN_RENEW,        \* floor on the renewal interval
  RETRY,            \* delay after a failed renewal
  STARTUP_GRACE,    \* delay before the first request
  QUIET_FAILURES,   \* failures reported as Pending
  EpochMax,         \* bound: the gateway's uptime saturates here
  FaultMax          \* bound: failures and restarts of a behaviour

NoPort == 0
Unmapped == [port |-> NoPort, left |-> 0]
Protos == {"udp", "tcp"}
Epochs == 0..EpochMax
NoEpoch == EpochMax + 1

ASSUME PortsAssumption == Ports # {} /\ Ports \subseteq Nat \ {NoPort}
ASSUME TimesAssumption ==
  /\ Grants # {} /\ Grants \subseteq Nat
  /\ \E most \in Grants : \A granted \in Grants : granted <= most
  /\ MIN_RENEW \in Nat \ {0} /\ RETRY \in Nat \ {0} /\ STARTUP_GRACE \in Nat
ASSUME BoundsAssumption ==
  QUIET_FAILURES \in Nat /\ EpochMax \in Nat \ {0} /\ FaultMax \in Nat

VARIABLES
  gw,         \* the gateway: uptime, and a mapping per protocol
  lt,         \* the lease thread: where it is, and its locals
  chan,       \* the channel from the thread to the driver
  drv,        \* the driver: running or not, the NAT's forward, the status
  faults,     \* bound: faults so far
  restarted,  \* history: the gateway restarted since it last mapped UDP for us
  stale       \* history: ticks the forward is open on a number no longer mapped

vars == <<gw, lt, chan, drv, faults, restarted, stale>>

Mapped(port) == [kind |-> "mapped", port |-> port]
Pending == [kind |-> "pending", port |-> NoPort]
Lost == [kind |-> "lost", port |-> NoPort]

Exchanging == {"udp", "tcp", "address", "release_udp", "release_tcp"}
Resting == {"sleep", "none", "done"}
Steps == Exchanging \cup Resting \cup {"start", "report", "failed", "leave"}

Running == drv.phase = "running"
Maps(proto, port) == gw[proto].left > 0 /\ gw[proto].port = port
-----------------------------------------------------------------------------
(* The gateway.  The port a request suggests is a hint it may ignore.      *)

\* What it may answer: a live mapping keeps its port.
Granted(proto) ==
  [port : IF gw[proto].left > 0 THEN {gw[proto].port} ELSE Ports,
   left : Grants]

Fault == faults < FaultMax /\ faults' = faults + 1

\* Every mapping is dropped and the epoch starts again.
GatewayRestarts ==
  /\ Fault
  /\ gw' = [up |-> 0, udp |-> Unmapped, tcp |-> Unmapped]
  /\ restarted' = TRUE
  /\ UNCHANGED <<lt, chan, drv, stale>>
-----------------------------------------------------------------------------
(* The lease thread.                                                       *)

At(step) == lt.pc = step

\* The locals before the loop; they are gone again once the thread is done.
Fresh(step) ==
  [pc |-> step, current |-> NoPort, epoch |-> NoEpoch, announced |-> NoPort,
   failures |-> 0, wait |-> 0, spent |-> 0, got |-> Unmapped]

gateway_restarted(previous, current) == previous # NoEpoch /\ current < previous

\* Mutant of renew_after: renews a fixed margin before the end.
RenewAtMargin(granted) == granted - MIN_RENEW

\* Mutant of renew_after: renews when the grant ends.
RenewAtExpiry(granted) == IF granted > MIN_RENEW THEN granted ELSE MIN_RENEW

renew_after(granted) ==
  IF granted \div 2 > MIN_RENEW THEN granted \div 2 ELSE MIN_RENEW

\* blocking_send, then a sleep; a closed channel ends the loop instead.
SendThenSleep(event, locals, wait, closed) ==
  \/ /\ drv.phase # "closed"
     /\ chan' = Append(chan, event)
     /\ lt' = [locals EXCEPT !.pc = "sleep", !.wait = wait]
  \/ /\ drv.phase = "closed"
     /\ lt' = [locals EXCEPT !.pc = closed]
     /\ UNCHANGED chan

\* lease_loop says so before it begins.
Start ==
  /\ At("start")
  /\ SendThenSleep(Pending, lt, STARTUP_GRACE, "done")
  /\ UNCHANGED <<gw, drv, faults, restarted, stale>>

\* The stop flag is read at every slice of a sleep and at the loop's head.
Wake ==
  /\ At("sleep")
  /\ \/ Running /\ lt.wait = 0 /\ lt' = [lt EXCEPT !.pc = "udp", !.spent = 0]
     \/ ~Running /\ lt' = [lt EXCEPT !.pc = "leave", !.wait = 0]
  /\ UNCHANGED <<gw, chan, drv, faults, restarted, stale>>

\* No answer or a refusal.  The request, or only its answer, was lost; once the
\* driver has left its loop nothing carries the request.
Unanswered(proto) ==
  /\ At(proto)
  /\ lt' = [lt EXCEPT !.pc = "failed"]
  /\ \/ /\ Running
        /\ Fault
        /\ \E m \in Granted(proto) :
             gw' \in {gw, [gw EXCEPT ![proto] = m]}
     \/ ~Running /\ UNCHANGED <<gw, faults>>
  /\ UNCHANGED <<chan, drv, restarted, stale>>

RenewFails == \E proto \in Protos : Unanswered(proto)

\* The epoch went back: what is held is given up.
RestartNoticed ==
  /\ At("udp") /\ Running
  /\ gateway_restarted(lt.epoch, gw.up)
  /\ \E m \in Granted("udp") : gw' = [gw EXCEPT !.udp = m]
  /\ lt' = [lt EXCEPT !.pc = "failed", !.epoch = gw.up, !.current = NoPort]
  /\ restarted' = FALSE
  /\ UNCHANGED <<chan, drv, faults, stale>>

UdpAnswered ==
  /\ At("udp") /\ Running
  /\ ~gateway_restarted(lt.epoch, gw.up)
  /\ \E m \in Granted("udp") :
       /\ gw' = [gw EXCEPT !.udp = m]
       /\ lt' = [lt EXCEPT !.pc = "tcp", !.epoch = gw.up, !.got = m, !.spent = 0]
       /\ stale' = IF m.port = drv.forward THEN 0 ELSE stale
  /\ restarted' = FALSE
  /\ UNCHANGED <<chan, drv, faults>>

\* The UDP port wins, whatever number TCP was given.  The outside address is
\* asked for when the port is not the one last announced.
TcpAnswered ==
  /\ At("tcp") /\ Running
  /\ \E m \in Granted("tcp") : gw' = [gw EXCEPT !.tcp = m]
  /\ lt' = [lt EXCEPT !.current = lt.got.port, !.failures = 0, !.spent = 0,
              !.pc = IF lt.announced = lt.got.port THEN "report" ELSE "address"]
  /\ UNCHANGED <<chan, drv, faults, restarted, stale>>

\* external_address: only the log depends on the answer.
AskAddress ==
  /\ At("address")
  /\ lt' = [lt EXCEPT !.pc = "report", !.announced = lt.got.port]
  /\ UNCHANGED <<gw, chan, drv, faults, restarted, stale>>

Report ==
  /\ At("report")
  /\ SendThenSleep(Mapped(lt.got.port), lt, renew_after(lt.got.left), "leave")
  /\ UNCHANGED <<gw, drv, faults, restarted, stale>>

\* Mutant of ReportFailure: says nothing while it settles.
SettlesSilently ==
  /\ At("failed")
  /\ IF lt.failures < QUIET_FAILURES
     THEN /\ lt' = [lt EXCEPT !.failures = @ + 1, !.announced = NoPort,
                              !.pc = "sleep", !.wait = RETRY]
          /\ UNCHANGED chan
     ELSE SendThenSleep(Lost, [lt EXCEPT !.announced = NoPort], RETRY, "leave")
  /\ UNCHANGED <<gw, drv, faults, restarted, stale>>

\* Mutant of ReportFailure: a lost lease ends the thread.
GivesUpWhenLost ==
  /\ At("failed")
  /\ IF lt.failures < QUIET_FAILURES
     THEN SendThenSleep(Pending,
            [lt EXCEPT !.failures = @ + 1, !.announced = NoPort], RETRY, "leave")
     ELSE /\ lt' = [lt EXCEPT !.pc = "leave"]
          /\ chan' = Append(chan, Lost)
  /\ UNCHANGED <<gw, drv, faults, restarted, stale>>

\* The count matters up to QUIET_FAILURES and stops one above it.
ReportFailure ==
  /\ At("failed")
  /\ LET failures == IF lt.failures > QUIET_FAILURES THEN lt.failures
                                                     ELSE lt.failures + 1
     IN  SendThenSleep(IF failures <= QUIET_FAILURES THEN Pending ELSE Lost,
           [lt EXCEPT !.failures = failures, !.announced = NoPort],
           RETRY, "leave")
  /\ UNCHANGED <<gw, drv, faults, restarted, stale>>

\* Mutant of Leave: asks until the release is answered.
ReleasesUntilAnswered ==
  /\ \/ At("leave") /\ lt.current # NoPort /\ lt' = Fresh("release_udp")
     \/ At("leave") /\ lt.current = NoPort /\ lt' = Fresh("done")
     \/ At("release_udp") /\ lt' = Fresh("release_udp")
  /\ UNCHANGED <<gw, chan, drv, faults, restarted, stale>>

\* A lease that is held is released, one protocol after the other.  Both
\* exchanges go unanswered: the driver that would carry them has ended.
Leave ==
  /\ \/ At("leave") /\ lt.current # NoPort /\ lt' = Fresh("release_udp")
     \/ At("leave") /\ lt.current = NoPort /\ lt' = Fresh("done")
     \/ At("release_udp") /\ lt' = Fresh("release_tcp")
     \/ At("release_tcp") /\ lt' = Fresh("done")
  /\ UNCHANGED <<gw, chan, drv, faults, restarted, stale>>
-----------------------------------------------------------------------------
(* The driver.                                                             *)

\* Mutant of Handled: a failure that may pass leaves the port open.
PendingLeavesOpen(event) ==
  CASE event.kind = "mapped" -> [drv EXCEPT !.forward = event.port, !.status = "open"]
    [] event.kind = "pending" -> [drv EXCEPT !.status = "requesting"]
    [] event.kind = "lost" -> [drv EXCEPT !.forward = NoPort, !.status = "failed"]

Handled(event) ==
  CASE event.kind = "mapped" -> [drv EXCEPT !.forward = event.port, !.status = "open"]
    [] event.kind = "pending" -> [drv EXCEPT !.forward = NoPort, !.status = "requesting"]
    [] event.kind = "lost" -> [drv EXCEPT !.forward = NoPort, !.status = "failed"]

DriverTakesEvent ==
  /\ Running /\ chan # <<>>
  /\ drv' = Handled(Head(chan))
  /\ chan' = Tail(chan)
  /\ stale' = IF drv'.forward = drv.forward THEN stale ELSE 0
  /\ UNCHANGED <<gw, lt, faults, restarted>>

\* However route ends, its locals are dropped in reverse order: the stop flag
\* is set, then the receiver is closed.
DriverEnds ==
  /\ \/ /\ Running
        /\ drv' = [drv EXCEPT !.phase = "flagged", !.forward = NoPort]
        /\ UNCHANGED chan
     \/ /\ drv.phase = "flagged"
        /\ drv' = [drv EXCEPT !.phase = "closed"]
        /\ chan' = <<>>
  /\ stale' = 0
  /\ UNCHANGED <<gw, lt, faults, restarted>>
-----------------------------------------------------------------------------
(* Time passes while the thread sleeps or is gone, and once per exchange.  *)
(* A running driver takes an event within a tick.                          *)

Later(m) == IF m.left <= 1 THEN Unmapped ELSE [m EXCEPT !.left = @ - 1]

MayWait ==
  /\ lt.pc \in Resting \cup Exchanging
  /\ At("sleep") => lt.wait > 0
  /\ lt.pc \in Exchanging => lt.spent = 0
  /\ Running => chan = <<>>

Tick ==
  /\ MayWait
  /\ gw' = [up |-> IF gw.up < EpochMax THEN gw.up + 1 ELSE gw.up,
            udp |-> Later(gw.udp), tcp |-> Later(gw.tcp)]
  /\ lt' = [lt EXCEPT !.wait = IF At("sleep") THEN @ - 1 ELSE @,
                      !.spent = IF lt.pc \in Exchanging THEN 1 ELSE 0]
  /\ stale' = IF drv.forward # NoPort /\ ~Maps("udp", drv.forward)
              THEN stale + 1 ELSE 0
  /\ UNCHANGED <<chan, drv, faults, restarted>>
-----------------------------------------------------------------------------
\* spawn: the thread runs, or could not be started: then no event ever comes.
Init ==
  /\ gw \in [up : Epochs, udp : {Unmapped}, tcp : {Unmapped}]
  /\ lt \in {Fresh("start"), Fresh("none")}
  /\ chan = <<>>
  /\ drv = [phase |-> "running", forward |-> NoPort, status |-> "none"]
  /\ faults = 0 /\ restarted = FALSE /\ stale = 0

LeaseThread ==
  \/ Start \/ Wake \/ RenewFails \/ RestartNoticed \/ UdpAnswered \/ TcpAnswered
  \/ AskAddress \/ Report \/ ReportFailure \/ Leave

Next == LeaseThread \/ DriverTakesEvent \/ DriverEnds \/ GatewayRestarts \/ Tick

Spec == Init /\ [][Next]_vars

\* The thread and the driver are scheduled, time passes, and a driver that
\* began to drop its locals drops them all.
FairSpec ==
  /\ Spec
  /\ WF_vars(LeaseThread) /\ WF_vars(DriverTakesEvent) /\ WF_vars(Tick)
  /\ WF_vars(~Running /\ DriverEnds)
-----------------------------------------------------------------------------
Leases == [port : Ports \cup {NoPort}, left : Nat]
Gateways == [up : Epochs, udp : Leases, tcp : Leases]
Locals ==
  [pc : Steps, current : Ports \cup {NoPort}, epoch : Epochs \cup {NoEpoch},
   announced : Ports \cup {NoPort}, failures : 0..(QUIET_FAILURES + 1),
   wait : Nat, spent : {0, 1}, got : Leases]
Events == [kind : {"mapped", "pending", "lost"}, port : Ports \cup {NoPort}]
Drivers ==
  [phase : {"running", "flagged", "closed"}, forward : Ports \cup {NoPort},
   status : {"none", "open", "requesting", "failed"}]

\* Types of the gateway, the thread's locals, the channel and the driver; the
\* failure count and every timer stay in range.
TypeOK ==
  /\ gw \in Gateways /\ lt \in Locals /\ chan \in Seq(Events) /\ drv \in Drivers
  /\ faults \in 0..FaultMax /\ restarted \in BOOLEAN /\ stale \in Nat

Settled == Running /\ chan = <<>> /\ lt.pc \in {"sleep", "udp"}

\* Between two renewals the NAT and the dashboard say what the lease thread
\* knows: the number it holds after a success, closed after any failure, and a
\* fault only after more than QUIET_FAILURES of them (portmap.rs, lease_loop;
\* wg.rs, the lease arm of route).
DriverAgrees ==
  Settled =>
    /\ lt.announced # NoPort =>
         /\ drv.forward = lt.announced /\ lt.current = lt.announced
         /\ drv.status = "open" /\ lt.failures = 0
    /\ lt.announced = NoPort =>
         /\ drv.forward = NoPort
         /\ drv.status = IF lt.failures > QUIET_FAILURES THEN "failed"
                                                         ELSE "requesting"

\* A grant that outlasts half of itself, and the floor, by the three exchanges
\* that can come before the driver hears of a failed renewal.
LongGrant ==
  lt.got.left > lt.got.left \div 2 + 3 /\ lt.got.left > MIN_RENEW + 3

\* Between renewals the forward is open only on a port the gateway maps, unless
\* it restarted meanwhile: a lease is renewed, or given up, before it runs out
\* (renew_after).
OpenWhileMapped ==
  (Settled /\ drv.forward # NoPort /\ LongGrant /\ ~restarted)
    => Maps("udp", drv.forward)

LongestWait == renew_after(CHOOSE most \in Grants : \A granted \in Grants : granted <= most)

\* Whatever the gateway does - a restart the epoch does not show, a grant
\* shorter than MIN_RENEW, a lost answer - the forward stays open on a number
\* that is not mapped for at most one renewal interval and the four exchanges
\* around it.
StaleBounded == stale <= LongestWait + 4

\* Once the driver ends, by any path, the lease thread ends too and the lease
\* is gone from the gateway for good (StopOnDrop): released or run out.
StopEndsLease ==
  ~Running ~> [](/\ lt.pc \in {"done", "none"}
                 /\ \A proto \in Protos : gw[proto].left = 0)

\* A driver that keeps running, with a thread, gets over any number of failures
\* and restarts: the forward ends up open for good (lease_loop never gives up).
Recovers ==
  [](Running /\ lt.pc # "none") => <>[](drv.forward # NoPort)
=============================================================================
