--------------------------- MODULE PortmapProofs ---------------------------
(* What the lease thread and the driver keep, for every set of ports,      *)
(* lifetimes, delays and thresholds, and any number of faults.             *)
EXTENDS Portmap, SequenceTheorems, TLAPS

USE DEF NoPort, NoEpoch, Epochs, Protos


(* Types.                                                                  *)

\* Exchanges and grants: what the gateway answers is a lease.
LEMMA GrantIsLease ==
  ASSUME TypeOK, NEW proto \in Protos, NEW m \in Granted(proto)
  PROVE  m \in Leases
<1>1. gw[proto].port \in Ports \cup {NoPort}
  BY DEF TypeOK, Gateways, Leases
<1> QED
  BY <1>1, TimesAssumption DEF Granted, Leases

\* SendThenSleep keeps the types, given typed locals and a typed event.
LEMMA SendKeepsTypes ==
  ASSUME TypeOK, NEW event \in Events, NEW locals \in Locals,
         NEW wait \in Nat, NEW closed \in Steps,
         SendThenSleep(event, locals, wait, closed),
         UNCHANGED <<gw, drv, faults, restarted, stale>>
  PROVE  TypeOK'
<1>1. lt' \in Locals
  <2>1. "sleep" \in Steps
    BY DEF Steps, Resting
  <2>2. lt' = [locals EXCEPT !.pc = "sleep", !.wait = wait]
        \/ lt' = [locals EXCEPT !.pc = closed]
    BY DEF SendThenSleep
  <2> QED
    BY <2>1, <2>2 DEF Locals
<1>2. chan' \in Seq(Events)
  BY DEF SendThenSleep, TypeOK
<1>3. gw' = gw /\ drv' = drv /\ faults' = faults /\ restarted' = restarted /\ stale' = stale
  OBVIOUS
<1> QED
  BY <1>1, <1>2, <1>3 DEF TypeOK

\* Every step of the lease thread, the driver and the gateway keeps the types.
LEMMA TypesKept == TypeOK /\ [Next]_vars => TypeOK'
<1> SUFFICES ASSUME TypeOK, [Next]_vars PROVE TypeOK'
  OBVIOUS
<1>0. /\ gw \in Gateways /\ lt \in Locals /\ chan \in Seq(Events) /\ drv \in Drivers
      /\ faults \in 0..FaultMax /\ stale \in Nat
  BY DEF TypeOK
<1>1. CASE Start
  <2>1. Pending \in Events /\ "done" \in Steps
    BY DEF Pending, Events, Steps, Resting
  <2> QED
    BY <1>0, <1>1, <2>1, SendKeepsTypes, TimesAssumption DEF Start
<1>2. CASE Wake
  <2>1. gw' = gw /\ chan' = chan /\ drv' = drv /\ faults' = faults /\ restarted' = restarted /\ stale' = stale
    BY <1>2 DEF Wake
  <2>2. lt' \in Locals
    <3>1. \/ lt' = [lt EXCEPT !.pc = "udp", !.spent = 0]
          \/ lt' = [lt EXCEPT !.pc = "leave", !.wait = 0]
      BY <1>2 DEF Wake
    <3>2. "udp" \in Steps /\ "leave" \in Steps
      BY DEF Steps, Exchanging
    <3>3. CASE lt' = [lt EXCEPT !.pc = "udp", !.spent = 0]
      BY <1>0, <3>2, <3>3 DEF Locals
    <3>4. CASE lt' = [lt EXCEPT !.pc = "leave", !.wait = 0]
      BY <1>0, <3>2, <3>4 DEF Locals
    <3> QED
      BY <3>1, <3>3, <3>4
  <2> QED
    BY <2>1, <2>2 DEF TypeOK
<1>3. CASE RenewFails
  <2> PICK proto \in Protos : Unanswered(proto)
    BY <1>3 DEF RenewFails
  <2>1. chan' = chan /\ drv' = drv /\ restarted' = restarted /\ stale' = stale
    BY DEF Unanswered
  <2>2. gw' \in Gateways
    <3>1. gw' = gw \/ \E m \in Granted(proto) : gw' = [gw EXCEPT ![proto] = m]
      BY DEF Unanswered
    <3> QED
      BY <1>0, <3>1, GrantIsLease DEF Gateways
  <2>3. lt' \in Locals
    BY <1>0 DEF Unanswered, Locals, Steps
  <2>4. faults' \in 0..FaultMax
    BY <1>0, BoundsAssumption DEF Unanswered, Fault
  <2> QED
    BY <2>1, <2>2, <2>3, <2>4 DEF TypeOK
<1>4. CASE RestartNoticed
  <2>1. chan' = chan /\ drv' = drv /\ faults' = faults /\ stale' = stale
    BY <1>4 DEF RestartNoticed
  <2>2. gw' \in Gateways
    BY <1>4, <1>0, GrantIsLease DEF RestartNoticed, Gateways
  <2>3. lt' \in Locals
    BY <1>4, <1>0 DEF RestartNoticed, Locals, Gateways, Steps
  <2>4. restarted' \in BOOLEAN
    BY <1>4 DEF RestartNoticed
  <2> QED
    BY <2>1, <2>2, <2>3, <2>4 DEF TypeOK
<1>5. CASE UdpAnswered
  <2> PICK m \in Granted("udp") :
        /\ gw' = [gw EXCEPT !.udp = m]
        /\ lt' = [lt EXCEPT !.pc = "tcp", !.epoch = gw.up, !.got = m, !.spent = 0]
        /\ stale' = IF m.port = drv.forward THEN 0 ELSE stale
    BY <1>5 DEF UdpAnswered
  <2>0. m \in Leases
    BY GrantIsLease
  <2>1. chan' = chan /\ drv' = drv /\ faults' = faults
    BY <1>5 DEF UdpAnswered
  <2>2. gw' \in Gateways
    BY <1>5, <1>0, <2>0 DEF Gateways
  <2>3. lt' \in Locals
    BY <1>5, <1>0, <2>0 DEF Locals, Gateways, Steps, Exchanging
  <2>4. restarted' \in BOOLEAN
    BY <1>5 DEF UdpAnswered
  <2>5. stale' \in Nat
    BY <1>5, <1>0
  <2> QED
    BY <2>1, <2>2, <2>3, <2>4, <2>5 DEF TypeOK
<1>6. CASE TcpAnswered
  <2>1. chan' = chan /\ drv' = drv /\ faults' = faults /\ restarted' = restarted /\ stale' = stale
    BY <1>6 DEF TcpAnswered
  <2>2. gw' \in Gateways
    BY <1>6, <1>0, GrantIsLease DEF TcpAnswered, Gateways
  <2>3. lt' \in Locals
    <3> DEFINE step == IF lt.announced = lt.got.port THEN "report" ELSE "address"
    <3>1. step \in Steps
      BY DEF Steps, Exchanging
    <3>2. lt' = [lt EXCEPT !.current = lt.got.port, !.failures = 0, !.spent = 0,
                           !.pc = step]
      BY <1>6 DEF TcpAnswered
    <3>3. lt.got.port \in Ports \cup {NoPort} /\ 0 \in 0..(QUIET_FAILURES + 1)
      BY <1>0, BoundsAssumption DEF Locals, Leases
    <3> HIDE DEF step
    <3> QED
      BY <1>0, <3>1, <3>2, <3>3 DEF Locals
  <2> QED
    BY <2>1, <2>2, <2>3 DEF TypeOK
<1>7. CASE AskAddress
  <2>1. gw' = gw /\ chan' = chan /\ drv' = drv /\ faults' = faults /\ restarted' = restarted /\ stale' = stale
    BY <1>7 DEF AskAddress
  <2>2. lt' \in Locals
    BY <1>7, <1>0 DEF AskAddress, Locals, Leases, Steps
  <2> QED
    BY <2>1, <2>2 DEF TypeOK
<1>8. CASE Report
  <2>1. renew_after(lt.got.left) \in Nat
    BY <1>0, TimesAssumption DEF renew_after, Locals, Leases
  <2>2. Mapped(lt.got.port) \in Events /\ "leave" \in Steps
    BY <1>0 DEF Mapped, Events, Locals, Leases, Steps
  <2> QED
    BY <1>0, <1>8, <2>1, <2>2, SendKeepsTypes DEF Report
<1>9. CASE ReportFailure
  <2> DEFINE failures == IF lt.failures > QUIET_FAILURES THEN lt.failures
                                                        ELSE lt.failures + 1
             event == IF failures <= QUIET_FAILURES THEN Pending ELSE Lost
             locals == [lt EXCEPT !.failures = failures, !.announced = NoPort]
  <2>1. event \in Events
    BY DEF Pending, Lost, Events
  <2>2. locals \in Locals
    <3>1. failures \in 0..(QUIET_FAILURES + 1)
      <4>1. lt.failures \in 0..(QUIET_FAILURES + 1)
        BY <1>0 DEF Locals
      <4> QED
        BY <4>1, BoundsAssumption
    <3> HIDE DEF failures
    <3> QED
      BY <1>0, <3>1 DEF Locals
  <2>3. SendThenSleep(event, locals, RETRY, "leave")
    BY <1>9 DEF ReportFailure
  <2>4. UNCHANGED <<gw, drv, faults, restarted, stale>>
    BY <1>9 DEF ReportFailure
  <2>5. "leave" \in Steps /\ RETRY \in Nat
    BY TimesAssumption DEF Steps
  <2> HIDE DEF event, locals
  <2> QED
    BY <2>1, <2>2, <2>3, <2>4, <2>5, SendKeepsTypes
<1>10. CASE Leave
  <2>1. gw' = gw /\ chan' = chan /\ drv' = drv /\ faults' = faults /\ restarted' = restarted /\ stale' = stale
    BY <1>10 DEF Leave
  <2>2. lt' \in Locals
    BY <1>10, <1>0, BoundsAssumption DEF Leave, Fresh, Unmapped, Locals, Leases, Steps, Exchanging, Resting
  <2> QED
    BY <2>1, <2>2 DEF TypeOK
<1>11. CASE DriverTakesEvent
  <2>1. gw' = gw /\ lt' = lt /\ faults' = faults /\ restarted' = restarted
    BY <1>11 DEF DriverTakesEvent
  <2>2. chan' \in Seq(Events)
    BY <1>11, <1>0 DEF DriverTakesEvent
  <2>3. drv' \in Drivers
    <3>1. Head(chan) \in Events
      BY <1>11, <1>0 DEF DriverTakesEvent
    <3> QED
      BY <1>11, <1>0, <3>1 DEF DriverTakesEvent, Handled, Drivers, Events
  <2>4. stale' \in Nat
    BY <1>11, <1>0 DEF DriverTakesEvent
  <2> QED
    BY <2>1, <2>2, <2>3, <2>4 DEF TypeOK
<1>12. CASE DriverEnds
  <2>1. gw' = gw /\ lt' = lt /\ faults' = faults /\ restarted' = restarted
    BY <1>12 DEF DriverEnds
  <2>2. chan' \in Seq(Events)
    <3>1. chan' = chan \/ chan' = <<>>
      BY <1>12 DEF DriverEnds
    <3>2. <<>> \in Seq(Events)
      OBVIOUS
    <3> QED
      BY <1>0, <3>1, <3>2, Zenon
  <2>3. drv' \in Drivers
    BY <1>12, <1>0 DEF DriverEnds, Drivers
  <2>4. stale' \in Nat
    BY <1>12 DEF DriverEnds
  <2> QED
    BY <2>1, <2>2, <2>3, <2>4 DEF TypeOK
<1>13. CASE GatewayRestarts
  <2>1. lt' = lt /\ chan' = chan /\ drv' = drv /\ stale' = stale
    BY <1>13 DEF GatewayRestarts
  <2>2. gw' \in Gateways
    BY <1>13, BoundsAssumption DEF GatewayRestarts, Gateways, Unmapped, Leases
  <2>3. faults' \in 0..FaultMax
    BY <1>13, <1>0, BoundsAssumption DEF GatewayRestarts, Fault
  <2>4. restarted' \in BOOLEAN
    BY <1>13 DEF GatewayRestarts
  <2> QED
    BY <2>1, <2>2, <2>3, <2>4 DEF TypeOK
<1>14. CASE Tick
  <2>1. chan' = chan /\ drv' = drv /\ faults' = faults /\ restarted' = restarted
    BY <1>14 DEF Tick
  <2>2. gw' \in Gateways
    <3>1. ASSUME NEW m \in Leases PROVE Later(m) \in Leases
      BY DEF Later, Unmapped, Leases
    <3>2. Later(gw.udp) \in Leases /\ Later(gw.tcp) \in Leases
      BY <1>0, <3>1 DEF Gateways
    <3>3. (IF gw.up < EpochMax THEN gw.up + 1 ELSE gw.up) \in Epochs
      BY <1>0, BoundsAssumption DEF Gateways
    <3> QED
      BY <1>14, <3>2, <3>3 DEF Tick, Gateways
  <2>3. lt' \in Locals
    <3> DEFINE left == IF At("sleep") THEN lt.wait - 1 ELSE lt.wait
               spent == IF lt.pc \in Exchanging THEN 1 ELSE 0
    <3>1. left \in Nat
      BY <1>14, <1>0 DEF Tick, MayWait, Locals
    <3>2. spent \in {0, 1}
      OBVIOUS
    <3>3. lt' = [lt EXCEPT !.wait = left, !.spent = spent]
      BY <1>14 DEF Tick
    <3> HIDE DEF left, spent
    <3> QED
      BY <1>0, <3>1, <3>2, <3>3 DEF Locals
  <2>4. stale' \in Nat
    BY <1>14, <1>0 DEF Tick
  <2> QED
    BY <2>1, <2>2, <2>3, <2>4 DEF TypeOK
<1>15. CASE UNCHANGED vars
  <2>1. gw' = gw /\ lt' = lt /\ chan' = chan /\ drv' = drv /\ faults' = faults
        /\ restarted' = restarted /\ stale' = stale
    BY <1>15 DEF vars
  <2> QED
    BY <2>1 DEF TypeOK
<1> QED
  BY <1>1, <1>2, <1>3, <1>4, <1>5, <1>6, <1>7, <1>8, <1>9, <1>10, <1>11, <1>12,
     <1>13, <1>14, <1>15 DEF Next, LeaseThread

\* The initial states are typed.
LEMMA InitTypes == Init => TypeOK
<1> SUFFICES ASSUME Init PROVE TypeOK
  OBVIOUS
<1>1. gw \in Gateways
  BY DEF Init, Unmapped, Gateways, Leases
<1>2. lt \in Locals
  BY BoundsAssumption DEF Init, Fresh, Unmapped, Locals, Leases, Steps, Resting
<1>3. chan \in Seq(Events) /\ drv \in Drivers
  BY DEF Init, Drivers
<1>4. faults \in 0..FaultMax /\ stale \in Nat
  BY BoundsAssumption DEF Init
<1> QED
  BY <1>1, <1>2, <1>3, <1>4 DEF Init, TypeOK

\* TypeOK is an invariant of the lease thread, the driver and the gateway.
THEOREM LeaseTypes == Spec => []TypeOK
  BY InitTypes, TypesKept, PTL DEF Spec
-----------------------------------------------------------------------------
(* The driver agrees with the lease thread.                                *)

\* The event that tells what the thread knows between two renewals.
Says(event) ==
  IF lt.announced = NoPort
  THEN event = IF lt.failures > QUIET_FAILURES THEN Lost ELSE Pending
  ELSE event = Mapped(lt.announced) /\ lt.current = lt.announced /\ lt.failures = 0

\* The driver shows an event it has handled.
Shown(event) ==
  \/ event.kind = "mapped" /\ drv.status = "open" /\ drv.forward = event.port
  \/ event.kind = "pending" /\ drv.status = "requesting" /\ drv.forward = NoPort
  \/ event.kind = "lost" /\ drv.status = "failed" /\ drv.forward = NoPort

Between == Running /\ lt.pc \in {"sleep", "udp"}

\* A live mapping is on a real port.
RealPorts == \A proto \in Protos : gw[proto].left > 0 => gw[proto].port # NoPort

\* What the steps of a renewal have established so far.
PassInv ==
  /\ lt.pc = "start" => lt.announced = NoPort /\ lt.failures = 0
  /\ lt.pc \in {"tcp", "address", "report"} => lt.got.port # NoPort
  /\ lt.pc \in {"address", "report"} => lt.current = lt.got.port /\ lt.failures = 0
  /\ lt.pc = "report" => lt.announced = lt.got.port

\* What the driver will show once it has drained the channel is what the thread
\* knows.
Drained ==
  Between => /\ chan # <<>> => Says(chan[Len(chan)])
             /\ chan = <<>> => \E event : Says(event) /\ Shown(event)

AgreeInv == TypeOK /\ RealPorts /\ PassInv /\ Drained

\* An answer to a mapping request is on a real port.
LEMMA GrantIsReal ==
  ASSUME TypeOK, RealPorts, NEW proto \in Protos, NEW m \in Granted(proto)
  PROVE  m.port # NoPort
  BY PortsAssumption DEF Granted, RealPorts

\* Sending the event that says what the thread now knows restores Drained.
LEMMA SendDrains ==
  ASSUME chan \in Seq(Events), NEW event \in Events, NEW locals, NEW wait,
         NEW closed, closed \notin {"sleep", "udp"}, locals \in Locals,
         SendThenSleep(event, locals, wait, closed), drv' = drv,
         drv.phase # "closed" => Says(event)'
  PROVE  Drained'
<1>1. CASE drv.phase # "closed"
  <2>1. chan' = Append(chan, event)
    BY <1>1 DEF SendThenSleep
  <2>2. chan' # <<>> /\ chan'[Len(chan')] = event
    BY <2>1
  <2> QED
    BY <1>1, <2>2 DEF Drained
<1>2. CASE drv.phase = "closed"
  BY <1>2 DEF Drained, Between, Running
<1> QED
  BY <1>1, <1>2

\* The rest of the step, given what the thread knows and the channel are left
\* alone or the thread is in the middle of a renewal.
LEMMA StillDrained ==
  ASSUME Drained, chan' = chan, drv' = drv,
         \/ lt'.pc \notin {"sleep", "udp"}
         \/ /\ lt.pc \in {"sleep", "udp"}
            /\ lt'.announced = lt.announced /\ lt'.current = lt.current
            /\ lt'.failures = lt.failures
  PROVE  Drained'
  BY DEF Drained, Between, Running, Says, Shown

\* Every step keeps AgreeInv.
LEMMA AgreeKept == AgreeInv /\ [Next]_vars => AgreeInv'
<1> SUFFICES ASSUME AgreeInv, [Next]_vars PROVE AgreeInv'
  OBVIOUS
<1>0. TypeOK /\ RealPorts /\ PassInv /\ Drained /\ TypeOK'
  BY TypesKept DEF AgreeInv
<1>types. lt \in Locals /\ lt' \in Locals /\ gw \in Gateways /\ drv \in Drivers
      /\ chan \in Seq(Events)
  BY <1>0 DEF TypeOK
<1>1. CASE Start
  <2>1. /\ lt'.pc \in {"sleep", "done"}
        /\ lt'.announced = lt.announced /\ lt'.failures = lt.failures
    BY <1>types, <1>1 DEF Start, SendThenSleep, Locals
  <2>2. RealPorts' /\ PassInv'
    BY <1>0, <1>1, <2>1 DEF Start, RealPorts, PassInv
  <2>3. Says(Pending)'
    BY <1>0, <1>1, <2>1, BoundsAssumption DEF Start, At, PassInv, Says, Pending
  <2>4. Pending \in Events
    BY DEF Pending, Events
  <2>5. Drained'
    BY <1>types, <1>1, <2>3, <2>4, SendDrains DEF Start
  <2> QED
    BY <1>0, <2>2, <2>5 DEF AgreeInv
<1>2. CASE Wake
  <2>1. RealPorts' /\ PassInv'
    BY <1>0, <1>types, <1>2 DEF Wake, RealPorts, PassInv, Locals
  <2>2. Drained'
    BY <1>0, <1>types, <1>2, StillDrained DEF Wake, At, Locals
  <2> QED
    BY <1>0, <2>1, <2>2 DEF AgreeInv
<1>3. CASE RenewFails
  <2> PICK proto \in Protos : Unanswered(proto)
    BY <1>3 DEF RenewFails
  <2>1. RealPorts'
    <3>1. gw' = gw \/ \E m \in Granted(proto) : gw' = [gw EXCEPT ![proto] = m]
      BY DEF Unanswered
    <3> QED
      BY <1>0, <1>types, <3>1, GrantIsReal DEF RealPorts, Gateways
  <2>2. lt'.pc = "failed"
    BY <1>types DEF Unanswered, Locals
  <2>3. Drained'
    BY <1>0, <2>2, StillDrained DEF Unanswered
  <2> QED
    BY <1>0, <2>1, <2>2, <2>3 DEF AgreeInv, PassInv
<1>4. CASE RestartNoticed
  <2>1. RealPorts'
    BY <1>0, <1>types, <1>4, GrantIsReal DEF RestartNoticed, RealPorts, Gateways
  <2>2. lt'.pc = "failed"
    BY <1>types, <1>4 DEF RestartNoticed, Locals
  <2>3. Drained'
    BY <1>0, <1>4, <2>2, StillDrained DEF RestartNoticed
  <2> QED
    BY <1>0, <2>1, <2>2, <2>3 DEF AgreeInv, PassInv
<1>5. CASE UdpAnswered
  <2> PICK m \in Granted("udp") :
        /\ gw' = [gw EXCEPT !.udp = m]
        /\ lt' = [lt EXCEPT !.pc = "tcp", !.epoch = gw.up, !.got = m, !.spent = 0]
    BY <1>5 DEF UdpAnswered
  <2>1. m.port # NoPort
    BY <1>0, GrantIsReal
  <2>2. RealPorts'
    BY <1>0, <1>types, <2>1 DEF RealPorts, Gateways
  <2>3. lt'.pc = "tcp" /\ lt'.got = m
    BY <1>types DEF Locals
  <2>4. Drained'
    BY <1>0, <1>5, <2>3, StillDrained DEF UdpAnswered
  <2> QED
    BY <1>0, <2>1, <2>2, <2>3, <2>4 DEF AgreeInv, PassInv
<1>6. CASE TcpAnswered
  <2>1. RealPorts'
    BY <1>0, <1>types, <1>6, GrantIsReal DEF TcpAnswered, RealPorts, Gateways
  <2>2. /\ lt'.pc = IF lt.announced = lt.got.port THEN "report" ELSE "address"
        /\ lt'.got = lt.got /\ lt'.current = lt.got.port /\ lt'.failures = 0
        /\ lt'.announced = lt.announced
    BY <1>types, <1>6 DEF TcpAnswered, Locals
  <2>3. lt.got.port # NoPort
    BY <1>0, <1>6 DEF TcpAnswered, PassInv, At
  <2>4. Drained'
    BY <1>0, <1>6, <2>2, StillDrained DEF TcpAnswered
  <2> QED
    BY <1>0, <2>1, <2>2, <2>3, <2>4 DEF AgreeInv, PassInv
<1>7. CASE AskAddress
  <2>1. RealPorts' /\ PassInv'
    BY <1>0, <1>types, <1>7 DEF AskAddress, At, RealPorts, PassInv, Locals
  <2>2. lt'.pc = "report"
    BY <1>types, <1>7 DEF AskAddress, Locals
  <2>3. Drained'
    BY <1>0, <1>7, <2>2, StillDrained DEF AskAddress
  <2> QED
    BY <1>0, <2>1, <2>3 DEF AgreeInv
<1>8. CASE Report
  <2>1. /\ lt'.pc \in {"sleep", "leave"}
        /\ lt'.announced = lt.announced /\ lt'.failures = lt.failures
        /\ lt'.current = lt.current
    BY <1>types, <1>8 DEF Report, SendThenSleep, Locals
  <2>2. RealPorts' /\ PassInv'
    BY <1>0, <1>8, <2>1 DEF Report, RealPorts, PassInv
  <2> PICK event : event = Mapped(lt.got.port)
    OBVIOUS
  <2>3. Says(event)'
    <3>1. /\ lt.announced = lt.got.port /\ lt.got.port # NoPort
          /\ lt.current = lt.got.port /\ lt.failures = 0
      BY <1>0, <1>8 DEF Report, At, PassInv
    <3> QED
      BY <2>1, <3>1 DEF Says, Mapped
  <2>4. event \in Events
    BY <1>types DEF Mapped, Events, Locals, Leases
  <2>5. Drained'
    BY <1>types, <1>8, <2>3, <2>4, SendDrains DEF Report
  <2> QED
    BY <1>0, <2>2, <2>5 DEF AgreeInv
<1>9. CASE ReportFailure
  <2> DEFINE failures == IF lt.failures > QUIET_FAILURES THEN lt.failures
                                                        ELSE lt.failures + 1
             event == IF failures <= QUIET_FAILURES THEN Pending ELSE Lost
             locals == [lt EXCEPT !.failures = failures, !.announced = NoPort]
  <2>1. SendThenSleep(event, locals, RETRY, "leave") /\ drv' = drv /\ gw' = gw
    BY <1>9 DEF ReportFailure
  <2>2. failures \in 0..(QUIET_FAILURES + 1)
    <3>1. lt.failures \in 0..(QUIET_FAILURES + 1)
      BY <1>types DEF Locals
    <3> QED
      BY <3>1, BoundsAssumption
  <2>3. event \in Events
    BY DEF Pending, Lost, Events
  <2>4. event = IF failures > QUIET_FAILURES THEN Lost ELSE Pending
    BY <2>2, BoundsAssumption
  <2> HIDE DEF failures, event
  <2>5. locals \in Locals /\ locals.failures = failures /\ locals.announced = NoPort
    BY <1>types, <2>2 DEF Locals
  <2> HIDE DEF locals
  <2>6. /\ lt'.pc \in {"sleep", "leave"} /\ lt'.announced = NoPort
        /\ lt'.failures = failures
    BY <2>1, <2>5 DEF SendThenSleep, Locals
  <2>7. RealPorts' /\ PassInv'
    BY <1>0, <2>1, <2>6 DEF RealPorts, PassInv
  <2>8. lt'.announced = NoPort /\ event = IF lt'.failures > QUIET_FAILURES THEN Lost ELSE Pending
    BY <2>4, <2>6
  <2>9. Drained'
    BY <1>types, <2>1, <2>3, <2>5, <2>8, SendDrains DEF Says
  <2> QED
    BY <1>0, <2>7, <2>9 DEF AgreeInv
<1>10. CASE Leave
  <2>1. RealPorts' /\ PassInv'
    BY <1>0, <1>10 DEF Leave, Fresh, RealPorts, PassInv
  <2>2. lt'.pc \notin {"sleep", "udp"}
    BY <1>10 DEF Leave, Fresh
  <2>3. Drained'
    BY <1>0, <1>10, <2>2, StillDrained DEF Leave
  <2> QED
    BY <1>0, <2>1, <2>3 DEF AgreeInv
<1>11. CASE DriverTakesEvent
  <2>1. RealPorts' /\ PassInv'
    BY <1>0, <1>11 DEF DriverTakesEvent, RealPorts, PassInv
  <2>2. ASSUME Between' PROVE Drained'
    <3>1. Running /\ chan # <<>> /\ lt' = lt /\ drv' = Handled(Head(chan)) /\ chan' = Tail(chan)
      BY <1>11 DEF DriverTakesEvent
    <3>2. PICK event \in Events : event = chan[Len(chan)]
      BY <1>types, <3>1
    <3>6. Says(event)'
      BY <1>0, <2>2, <3>1, <3>2 DEF Drained, Between, Says
    <3>3. CASE Len(chan) = 1
      <4>1. chan' = <<>> /\ Head(chan) = event
        BY <1>types, <3>1, <3>2, <3>3
      <4>2. drv' = Handled(event)
        BY <3>1, <4>1
      <4>3. Shown(event)'
        BY <1>types, <4>2 DEF Handled, Shown, Events, Drivers
      <4> QED
        BY <3>6, <4>1, <4>3 DEF Drained
    <3>4. CASE Len(chan) > 1
      <4>1. chan' # <<>> /\ chan'[Len(chan')] = event
        BY <1>types, <3>1, <3>2, <3>4, HeadTailProperties, EmptySeq
      <4> QED
        BY <3>6, <4>1 DEF Drained
    <3>5. Len(chan) = 1 \/ Len(chan) > 1
      <4>1. Len(chan) \in Nat \ {0}
        BY <1>types, <3>1, EmptySeq, Zenon
      <4>2. \A n \in Nat \ {0} : n = 1 \/ n > 1
        OBVIOUS
      <4> QED
        BY <4>1, <4>2, Zenon
    <3> QED
      BY <3>3, <3>4, <3>5
  <2> QED
    BY <1>0, <2>1, <2>2 DEF AgreeInv, Drained
<1>12. CASE DriverEnds
  <2>1. RealPorts' /\ PassInv'
    BY <1>0, <1>12 DEF DriverEnds, RealPorts, PassInv
  <2>2. Drained'
    BY <1>types, <1>12 DEF DriverEnds, Drained, Between, Running, Drivers
  <2> QED
    BY <1>0, <2>1, <2>2 DEF AgreeInv
<1>13. CASE GatewayRestarts
  <2>1. RealPorts' /\ PassInv'
    BY <1>0, <1>13 DEF GatewayRestarts, Unmapped, RealPorts, PassInv
  <2>2. Drained'
    BY <1>0, <1>13, StillDrained DEF GatewayRestarts
  <2> QED
    BY <1>0, <2>1, <2>2 DEF AgreeInv
<1>14. CASE Tick
  <2>1. /\ lt'.pc = lt.pc /\ lt'.announced = lt.announced /\ lt'.current = lt.current
        /\ lt'.failures = lt.failures /\ lt'.got = lt.got
    BY <1>types, <1>14 DEF Tick, Locals
  <2>2. RealPorts'
    BY <1>0, <1>types, <1>14 DEF Tick, Later, Unmapped, RealPorts, Gateways, Leases
  <2>3. PassInv'
    BY <1>0, <2>1 DEF PassInv
  <2>4. Drained'
    BY <1>0, <1>14, <2>1, StillDrained DEF Tick
  <2> QED
    BY <1>0, <2>2, <2>3, <2>4 DEF AgreeInv
<1>15. CASE UNCHANGED vars
  <2>1. gw' = gw /\ lt' = lt /\ chan' = chan /\ drv' = drv
    BY <1>15 DEF vars
  <2>2. RealPorts' /\ PassInv'
    BY <1>0, <2>1 DEF RealPorts, PassInv
  <2>3. Drained'
    BY <1>0, <2>1, StillDrained
  <2> QED
    BY <1>0, <2>2, <2>3 DEF AgreeInv
<1> QED
  BY <1>1, <1>2, <1>3, <1>4, <1>5, <1>6, <1>7, <1>8, <1>9, <1>10, <1>11, <1>12,
     <1>13, <1>14, <1>15 DEF Next, LeaseThread

\* AgreeInv holds initially.
LEMMA AgreeInit == Init => AgreeInv
<1>1. Init => RealPorts /\ PassInv /\ Drained
  BY DEF Init, Fresh, Unmapped, RealPorts, PassInv, Drained, Between
<1> QED
  BY <1>1, InitTypes DEF AgreeInv

\* AgreeInv is strong enough.
LEMMA AgreeImplies == AgreeInv => DriverAgrees
<1> SUFFICES ASSUME AgreeInv, Settled PROVE DriverAgrees
  BY DEF DriverAgrees
<1>1. lt.failures \in 0..(QUIET_FAILURES + 1)
  BY DEF AgreeInv, TypeOK, Locals
<1>2. PICK event : Says(event) /\ Shown(event)
  BY DEF AgreeInv, Settled, Drained, Between
<1>3. CASE lt.announced = NoPort
  BY <1>2, <1>3 DEF DriverAgrees, Says, Shown, Pending, Lost
<1>4. CASE lt.announced # NoPort
  BY <1>2, <1>4 DEF DriverAgrees, Says, Shown, Mapped
<1> QED
  BY <1>3, <1>4

\* Between two renewals, and with no event on its way, the NAT and the dashboard
\* say what the lease thread knows.
THEOREM DriverFollowsLease == Spec => []DriverAgrees
  BY AgreeInit, AgreeKept, AgreeImplies, PTL DEF Spec
-----------------------------------------------------------------------------
(* The forward is open only while the lease lasts.                         *)

\* Ticks since the gateway granted the lease in hand, at most.
Used ==
  CASE lt.pc = "tcp" -> lt.spent
    [] lt.pc = "address" -> 1 + lt.spent
    [] lt.pc = "report" -> 2
    [] lt.pc = "sleep" -> 2 + renew_after(lt.got.left) - lt.wait
    [] OTHER -> 2 + renew_after(lt.got.left) + lt.spent

\* The thread relies on the lease it was last granted.
Relying ==
  \/ lt.pc \in {"tcp", "address", "report"}
  \/ lt.pc \in {"sleep", "udp"} /\ lt.announced # NoPort

\* A lease that is relied on is the one announced, and the sleep is no longer
\* than its renewal interval.
RestInv ==
  /\ (lt.pc \in {"sleep", "udp"} /\ lt.announced # NoPort) => lt.announced = lt.got.port
  /\ (lt.pc = "sleep" /\ lt.announced # NoPort) => lt.wait <= renew_after(lt.got.left)

\* The gateway still holds the lease for what is left of it.
Lasts ==
  (Relying /\ lt.got.left > Used) =>
    gw.udp.port = lt.got.port /\ gw.udp.left >= lt.got.left - Used

LeaseInv == AgreeInv /\ RestInv /\ (~restarted => Lasts)

\* A renewal interval is a number of ticks.
LEMMA RenewAfterIsNat ==
  ASSUME NEW granted \in Nat
  PROVE  renew_after(granted) \in Nat
  BY TimesAssumption DEF renew_after

\* Every step keeps LeaseInv.
LEMMA LeaseKept == LeaseInv /\ [Next]_vars => LeaseInv'
<1> SUFFICES ASSUME LeaseInv, [Next]_vars PROVE LeaseInv'
  OBVIOUS
<1>0. AgreeInv /\ RestInv /\ PassInv /\ AgreeInv'
  BY AgreeKept DEF LeaseInv, AgreeInv
<1>types. lt \in Locals /\ lt' \in Locals /\ gw \in Gateways /\ chan \in Seq(Events)
  BY <1>0 DEF AgreeInv, TypeOK
<1>nat. /\ renew_after(lt.got.left) \in Nat /\ lt.got.left \in Nat
        /\ lt.spent \in {0, 1} /\ lt.wait \in Nat
        /\ gw.udp.left \in Nat
  BY <1>types, RenewAfterIsNat DEF Locals, Leases, Gateways
<1>idle. ASSUME ~Relying' PROVE RestInv' /\ Lasts'
  BY <1>idle DEF Relying, RestInv, Lasts
<1>1. CASE Start
  <2>1. ~Relying'
    BY <1>0, <1>types, <1>1 DEF Start, At, SendThenSleep, PassInv, Locals, Relying
  <2> QED
    BY <1>0, <1>idle, <2>1 DEF LeaseInv
<1>2. CASE Wake
  <2>1. /\ lt'.announced = lt.announced /\ lt'.got = lt.got /\ gw' = gw
        /\ restarted' = restarted
    BY <1>types, <1>2 DEF Wake, Locals
  <2>2. lt.pc = "sleep"
    BY <1>2 DEF Wake, At
  <2>3. CASE lt' = [lt EXCEPT !.pc = "udp", !.spent = 0] /\ lt.wait = 0
    <3>1. lt'.pc = "udp" /\ lt'.spent = 0
      BY <1>types, <2>3 DEF Locals
    <3>2. RestInv'
      BY <1>0, <2>1, <2>2, <3>1 DEF RestInv
    <3>3. Used' = Used
      BY <1>nat, <2>1, <2>2, <2>3, <3>1 DEF Used
    <3>4. Lasts => Lasts'
      BY <2>1, <2>2, <3>1, <3>3 DEF Lasts, Relying
    <3> QED
      BY <1>0, <2>1, <3>2, <3>4 DEF LeaseInv
  <2>4. CASE lt' = [lt EXCEPT !.pc = "leave", !.wait = 0]
    <3>1. ~Relying'
      BY <1>types, <2>4 DEF Relying, Locals
    <3> QED
      BY <1>0, <1>idle, <3>1 DEF LeaseInv
  <2> QED
    BY <1>2, <2>3, <2>4 DEF Wake
<1>3. CASE RenewFails
  <2>1. lt'.pc = "failed"
    BY <1>types, <1>3 DEF RenewFails, Unanswered, Locals
  <2> QED
    BY <1>0, <1>idle, <2>1 DEF LeaseInv, Relying
<1>4. CASE RestartNoticed
  <2>1. lt'.pc = "failed"
    BY <1>types, <1>4 DEF RestartNoticed, Locals
  <2> QED
    BY <1>0, <1>idle, <2>1 DEF LeaseInv, Relying
<1>5. CASE UdpAnswered
  <2> PICK m \in Granted("udp") :
        /\ gw' = [gw EXCEPT !.udp = m]
        /\ lt' = [lt EXCEPT !.pc = "tcp", !.epoch = gw.up, !.got = m, !.spent = 0]
    BY <1>5 DEF UdpAnswered
  <2>1. lt'.pc = "tcp" /\ lt'.got = m /\ lt'.spent = 0 /\ gw'.udp = m
    BY <1>types DEF Locals, Gateways
  <2>2. m.left \in Nat
    BY <1>0, GrantIsLease DEF AgreeInv, Leases
  <2>3. Used' = 0
    BY <2>1 DEF Used
  <2>4. RestInv' /\ Lasts'
    BY <2>1, <2>2, <2>3 DEF RestInv, Lasts
  <2> QED
    BY <1>0, <2>4 DEF LeaseInv
<1>6. CASE TcpAnswered
  <2>1. /\ lt.pc = "tcp" /\ lt'.pc \in {"report", "address"} /\ lt'.got = lt.got
        /\ lt'.spent = 0 /\ gw'.udp = gw.udp /\ restarted' = restarted
    BY <1>types, <1>6 DEF TcpAnswered, At, Locals, Gateways
  <2>2. Used' \in Nat /\ Used \in Nat /\ Used <= Used'
    BY <1>nat, <2>1 DEF Used
  <2>3. Lasts => Lasts'
    BY <1>nat, <2>1, <2>2 DEF Lasts, Relying
  <2>4. RestInv'
    BY <2>1 DEF RestInv
  <2> QED
    BY <1>0, <2>1, <2>3, <2>4 DEF LeaseInv
<1>7. CASE AskAddress
  <2>1. /\ lt.pc = "address" /\ lt'.pc = "report" /\ lt'.got = lt.got
        /\ gw' = gw /\ restarted' = restarted
    BY <1>types, <1>7 DEF AskAddress, At, Locals
  <2>2. Used' \in Nat /\ Used \in Nat /\ Used <= Used'
    BY <1>nat, <2>1 DEF Used
  <2>3. Lasts => Lasts'
    BY <1>nat, <2>1, <2>2 DEF Lasts, Relying
  <2>4. RestInv'
    BY <2>1 DEF RestInv
  <2> QED
    BY <1>0, <2>1, <2>3, <2>4 DEF LeaseInv
<1>8. CASE Report
  <2>1. CASE lt'.pc = "leave"
    BY <1>0, <1>idle, <2>1 DEF LeaseInv, Relying
  <2>2. CASE lt'.pc = "sleep"
    <3>1. /\ lt.pc = "report" /\ lt'.got = lt.got /\ lt'.announced = lt.announced
          /\ lt'.wait = renew_after(lt.got.left)
          /\ gw' = gw /\ restarted' = restarted
      BY <1>types, <1>8, <2>2 DEF Report, At, SendThenSleep, Locals
    <3>2. Used' = 2 /\ Used = 2
      BY <1>nat, <2>2, <3>1 DEF Used
    <3>3. Lasts => Lasts'
      BY <2>2, <3>1, <3>2 DEF Lasts, Relying
    <3>4. RestInv'
      BY <1>0, <1>nat, <2>2, <3>1 DEF RestInv, PassInv
    <3> QED
      BY <1>0, <3>1, <3>3, <3>4 DEF LeaseInv
  <2> QED
    BY <1>types, <1>8, <2>1, <2>2 DEF Report, SendThenSleep, Locals
<1>9. CASE ReportFailure
  <2>1. lt'.announced = NoPort /\ lt'.pc \in {"sleep", "leave"}
    BY <1>types, <1>9 DEF ReportFailure, SendThenSleep, Locals
  <2> QED
    BY <1>0, <1>idle, <2>1 DEF LeaseInv, Relying
<1>10. CASE Leave
  <2>1. ~Relying'
    BY <1>10 DEF Leave, Fresh, Relying
  <2> QED
    BY <1>0, <1>idle, <2>1 DEF LeaseInv
<1>11. CASE DriverTakesEvent \/ DriverEnds \/ UNCHANGED vars
  <2>1. gw' = gw /\ lt' = lt /\ restarted' = restarted
    BY <1>11 DEF DriverTakesEvent, DriverEnds, vars
  <2>2. RestInv' /\ (Lasts => Lasts')
    BY <1>0, <2>1 DEF RestInv, Lasts, Relying, Used
  <2> QED
    BY <1>0, <2>1, <2>2 DEF LeaseInv
<1>12. CASE GatewayRestarts
  <2>1. lt' = lt
    BY <1>12 DEF GatewayRestarts
  <2>2. RestInv'
    BY <1>0, <2>1 DEF RestInv
  <2>3. restarted'
    BY <1>12 DEF GatewayRestarts
  <2> QED
    BY <1>0, <2>2, <2>3 DEF LeaseInv
<1>13. CASE Tick
  <2>1. /\ lt'.pc = lt.pc /\ lt'.got = lt.got /\ lt'.announced = lt.announced
        /\ lt'.wait = IF lt.pc = "sleep" THEN lt.wait - 1 ELSE lt.wait
        /\ lt'.spent = IF lt.pc \in Exchanging THEN 1 ELSE 0
    BY <1>types, <1>13 DEF Tick, At, Locals
  <2>2. gw'.udp = Later(gw.udp) /\ restarted' = restarted
    BY <1>13 DEF Tick
  <2>3. /\ lt.pc \in Resting \cup Exchanging
        /\ lt.pc = "sleep" => lt.wait > 0
        /\ lt.pc \in Exchanging => lt.spent = 0
    BY <1>13 DEF Tick, MayWait, At
  <2>4. RestInv'
    BY <1>0, <1>nat, <2>1, <2>3 DEF RestInv
  <2>5. ASSUME Lasts, Relying', lt'.got.left > Used' PROVE Lasts'
    <3>1. Used' = Used + 1 /\ Used \in Nat
      BY <1>0, <1>nat, <2>1, <2>3, <2>5 DEF Used, Relying, RestInv, Resting, Exchanging
    <3>2. gw.udp.port = lt.got.port /\ gw.udp.left >= lt.got.left - Used
      BY <1>nat, <2>1, <2>5, <3>1 DEF Lasts, Relying
    <3>3. gw'.udp.port = gw.udp.port /\ gw'.udp.left = gw.udp.left - 1
      BY <1>types, <1>nat, <2>1, <2>2, <2>5, <3>1, <3>2 DEF Later, Gateways, Leases
    <3> QED
      BY <1>nat, <2>1, <3>1, <3>2, <3>3 DEF Lasts
  <2>6. Lasts => Lasts'
    BY <2>5 DEF Lasts
  <2> QED
    BY <1>0, <2>2, <2>4, <2>6 DEF LeaseInv
<1> QED
  BY <1>1, <1>2, <1>3, <1>4, <1>5, <1>6, <1>7, <1>8, <1>9, <1>10, <1>11, <1>12,
     <1>13 DEF Next, LeaseThread

\* Between renewals the forward is open only on a port the gateway maps, unless
\* the gateway restarted or granted less than a renewal needs.
THEOREM OpenOnlyWhileMapped == Spec => []OpenWhileMapped
<1>1. Init => LeaseInv
  <2> SUFFICES ASSUME Init PROVE LeaseInv
    OBVIOUS
  <2>1. AgreeInv
    BY AgreeInit
  <2>2. ~Relying
    BY DEF Init, Fresh, Relying
  <2> QED
    BY <2>1, <2>2 DEF LeaseInv, RestInv, Lasts, Relying
<1>2. LeaseInv => OpenWhileMapped
  <2> SUFFICES ASSUME LeaseInv, Settled, drv.forward # NoPort, LongGrant, ~restarted
               PROVE  Maps("udp", drv.forward)
    BY DEF OpenWhileMapped
  <2>1. lt \in Locals /\ gw \in Gateways /\ DriverAgrees /\ RestInv /\ Lasts
    BY AgreeImplies DEF LeaseInv, AgreeInv, TypeOK
  <2>2. lt.announced # NoPort /\ drv.forward = lt.announced
    BY <2>1 DEF DriverAgrees
  <2>3. drv.forward = lt.got.port
    BY <2>1, <2>2 DEF RestInv, Settled
  <2>4. /\ lt.got.left \in Nat /\ lt.spent \in {0, 1} /\ lt.wait \in Nat
        /\ gw.udp.left \in Nat /\ renew_after(lt.got.left) \in Nat
    BY <2>1, RenewAfterIsNat DEF Locals, Leases, Gateways
  <2>5. lt.got.left > renew_after(lt.got.left) + 3
    BY <2>4, TimesAssumption DEF LongGrant, renew_after
  <2>6. Used \in Nat /\ Used <= 3 + renew_after(lt.got.left)
    BY <2>1, <2>2, <2>4 DEF Used, RestInv, Settled
  <2>7. gw.udp.port = lt.got.port /\ gw.udp.left >= lt.got.left - Used
    BY <2>1, <2>2, <2>4, <2>5, <2>6 DEF Lasts, Relying, Settled
  <2> QED
    BY <2>3, <2>4, <2>5, <2>6, <2>7 DEF Maps
<1> QED
  BY <1>1, LeaseKept, <1>2, PTL DEF Spec
-----------------------------------------------------------------------------
(* A forward on a number that is not mapped does not stay open for long.   *)

\* The forward an event leaves.
Opens(event) == IF event.kind = "mapped" THEN event.port ELSE NoPort

\* The forward once the driver has drained the channel.
Expected == IF chan = <<>> THEN drv.forward ELSE Opens(chan[Len(chan)])

\* The forward stays what it is while the driver drains the channel.
Steady == \A i \in 1 .. Len(chan) : Opens(chan[i]) = drv.forward

\* The driver is, or will be, on the number last announced: the thread says so in
\* the step that ends a renewal.
Follows ==
  IF Running
  THEN /\ lt.pc \notin {"leave", "release_udp", "release_tcp", "done"}
       /\ lt.pc \in {"start", "none"} => lt.announced = NoPort
       /\ lt.pc # "report" => Expected = lt.announced
       /\ lt.pc = "address" => lt.announced # lt.got.port
  ELSE drv.forward = NoPort

\* A lease that is relied on was granted.
GrantHeld == Relying => lt.got.left \in Grants

\* How long the forward can have been on a dead number, at each step of a renewal.
Limit ==
  CASE lt.pc = "sleep" -> LongestWait + 1 - lt.wait
    [] lt.pc = "udp" -> LongestWait + 1 + lt.spent
    [] lt.pc = "tcp" -> lt.spent + IF lt.got.port = drv.forward THEN 0 ELSE LongestWait + 2
    [] lt.pc = "address" -> LongestWait + 3 + lt.spent
    [] lt.pc = "report" -> IF lt.got.port = drv.forward THEN 1 ELSE LongestWait + 4
    [] OTHER -> LongestWait + 4

Limited ==
  /\ stale <= LongestWait + 4
  /\ Running /\ Steady /\ drv.forward # NoPort => stale <= Limit

StaleInv == LeaseInv /\ GrantHeld /\ Follows /\ Limited

\* No grant is renewed later than the longest.
LEMMA WaitBounded ==
  LongestWait \in Nat /\ \A granted \in Grants : renew_after(granted) <= LongestWait
<1> DEFINE most == CHOOSE m \in Grants : \A granted \in Grants : granted <= m
<1>1. most \in Grants /\ \A granted \in Grants : granted <= most
  BY TimesAssumption
<1>2. LongestWait = renew_after(most)
  BY DEF LongestWait
<1> HIDE DEF most
<1>3. MIN_RENEW \in Nat /\ most \in Nat
  BY <1>1, TimesAssumption
<1>4. ASSUME NEW granted \in Grants PROVE renew_after(granted) <= renew_after(most)
  <2>1. granted \in Nat /\ granted <= most
    BY <1>1, TimesAssumption
  <2>2. granted \div 2 <= most \div 2 /\ granted \div 2 \in Nat /\ most \div 2 \in Nat
    BY <1>3, <2>1
  <2> QED
    BY <1>3, <2>2 DEF renew_after
<1>5. renew_after(most) \in Nat
  BY <1>3, RenewAfterIsNat
<1> QED
  BY <1>2, <1>4, <1>5

\* What the driver takes from the channel is what it was expected to show.
LEMMA TakeFollows ==
  ASSUME chan \in Seq(Events), drv \in Drivers, DriverTakesEvent
  PROVE  /\ Expected' = Expected /\ (Running' <=> Running)
         /\ Steady' /\ drv'.forward = drv.forward => Steady
<1>1. chan # <<>> /\ chan' = Tail(chan) /\ drv' = Handled(Head(chan)) /\ Running
  BY DEF DriverTakesEvent
<1>2. Head(chan) = chan[1] /\ chan[1] \in Events /\ Len(chan) \in Nat \ {0}
  BY <1>1
<1>3. drv'.forward = Opens(chan[1]) /\ drv'.phase = drv.phase
  BY <1>1, <1>2 DEF Handled, Opens, Events, Drivers
<1>4. /\ Len(chan') = Len(chan) - 1
      /\ \A i \in 1 .. Len(chan) - 1 : chan'[i] = chan[i + 1]
  BY <1>1, <1>2
<1>5. Expected' = Expected
  <2>1. CASE Len(chan) = 1
    <3>1. chan' = <<>>
      BY <1>1, <1>2, <2>1
    <3> QED
      BY <1>1, <1>3, <2>1, <3>1 DEF Expected
  <2>2. CASE Len(chan) # 1
    <3>1. Len(chan) - 1 \in 1 .. Len(chan) - 1 /\ (Len(chan) - 1) + 1 = Len(chan)
      <4>1. PICK len \in Nat \ {0} : len = Len(chan)
        BY <1>2
      <4>2. len # 1
        BY <2>2, <4>1
      <4> QED
        BY <4>1, <4>2
    <3>2. chan' # <<>> /\ chan'[Len(chan')] = chan[Len(chan)]
      <4>1. chan'[Len(chan) - 1] = chan[Len(chan)]
        BY <1>4, <3>1
      <4>2. chan' # <<>>
        <5>1. Len(chan') # 0
          BY <1>2, <1>4, <2>2
        <5> QED
          BY <5>1
      <4> QED
        BY <1>4, <4>1, <4>2
    <3> QED
      BY <1>1, <3>2 DEF Expected
  <2> QED
    BY <2>1, <2>2
<1>6. ASSUME Steady', drv'.forward = drv.forward PROVE Steady
  <2>1. ASSUME NEW i \in 1 .. Len(chan) PROVE Opens(chan[i]) = drv.forward
    <3>1. CASE i = 1
      BY <1>3, <1>6, <3>1
    <3>2. CASE i # 1
      <4>1. i - 1 \in 1 .. Len(chan) - 1 /\ (i - 1) + 1 = i
        BY <1>2, <3>2
      <4>2. Opens(chan'[i - 1]) = drv'.forward
        BY <1>4, <1>6, <4>1 DEF Steady
      <4>3. chan'[i - 1] = chan[i]
        BY <1>4, <4>1
      <4> QED
        BY <1>6, <4>2, <4>3
    <3> QED
      BY <3>1, <3>2
  <2> QED
    BY <2>1 DEF Steady
<1> QED
  BY <1>1, <1>3, <1>5, <1>6 DEF Running

\* An event that says what the thread has announced keeps the driver on it, and
\* the sleep behind it is within the limit.
LEMMA SendFollows ==
  ASSUME chan \in Seq(Events), NEW event \in Events, NEW locals \in Locals,
         NEW wait \in Nat, NEW closed \in Steps, stale \in Nat,
         SendThenSleep(event, locals, wait, closed), drv' = drv, stale' = stale,
         Follows, Limited, Opens(event) = locals.announced,
         Opens(event) # NoPort =>
           /\ wait <= LongestWait
           /\ Running /\ Steady /\ drv.forward = Opens(event) => stale <= 1
  PROVE  Follows' /\ Limited'
<1>1. CASE ~Running
  BY <1>1 DEF Follows, Limited, Running
<1>2. CASE Running
  <2>1. /\ chan' = Append(chan, event) /\ lt'.pc = "sleep" /\ lt'.wait = wait
        /\ lt'.announced = locals.announced /\ (Running <=> Running')
    BY <1>2 DEF SendThenSleep, Running, Locals
  <2>2. Len(chan) \in Nat /\ Len(chan') = Len(chan) + 1 /\ chan' # <<>>
        /\ chan'[Len(chan')] = event /\ \A i \in 1 .. Len(chan) : chan'[i] = chan[i]
    BY <2>1
  <2>3. Expected' = Opens(event)
    BY <2>2 DEF Expected
  <2>4. Follows'
    BY <1>2, <2>1, <2>3 DEF Follows
  <2>5. Steady' => Steady /\ Opens(event) = drv.forward
    <3>1. ASSUME Steady' PROVE Steady /\ Opens(event) = drv.forward
      <4>1. \A i \in 1 .. Len(chan) + 1 : Opens(chan'[i]) = drv.forward
        BY <2>2, <3>1 DEF Steady
      <4>2. Opens(chan'[Len(chan) + 1]) = drv.forward
        BY <2>2, <4>1
      <4> QED
        BY <2>2, <4>1, <4>2 DEF Steady
    <3> QED
      BY <3>1
  <2>6. Limited'
    <3>1. ASSUME Steady', drv.forward # NoPort PROVE stale' <= Limit'
      <4>1. stale <= 1 /\ wait <= LongestWait
        BY <1>2, <2>5, <3>1
      <4>2. Limit' = LongestWait + 1 - wait
        BY <2>1 DEF Limit, LongestWait, renew_after
      <4> QED
        BY <4>1, <4>2, WaitBounded
    <3>2. stale' <= LongestWait + 4
      BY DEF Limited
    <3> QED
      BY <3>1, <3>2 DEF Limited, LongestWait, renew_after
  <2> QED
    BY <2>4, <2>6
<1> QED
  BY <1>1, <1>2

\* Every step keeps StaleInv.
LEMMA StaleKept == StaleInv /\ [Next]_vars => StaleInv'
<1> SUFFICES ASSUME StaleInv, [Next]_vars PROVE StaleInv'
  OBVIOUS
<1>0. /\ LeaseInv /\ LeaseInv' /\ AgreeInv /\ PassInv /\ RestInv
      /\ GrantHeld /\ Follows /\ Limited
  BY LeaseKept DEF StaleInv, LeaseInv, AgreeInv
<1>types. /\ lt \in Locals /\ lt' \in Locals /\ gw \in Gateways /\ chan \in Seq(Events)
          /\ drv \in Drivers /\ stale \in Nat
  BY <1>0 DEF LeaseInv, AgreeInv, TypeOK
<1>nat. /\ lt.spent \in {0, 1} /\ lt.wait \in Nat /\ lt.got.left \in Nat
        /\ LongestWait \in Nat /\ LongestWait' = LongestWait
        /\ \A granted \in Grants : renew_after(granted) <= LongestWait
  BY <1>types, WaitBounded DEF Locals, Leases, LongestWait, renew_after
<1>times. RETRY \in Nat /\ STARTUP_GRACE \in Nat /\ renew_after(lt.got.left) \in Nat
  BY <1>nat, TimesAssumption, RenewAfterIsNat
<1>idle. ASSUME ~Relying' PROVE GrantHeld'
  BY <1>idle DEF GrantHeld
<1>1. CASE Start
  <2>1. SendThenSleep(Pending, lt, STARTUP_GRACE, "done") /\ drv' = drv /\ stale' = stale
        /\ lt.pc = "start"
    BY <1>1 DEF Start, At
  <2>2. Pending \in Events /\ Opens(Pending) = NoPort /\ lt.announced = NoPort
        /\ "done" \in Steps
    BY <1>0, <2>1 DEF Pending, Events, Opens, PassInv, Steps, Resting
  <2>3. Follows' /\ Limited'
    BY <1>0, <1>types, <1>times, <2>1, <2>2, SendFollows
  <2>4. ~Relying'
    BY <1>types, <2>1, <2>2 DEF SendThenSleep, Relying, Locals
  <2> QED
    BY <1>0, <1>idle, <2>3, <2>4 DEF StaleInv
<1>2. CASE Wake
  <2>1. /\ lt'.announced = lt.announced /\ lt'.got = lt.got /\ lt.pc = "sleep"
        /\ UNCHANGED <<chan, drv, stale>>
        /\ \/ Running /\ lt.wait = 0 /\ lt'.pc = "udp" /\ lt'.spent = 0
           \/ ~Running /\ lt'.pc = "leave"
    BY <1>types, <1>2 DEF Wake, At, Locals
  <2>2. GrantHeld'
    BY <1>0, <2>1 DEF GrantHeld, Relying
  <2>3. Follows'
    BY <1>0, <2>1 DEF Follows, Expected, Running
  <2>4. Limited'
    BY <1>0, <1>nat, <2>1 DEF Limited, Limit, Steady, Running
  <2> QED
    BY <1>0, <2>2, <2>3, <2>4 DEF StaleInv
<1>3. CASE RenewFails \/ RestartNoticed
  <2>1. /\ lt'.pc = "failed" /\ lt'.announced = lt.announced
        /\ lt.pc \in {"udp", "tcp"} /\ UNCHANGED <<chan, drv, stale>>
    BY <1>types, <1>3 DEF RenewFails, Unanswered, RestartNoticed, At, Locals
  <2>2. GrantHeld'
    BY <1>idle, <2>1 DEF Relying
  <2>3. Follows'
    BY <1>0, <2>1 DEF Follows, Expected, Running
  <2>4. Limited'
    BY <1>0, <1>nat, <2>1 DEF Limited, Limit, Steady, Running
  <2> QED
    BY <1>0, <2>2, <2>3, <2>4 DEF StaleInv
<1>4. CASE UdpAnswered
  <2>1. PICK m \in Granted("udp") :
          /\ lt' = [lt EXCEPT !.pc = "tcp", !.epoch = gw.up, !.got = m, !.spent = 0]
          /\ stale' = IF m.port = drv.forward THEN 0 ELSE stale
          /\ lt.pc = "udp" /\ UNCHANGED <<chan, drv>>
    BY <1>4 DEF UdpAnswered, At
  <2>2. lt'.pc = "tcp" /\ lt'.got = m /\ lt'.spent = 0 /\ lt'.announced = lt.announced
    BY <1>types, <2>1 DEF Locals
  <2>3. m.left \in Grants
    BY <2>1 DEF Granted
  <2>4. GrantHeld'
    BY <2>2, <2>3 DEF GrantHeld
  <2>5. Follows'
    BY <1>0, <2>1, <2>2 DEF Follows, Expected, Running
  <2>6. Limited'
    <3>1. stale' <= LongestWait + 4
      BY <1>0, <1>nat, <2>1 DEF Limited
    <3>2. ASSUME Running, Steady, drv.forward # NoPort PROVE stale' <= Limit'
      <4>1. stale <= LongestWait + 1 + lt.spent
        BY <1>0, <2>1, <3>2 DEF Limited, Limit
      <4>2. Limit' = IF m.port = drv.forward THEN 0 ELSE LongestWait + 2
        BY <1>nat, <2>1, <2>2 DEF Limit
      <4> QED
        BY <1>types, <1>nat, <2>1, <4>1, <4>2
    <3> QED
      BY <1>nat, <2>1, <3>1, <3>2 DEF Limited, Steady, Running
  <2> QED
    BY <1>0, <2>4, <2>5, <2>6 DEF StaleInv
<1>5. CASE TcpAnswered
  <2>1. /\ lt.pc = "tcp" /\ lt'.got = lt.got /\ lt'.announced = lt.announced /\ lt'.spent = 0
        /\ lt'.pc = IF lt.announced = lt.got.port THEN "report" ELSE "address"
        /\ UNCHANGED <<chan, drv, stale>>
    BY <1>types, <1>5 DEF TcpAnswered, At, Locals
  <2>2. GrantHeld'
    BY <1>0, <2>1 DEF GrantHeld, Relying
  <2>3. Follows'
    BY <1>0, <2>1 DEF Follows, Expected, Running
  <2>4. ASSUME Running, Steady PROVE lt.announced = drv.forward
    <3>1. Expected = lt.announced /\ (Len(chan) # 0 => Len(chan) \in 1 .. Len(chan))
      BY <1>0, <1>types, <2>1, <2>4 DEF Follows
    <3> QED
      BY <1>types, <2>4, <3>1 DEF Expected, Steady
  <2>5. Limited'
    <3>1. ASSUME Running, Steady, drv.forward # NoPort PROVE stale' <= Limit'
      <4>1. stale <= lt.spent + IF lt.got.port = drv.forward THEN 0 ELSE LongestWait + 2
        BY <1>0, <2>1, <3>1 DEF Limited, Limit
      <4>2. Limit' = IF lt.announced = lt.got.port
                     THEN IF lt.got.port = drv.forward THEN 1 ELSE LongestWait + 4
                     ELSE LongestWait + 3 + 0
        BY <1>nat, <2>1 DEF Limit
      <4> QED
        BY <1>types, <1>nat, <2>1, <2>4, <3>1, <4>1, <4>2
    <3> QED
      BY <1>0, <1>nat, <2>1, <3>1 DEF Limited, Steady, Running
  <2> QED
    BY <1>0, <2>2, <2>3, <2>5 DEF StaleInv
<1>6. CASE AskAddress
  <2>1. /\ lt.pc = "address" /\ lt'.got = lt.got /\ lt'.pc = "report"
        /\ UNCHANGED <<chan, drv, stale>>
    BY <1>types, <1>6 DEF AskAddress, At, Locals
  <2>2. GrantHeld'
    BY <1>0, <2>1 DEF GrantHeld, Relying
  <2>3. Follows'
    BY <1>0, <2>1 DEF Follows, Expected, Running
  <2>4. ASSUME Running, Steady PROVE lt.got.port # drv.forward
    <3>1. Expected = lt.announced /\ (Len(chan) # 0 => Len(chan) \in 1 .. Len(chan))
          /\ lt.announced # lt.got.port
      BY <1>0, <1>types, <2>1, <2>4 DEF Follows
    <3> QED
      BY <1>types, <2>4, <3>1 DEF Expected, Steady
  <2>5. Limited'
    BY <1>0, <1>nat, <2>1, <2>4 DEF Limited, Limit, Steady, Running
  <2> QED
    BY <1>0, <2>2, <2>3, <2>5 DEF StaleInv
<1>7. CASE Report
  <2>1. /\ SendThenSleep(Mapped(lt.got.port), lt, renew_after(lt.got.left), "leave")
        /\ drv' = drv /\ stale' = stale /\ lt.pc = "report"
    BY <1>7 DEF Report, At
  <2>2. /\ Mapped(lt.got.port) \in Events /\ Opens(Mapped(lt.got.port)) = lt.announced
        /\ lt.announced = lt.got.port /\ "leave" \in Steps
    BY <1>0, <1>types, <2>1 DEF Mapped, Events, Opens, PassInv, Steps, Locals, Leases
  <2>3. lt.got.left \in Grants
    BY <1>0, <2>1 DEF GrantHeld, Relying
  <2>4. ASSUME Running, Steady, drv.forward = lt.announced, lt.announced # NoPort
        PROVE  stale <= 1
    BY <1>0, <2>1, <2>2, <2>4 DEF Limited, Limit
  <2>5. Follows' /\ Limited'
    BY <1>0, <1>types, <1>nat, <1>times, <2>1, <2>2, <2>3, <2>4, SendFollows
  <2>6. GrantHeld'
    BY <1>types, <2>1, <2>3 DEF SendThenSleep, GrantHeld, Locals
  <2> QED
    BY <1>0, <2>5, <2>6 DEF StaleInv
<1>8. CASE ReportFailure
  <2>1. PICK failures \in 0 .. (QUIET_FAILURES + 1), event \in {Pending, Lost} :
          /\ SendThenSleep(event, [lt EXCEPT !.failures = failures, !.announced = NoPort],
                           RETRY, "leave")
          /\ drv' = drv /\ stale' = stale
    <3>1. lt.failures \in 0 .. (QUIET_FAILURES + 1) /\ QUIET_FAILURES \in Nat
      BY <1>types, BoundsAssumption DEF Locals
    <3>2. PICK failures : failures = IF lt.failures > QUIET_FAILURES THEN lt.failures
                                                                     ELSE lt.failures + 1
      OBVIOUS
    <3>3. failures \in 0 .. (QUIET_FAILURES + 1)
      BY <3>1, <3>2
    <3>4. PICK event : event = IF failures <= QUIET_FAILURES THEN Pending ELSE Lost
      OBVIOUS
    <3>5. SendThenSleep(event, [lt EXCEPT !.failures = failures, !.announced = NoPort],
                        RETRY, "leave")
      BY <1>8, <3>2, <3>4 DEF ReportFailure
    <3>6. event \in {Pending, Lost}
      BY <3>4
    <3> QED
      BY <1>8, <3>3, <3>5, <3>6 DEF ReportFailure
  <2>2. PICK locals \in Locals : /\ locals = [lt EXCEPT !.failures = failures,
                                                       !.announced = NoPort]
                                 /\ locals.announced = NoPort
    <3>1. PICK locals : locals = [lt EXCEPT !.failures = failures, !.announced = NoPort]
      OBVIOUS
    <3>2. locals \in Locals /\ locals.announced = NoPort
      BY <1>types, <3>1 DEF Locals
    <3> QED
      BY <3>1, <3>2
  <2>3. event \in Events /\ Opens(event) = NoPort /\ "leave" \in Steps
    BY DEF Pending, Lost, Events, Opens, Steps
  <2>4. Follows' /\ Limited'
    BY <1>0, <1>types, <1>times, <2>1, <2>2, <2>3, SendFollows
  <2>5. ~Relying'
    BY <2>1, <2>2 DEF SendThenSleep, Relying, Locals
  <2> QED
    BY <1>0, <1>idle, <2>4, <2>5 DEF StaleInv
<1>9. CASE Leave
  <2>1. /\ lt.pc \in {"leave", "release_udp", "release_tcp"}
        /\ lt'.pc \in {"release_udp", "release_tcp", "done"} /\ UNCHANGED <<chan, drv, stale>>
    BY <1>9 DEF Leave, At, Fresh
  <2>2. ~Running
    BY <1>0, <2>1 DEF Follows
  <2>3. Follows' /\ Limited'
    BY <1>0, <1>nat, <2>1, <2>2 DEF Follows, Limited, Running
  <2> QED
    BY <1>0, <1>idle, <2>1, <2>3 DEF StaleInv, Relying
<1>10. CASE DriverTakesEvent
  <2>1. lt' = lt /\ stale' = IF drv'.forward = drv.forward THEN stale ELSE 0
    BY <1>10 DEF DriverTakesEvent
  <2>2. /\ Expected' = Expected /\ (Running' <=> Running) /\ Running
        /\ Steady' /\ drv'.forward = drv.forward => Steady
    BY <1>types, <1>10, TakeFollows DEF DriverTakesEvent
  <2>3. GrantHeld' /\ Follows'
    BY <1>0, <2>1, <2>2 DEF GrantHeld, Relying, Follows
  <2>4. drv'.forward # NoPort /\ Steady' => Limit' \in Int /\ 0 <= Limit'
    <3>1. SUFFICES ASSUME drv'.forward # NoPort, Steady' PROVE Limit' \in Int /\ 0 <= Limit'
      OBVIOUS
    <3>2. ASSUME lt.pc = "sleep" PROVE lt.wait <= LongestWait
      <4>1. Expected' = lt.announced /\ (Len(chan') # 0 => Len(chan') \in 1 .. Len(chan'))
            /\ chan' \in Seq(Events)
        <5>1. chan' \in Seq(Events)
          BY <1>0 DEF LeaseInv, AgreeInv, TypeOK
        <5> QED
          BY <1>0, <2>2, <3>2, <5>1 DEF Follows
      <4>2. lt.announced = drv'.forward
        BY <3>1, <4>1 DEF Expected, Steady
      <4>3. lt.wait <= renew_after(lt.got.left) /\ lt.got.left \in Grants
        BY <1>0, <3>1, <3>2, <4>2 DEF RestInv, GrantHeld, Relying
      <4> QED
        BY <1>nat, <1>times, <4>3
    <3> QED
      BY <1>nat, <2>1, <3>2 DEF Limit
  <2>5. Limited'
    <3>1. CASE drv'.forward = drv.forward
      BY <1>0, <1>nat, <2>1, <2>2, <3>1 DEF Limited, Limit
    <3>2. CASE drv'.forward # drv.forward
      BY <1>nat, <2>1, <2>4, <3>2 DEF Limited
    <3> QED
      BY <3>1, <3>2
  <2> QED
    BY <1>0, <2>3, <2>5 DEF StaleInv
<1>11. CASE DriverEnds
  <2>1. /\ lt' = lt /\ stale' = 0 /\ drv'.phase # "running"
        /\ drv'.forward = NoPort \/ (drv'.forward = drv.forward /\ ~Running)
    BY <1>types, <1>11 DEF DriverEnds, Drivers, Running
  <2>2. GrantHeld' /\ Follows' /\ Limited'
    BY <1>0, <1>nat, <2>1 DEF GrantHeld, Relying, Follows, Limited, Running
  <2> QED
    BY <1>0, <2>2 DEF StaleInv
<1>12. CASE GatewayRestarts \/ UNCHANGED vars
  <2>1. UNCHANGED <<lt, chan, drv, stale>>
    BY <1>12 DEF GatewayRestarts, vars
  <2>2. GrantHeld' /\ Follows' /\ Limited'
    BY <1>0, <1>nat, <2>1 DEF GrantHeld, Relying, Follows, Limited, Limit, Expected, Steady,
                              Running
  <2> QED
    BY <1>0, <2>2 DEF StaleInv
<1>13. CASE Tick
  <2>1. /\ lt'.pc = lt.pc /\ lt'.got = lt.got /\ lt'.announced = lt.announced
        /\ lt'.wait = IF lt.pc = "sleep" THEN lt.wait - 1 ELSE lt.wait
        /\ lt'.spent = IF lt.pc \in Exchanging THEN 1 ELSE 0
    BY <1>types, <1>13 DEF Tick, At, Locals
  <2>2. /\ stale' = 0 \/ (drv.forward # NoPort /\ stale' = stale + 1)
        /\ UNCHANGED <<chan, drv>>
        /\ lt.pc \in Resting \cup Exchanging
        /\ lt.pc = "sleep" => lt.wait > 0
        /\ lt.pc \in Exchanging => lt.spent = 0
        /\ Running => chan = <<>>
    BY <1>13 DEF Tick, MayWait, At
  <2>3. GrantHeld' /\ Follows'
    BY <1>0, <2>1, <2>2 DEF GrantHeld, Relying, Follows, Expected, Running
  <2>4. CASE ~Running \/ drv.forward = NoPort
    <3>1. stale' = 0
      BY <1>0, <2>2, <2>4 DEF Follows
    <3>2. Limited'
      BY <1>nat, <2>2, <2>4, <3>1 DEF Limited, Running
    <3> QED
      BY <1>0, <2>3, <3>2 DEF StaleInv
  <2>5. CASE Running /\ drv.forward # NoPort
    <3>1. Steady /\ (lt.pc # "report" => lt.announced = drv.forward)
      BY <1>0, <2>2, <2>5 DEF Follows, Expected, Steady
    <3>2. lt.pc \in {"sleep", "udp", "tcp", "address"} /\ Steady /\ lt.announced # NoPort
      BY <1>0, <2>2, <2>5, <3>1 DEF Follows, Resting, Exchanging
    <3>3. stale <= Limit
      BY <1>0, <2>5, <3>2 DEF Limited
    <3>4. lt.pc = "sleep" => lt.wait <= LongestWait
      <4>1. ASSUME lt.pc = "sleep" PROVE lt.wait <= LongestWait
        <5>1. lt.wait <= renew_after(lt.got.left) /\ lt.got.left \in Grants
          BY <1>0, <3>2, <4>1 DEF RestInv, GrantHeld, Relying
        <5> QED
          BY <1>nat, <1>times, <5>1
      <4> QED
        BY <4>1
    <3>5. Limit' = Limit + 1 /\ Limit \in Nat /\ Limit' <= LongestWait + 4
      <4>1. CASE lt.pc = "sleep"
        <5>1. Limit = LongestWait + 1 - lt.wait /\ Limit' = LongestWait + 1 - (lt.wait - 1)
          BY <1>nat, <2>1, <4>1 DEF Limit
        <5> QED
          BY <1>nat, <2>2, <3>4, <4>1, <5>1
      <4>2. CASE lt.pc = "udp"
        <5>1. Limit = LongestWait + 1 + 0 /\ Limit' = LongestWait + 1 + 1
          BY <1>nat, <2>1, <2>2, <4>2 DEF Limit, Exchanging
        <5> QED
          BY <1>nat, <5>1
      <4>3. CASE lt.pc = "tcp"
        <5>1. PICK base \in {0, LongestWait + 2} :
                base = IF lt.got.port = drv.forward THEN 0 ELSE LongestWait + 2
          OBVIOUS
        <5>2. Limit = 0 + base /\ Limit' = 1 + base
          BY <1>nat, <2>1, <2>2, <4>3, <5>1 DEF Limit, Exchanging
        <5> QED
          BY <1>nat, <5>1, <5>2
      <4>4. CASE lt.pc = "address"
        <5>1. Limit = LongestWait + 3 + 0 /\ Limit' = LongestWait + 3 + 1
          BY <1>nat, <2>1, <2>2, <4>4 DEF Limit, Exchanging
        <5> QED
          BY <1>nat, <5>1
      <4> QED
        BY <3>2, <4>1, <4>2, <4>3, <4>4
    <3>6. Limited'
      BY <1>types, <1>nat, <2>2, <3>3, <3>5 DEF Limited
    <3> QED
      BY <1>0, <2>3, <3>6 DEF StaleInv
  <2> QED
    BY <2>4, <2>5
<1> QED
  BY <1>1, <1>2, <1>3, <1>4, <1>5, <1>6, <1>7, <1>8, <1>9, <1>10, <1>11, <1>12, <1>13
     DEF Next, LeaseThread

\* The forward stays open on a number that is not mapped for at most one renewal
\* interval and the four exchanges around it, whatever the gateway grants, loses or
\* forgets (renew_after, lease_loop, and the lease arm of route).
THEOREM StaleStaysBounded == Spec => []StaleBounded
<1>1. Init => StaleInv
  <2> SUFFICES ASSUME Init PROVE StaleInv
    OBVIOUS
  <2>1. AgreeInv
    BY AgreeInit
  <2>2. /\ ~Relying /\ lt.pc \in {"start", "none"} /\ lt.announced = NoPort
        /\ chan = <<>> /\ drv.forward = NoPort /\ stale = 0
    BY DEF Init, Fresh, Relying
  <2>3. LeaseInv
    BY <2>1, <2>2 DEF LeaseInv, RestInv, Lasts, Relying
  <2>4. GrantHeld /\ Follows /\ Limited
    BY <2>2, WaitBounded DEF GrantHeld, Follows, Limited, Expected
  <2> QED
    BY <2>3, <2>4 DEF StaleInv
<1>2. StaleInv => StaleBounded
  BY DEF StaleInv, Limited, StaleBounded
<1> QED
  BY <1>1, StaleKept, <1>2, PTL DEF Spec
=============================================================================
