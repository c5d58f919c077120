------------------------------- MODULE Session -------------------------------
(***************************************************************************)
(* The life of a session on Linux: main.rs and engine::run, with the       *)
(* guards of route.rs and killswitch.rs, the gate of preflight.rs and the  *)
(* watcher of tripwire.rs.                                                 *)
(*                                                                         *)
(* The engine brings the host up step by step, and every step may fail.    *)
(* What is up is undone in the opposite order, whether the data path ended *)
(* or a later step bailed out.  The tripwire thread runs beside it and may *)
(* end the process at any point, without a single Drop; so may a crash (a  *)
(* panic aborts in the release build).  The kernel then removes the TUN,   *)
(* with the routes and the resolved link settings that hang on it, but     *)
(* keeps the nftables tables and /etc/resolv.conf.                         *)
(***************************************************************************)
EXTENDS Naturals

VARIABLES
  \* The host.
  tun,          \* the interface exists
  routes,       \* which half-default routes lead into it: "lo", "hi"
  killswitch,   \* table inet tunnel_killswitch
  panic,        \* table inet tunnel_panic
  resolv,       \* the resolver: "orig", "ours" or "absent"
  backend,      \* DnsBackend
  symlink,      \* the original /etc/resolv.conf is a symbolic link
  injected,     \* somebody's more specific route leads off the TUN
  \* The process.
  pc,           \* where engine::run is
  capture,      \* not --no-route
  route_guard, ks_guard,
  saved,        \* what DnsGuard will restore, or "none"
  shutdown,     \* Shared.shutdown
  running, full_tunnel,  \* Status
  \* The tripwire.
  trip,         \* where the watcher thread is
  stop,         \* Watcher.stop
  events,       \* a route change waits in the netlink socket
  \* History.
  found,        \* the resolver as this session found it
  warned,       \* the parts whose removal failed, and was only logged
  was_injected, \* a route was injected at some time in this session
  overflowed    \* a netlink notification was lost

host == <<tun, routes, killswitch, panic, resolv, backend, symlink, injected>>
guards == <<route_guard, ks_guard, saved>>
status == <<running, full_tunnel>>
wire == <<trip, stop, events>>
history == <<found, warned, was_injected, overflowed>>
vars == <<host, pc, capture, guards, shutdown, status, wire, history>>

Halves == {"lo", "hi"}

\* Mutant of Intact: either of our routes is taken for both.
IntactEither == routes # {}

\* tunnel_routes_intact
Intact == routes = Halves

\* A canary of each half is asked for; it leaks if it leaves by another device.
Leaking == injected \/ routes # Halves

\* Removing the interface removes what hangs on it.
TunGone ==
  /\ tun' = FALSE
  /\ routes' = {}
  /\ resolv' = IF backend = "SystemdResolved" THEN "orig" ELSE resolv

-----------------------------------------------------------------------------
(* main: preflight and the bring-up in engine::run.                        *)

Launch(c) ==
  /\ pc = "off"
  /\ pc' = "preflight" /\ capture' = c
  /\ found' = resolv /\ warned' = {}
  /\ was_injected' = injected /\ overflowed' = FALSE
  /\ UNCHANGED <<host, guards, shutdown, status, wire>>

\* Mutant of PreflightPasses: the stale table is left for the new one to be laid on top.
PreflightKeepsStale ==
  /\ pc = "preflight"
  /\ capture => ~panic /\ (backend = "ResolvConf" => resolv # "absent")
  /\ pc' = "tun"
  /\ UNCHANGED <<host, capture, guards, shutdown, status, wire, history>>
\* Mutant of PreflightPasses: a standing lockdown is not looked for.
PreflightIgnoresPanic ==
  /\ pc = "preflight"
  /\ capture /\ backend = "ResolvConf" => resolv # "absent"
  /\ killswitch' = (killswitch /\ ~capture)
  /\ pc' = "tun"
  /\ UNCHANGED <<tun, routes, panic, resolv, backend, symlink, injected,
                 capture, guards, shutdown, status, wire, history>>

\* The gate passes: no lockdown stands, and a stale kill switch is cleared.
PreflightPasses ==
  /\ pc = "preflight"
  /\ capture => ~panic /\ (backend = "ResolvConf" => resolv # "absent")
  /\ killswitch' = (killswitch /\ ~capture)
  /\ pc' = "tun"
  /\ UNCHANGED <<tun, routes, panic, resolv, backend, symlink, injected,
                 capture, guards, shutdown, status, wire, history>>

\* A precondition does not hold.  The resolver is looked at last, so a stale
\* kill switch may have been cleared by then; nothing else is touched.
PreflightFails ==
  /\ pc = "preflight"
  /\ \/ killswitch' = killswitch
     \/ capture /\ ~panic /\ killswitch' = FALSE
  /\ pc' = "off"
  /\ UNCHANGED <<tun, routes, panic, resolv, backend, symlink, injected,
                 capture, guards, shutdown, status, wire, history>>

\* TunIo::new, and the choice of --no-route.
BringUpTun ==
  /\ pc = "tun"
  /\ \/ tun' = TRUE /\ pc' = IF capture THEN "lo" ELSE "publish"
     \/ tun' = tun /\ pc' = "ended"
  /\ UNCHANGED <<routes, killswitch, panic, resolv, backend, symlink, injected,
                 capture, guards, shutdown, status, wire, history>>

\* add_default_via_tun: the two halves, one command each.  When either fails
\* the guard is dropped with installed = false, so nothing is undone, and the
\* engine goes on without it.
AddRoute(half, next) ==
  /\ pc = half
  /\ \/ /\ tun
        /\ routes' = routes \cup {half}
        /\ pc' = next
        /\ route_guard' = (half = "hi")
        /\ events' = TRUE
     \/ /\ pc' = "publish"
        /\ UNCHANGED <<routes, route_guard, events>>
  /\ UNCHANGED <<tun, killswitch, panic, resolv, backend, symlink, injected,
                 capture, ks_guard, saved, shutdown, status, trip, stop, history>>

\* DnsGuard::install, first half: what is there is remembered, and a symbolic
\* link is removed.
SaveResolver ==
  /\ pc = "dns"
  /\ \/ /\ saved' = resolv
        /\ resolv' = IF backend = "ResolvConf" /\ symlink /\ resolv = "orig"
                     THEN "absent" ELSE resolv
        /\ pc' = "write"
     \/ /\ pc' = "drop_route"
        /\ UNCHANGED <<saved, resolv>>
  /\ UNCHANGED <<tun, routes, killswitch, panic, backend, symlink, injected,
                 capture, route_guard, ks_guard, shutdown, status, wire, history>>

\* Mutant of WriteResolver: a failed write is reported, and that is all.
WriteResolverNoRevert ==
  /\ pc = "write"
  /\ \/ resolv' = "ours" /\ pc' = "kill" /\ saved' = saved
     \/ resolv' = resolv /\ pc' = "drop_route" /\ saved' = "none"
  /\ UNCHANGED <<tun, routes, killswitch, panic, backend, symlink, injected,
                 capture, route_guard, ks_guard, shutdown, status, wire, history>>

\* Second half: the new configuration is written; or the engine bails out, and
\* what was removed is put back first.  resolvectl is not reverted: the link
\* settings go with the TUN.
WriteResolver ==
  /\ pc = "write"
  /\ \/ resolv' = "ours" /\ pc' = "kill" /\ UNCHANGED <<saved, warned>>
     \/ /\ pc' = "drop_route" /\ saved' = "none"
        /\ \/ /\ resolv' \in (IF backend = "ResolvConf" THEN {saved} ELSE {"orig", "ours"})
              /\ warned' = warned
           \/ /\ backend = "ResolvConf"
              /\ resolv' \in {resolv, "absent"} /\ warned' = warned \cup {"resolver"}
  /\ UNCHANGED <<tun, routes, killswitch, panic, backend, symlink, injected,
                 capture, route_guard, ks_guard, shutdown, status, wire,
                 found, was_injected, overflowed>>

\* Mutant of ArmKillSwitch: a kill switch that cannot be armed is only reported.
ArmKillSwitchOrNot ==
  /\ pc = "kill"
  /\ \/ killswitch' = TRUE /\ ks_guard' = TRUE /\ pc' = "trip"
     \/ pc' = "publish" /\ UNCHANGED <<killswitch, ks_guard>>
  /\ UNCHANGED <<tun, routes, panic, resolv, backend, symlink, injected,
                 capture, route_guard, saved, shutdown, status, wire, history>>

\* KillSwitch::install: one atomic nft script, and no running without it.
ArmKillSwitch ==
  /\ pc = "kill"
  /\ \/ killswitch' = TRUE /\ ks_guard' = TRUE /\ pc' = "trip"
     \/ pc' = "drop_dns" /\ UNCHANGED <<killswitch, ks_guard>>
  /\ UNCHANGED <<tun, routes, panic, resolv, backend, symlink, injected,
                 capture, route_guard, saved, shutdown, status, wire, history>>

SpawnTripwire ==
  /\ pc = "trip"
  /\ trip' = "open" /\ stop' = FALSE
  /\ pc' = "publish"
  /\ UNCHANGED <<host, capture, guards, shutdown, status, events, history>>

Publish ==
  /\ pc = "publish"
  /\ running' = TRUE /\ full_tunnel' = capture
  /\ pc' = "run"
  /\ UNCHANGED <<host, capture, guards, shutdown, wire, history>>

-----------------------------------------------------------------------------
(* The end of the data path, and the teardown in reverse order.            *)

\* Ctrl-C, the shutdown flag, a TUN that closed, or an error of the exit.
DataPathEnds ==
  /\ pc = "run"
  /\ pc' = "stop_trip"
  /\ UNCHANGED <<host, capture, guards, shutdown, status, wire, history>>

\* Watcher::drop: set stop, then join.
SetStop ==
  /\ pc = "stop_trip" /\ trip # "none" /\ ~stop
  /\ stop' = TRUE
  /\ UNCHANGED <<host, pc, capture, guards, shutdown, status, trip, events, history>>

\* The join returns once the watch loop has seen the flag.
JoinTripwire ==
  /\ pc = "stop_trip"
  /\ trip = "none" \/ (stop /\ trip = "done")
  /\ trip' = "none"
  /\ pc' = "drop_ks"
  /\ UNCHANGED <<host, capture, guards, shutdown, status, stop, events, history>>

\* Each guard's Drop: what it installed is removed, or the command fails and
\* a warning is logged.
DropKillSwitch ==
  /\ pc = "drop_ks"
  /\ ks_guard' = FALSE
  /\ \/ killswitch' = (killswitch /\ ~ks_guard) /\ warned' = warned
     \/ ks_guard /\ warned' = warned \cup {"filter"} /\ killswitch' = killswitch
  /\ pc' = "drop_dns"
  /\ UNCHANGED <<tun, routes, panic, resolv, backend, symlink, injected,
                 capture, route_guard, saved, shutdown, status, wire,
                 found, was_injected, overflowed>>

DropDns ==
  /\ pc = "drop_dns"
  /\ saved' = "none"
  /\ \/ resolv' = (IF saved = "none" THEN resolv ELSE saved) /\ warned' = warned
     \/ saved # "none" /\ backend = "SystemdResolved" /\ UNCHANGED <<resolv, warned>>
     \/ /\ saved # "none" /\ backend = "ResolvConf"
        /\ resolv' \in {resolv, "absent"} /\ warned' = warned \cup {"resolver"}
  /\ pc' = "drop_route"
  /\ UNCHANGED <<tun, routes, killswitch, panic, backend, symlink, injected,
                 capture, route_guard, ks_guard, shutdown, status, wire,
                 found, was_injected, overflowed>>

DropRoute ==
  /\ pc = "drop_route"
  /\ route_guard' = FALSE
  /\ \E left \in SUBSET routes : routes' = IF route_guard THEN left ELSE routes
  /\ pc' = "drop_tun"
  /\ UNCHANGED <<tun, killswitch, panic, resolv, backend, symlink, injected,
                 capture, ks_guard, saved, shutdown, status, wire, history>>

\* KeepAlive::shutdown, and main's wrapper around the engine.
DropTun ==
  /\ pc = "drop_tun"
  /\ TunGone
  /\ running' = FALSE
  /\ pc' = "ended"
  /\ UNCHANGED <<killswitch, panic, backend, symlink, injected,
                 capture, guards, shutdown, full_tunnel, wire, history>>

\* The dashboard's window is closed.
RequestShutdown ==
  /\ pc \notin {"off", "preflight"} /\ ~shutdown
  /\ shutdown' = TRUE
  /\ UNCHANGED <<host, pc, capture, guards, status, wire, history>>

\* The engine's future is done, and main returns: at once without a dashboard,
\* else when its window closes.
Exit ==
  /\ pc = "ended"
  /\ pc' = "off"
  /\ shutdown' = FALSE /\ running' = FALSE /\ full_tunnel' = FALSE
  /\ stop' = FALSE /\ events' = FALSE
  /\ UNCHANGED <<host, capture, guards, trip, history>>

-----------------------------------------------------------------------------
(* The tripwire: watch_loop and detect_attack.                             *)

engine == <<host, pc, capture, guards, shutdown, status, stop, history>>

\* Where a check of the forwarding table leads.
Verdict(at, held, then) ==
  /\ trip = at
  /\ trip' = IF held THEN then ELSE "wait"
  /\ UNCHANGED <<engine, events>>

OpenNetlink ==
  /\ trip = "open"
  /\ trip' \in {"leak1", "blind"}
  /\ UNCHANGED <<engine, events>>

FirstLeak == Verdict("leak1", Leaking, "intact1")

FirstIntact == Verdict("intact1", Intact, "confirm")
Confirm == Verdict("confirm", ~shutdown, "leak2")
SecondLeak == Verdict("leak2", Leaking, "intact2")
SecondIntact == Verdict("intact2", Intact, "attack")

\* Mutant of Watch: the loop looks at the dashboard's flag only.
WatchUntilShutdown ==
  /\ trip = "wait"
  /\ trip' = IF shutdown THEN "done" ELSE "recv"
  /\ UNCHANGED <<engine, events>>

\* The top of the loop.
Watch ==
  /\ trip = "wait"
  /\ trip' = IF stop \/ shutdown THEN "done" ELSE "recv"
  /\ UNCHANGED <<engine, events>>

\* Mutant of Receive: only the first look at the table counts.
ReceiveNothing ==
  /\ trip = "recv"
  /\ events' = FALSE
  /\ trip' = "wait"
  /\ UNCHANGED engine

\* recv returns a notification, or runs into SO_RCVTIMEO.
Receive ==
  /\ trip = "recv"
  /\ events' = FALSE
  /\ trip' = IF events /\ ~shutdown THEN "leak1" ELSE "wait"
  /\ UNCHANGED engine

\* recv fails, as it does when the socket's queue overflowed: the loop goes on.
ReceiveError ==
  /\ trip = "recv" /\ events
  /\ events' = FALSE
  /\ trip' = "wait"
  /\ overflowed' = TRUE
  /\ UNCHANGED <<host, pc, capture, guards, shutdown, status, stop,
                 found, warned, was_injected>>

\* nuke: lock the host down, or fail to ...
Lockdown ==
  /\ trip \in {"attack", "blind"}
  /\ panic' \in {TRUE, panic}
  /\ trip' = "exiting"
  /\ UNCHANGED <<tun, routes, killswitch, resolv, backend, symlink, injected,
                 pc, capture, guards, shutdown, status, stop, events, history>>

\* The process is gone: no Drop runs.
ProcessGone ==
  /\ pc' = "off"
  /\ TunGone
  /\ route_guard' = FALSE /\ ks_guard' = FALSE /\ saved' = "none"
  /\ shutdown' = FALSE /\ running' = FALSE /\ full_tunnel' = FALSE
  /\ trip' = "none" /\ stop' = FALSE /\ events' = FALSE
  /\ UNCHANGED <<killswitch, panic, backend, symlink, injected, capture, history>>

\* ... and exit(101).
ExitLocked == trip = "exiting" /\ ProcessGone

-----------------------------------------------------------------------------
(* The world outside (external).                                           *)

Crash == pc # "off" /\ ProcessGone

\* nftables rules are not persistent; /etc/resolv.conf is.
Reboot ==
  /\ pc = "off"
  /\ killswitch' = FALSE /\ panic' = FALSE /\ injected' = FALSE
  /\ UNCHANGED <<tun, routes, resolv, backend, symlink,
                 pc, capture, guards, shutdown, status, wire, history>>

\* A DHCP server hands out, or takes back, a more specific route.
Inject ==
  /\ injected' = ~injected
  /\ was_injected' = (was_injected \/ injected')
  /\ events' = (events \/ pc # "off")
  /\ UNCHANGED <<tun, routes, killswitch, panic, resolv, backend, symlink,
                 pc, capture, guards, shutdown, status, trip, stop,
                 found, warned, overflowed>>

\* One of our routes is removed behind the engine's back.
RouteLost ==
  /\ \E half \in routes : routes' = routes \ {half}
  /\ events' = TRUE
  /\ UNCHANGED <<tun, killswitch, panic, resolv, backend, symlink, injected,
                 pc, capture, guards, shutdown, status, trip, stop, history>>

\* The interface is taken down behind the engine's back.
TunLost ==
  /\ tun
  /\ TunGone
  /\ events' = TRUE
  /\ UNCHANGED <<killswitch, panic, backend, symlink, injected,
                 pc, capture, guards, shutdown, status, trip, stop, history>>

-----------------------------------------------------------------------------

Init ==
  /\ tun = FALSE /\ routes = {} /\ killswitch = FALSE /\ panic = FALSE
  /\ resolv = "orig" /\ injected = FALSE
  /\ backend \in {"SystemdResolved", "ResolvConf"} /\ symlink \in BOOLEAN
  /\ pc = "off" /\ capture = FALSE
  /\ route_guard = FALSE /\ ks_guard = FALSE /\ saved = "none"
  /\ shutdown = FALSE /\ running = FALSE /\ full_tunnel = FALSE
  /\ trip = "none" /\ stop = FALSE /\ events = FALSE
  /\ found = "orig" /\ warned = {} /\ was_injected = FALSE /\ overflowed = FALSE

AddRoutes == AddRoute("lo", "hi") \/ AddRoute("hi", "dns")

BringUp ==
  PreflightPasses \/ PreflightFails \/ BringUpTun \/ AddRoutes \/ SaveResolver
    \/ WriteResolver \/ ArmKillSwitch \/ SpawnTripwire \/ Publish

Teardown ==
  SetStop \/ JoinTripwire \/ DropKillSwitch \/ DropDns \/ DropRoute \/ DropTun

Tripwire ==
  OpenNetlink \/ FirstLeak \/ FirstIntact \/ Confirm \/ SecondLeak \/ SecondIntact
    \/ Watch \/ Receive \/ Lockdown \/ ExitLocked

Next ==
  \/ \E c \in BOOLEAN : Launch(c)
  \/ BringUp \/ Teardown \/ Tripwire
  \/ DataPathEnds \/ RequestShutdown \/ Exit \/ ReceiveError
  \/ Crash \/ Reboot \/ Inject \/ TunLost \/ RouteLost

Spec == Init /\ [][Next]_vars

\* The engine's task and the tripwire's thread are scheduled, and a data path
\* that sees the shutdown flag, or whose TUN is gone, ends.
FairSpec ==
  /\ Spec
  /\ WF_vars(BringUp) /\ WF_vars(Teardown) /\ WF_vars(Tripwire)
  /\ WF_vars(DataPathEnds /\ (shutdown \/ ~tun))

-----------------------------------------------------------------------------
(* Properties.                                                             *)

\* Fail-closed: a session never reaches its data path with the default route
\* captured unless the kill switch is armed and the resolver is pinned (until
\* the TUN itself goes away), whichever of the steps before it failed.  And its
\* filter is up only while its routes are: a table left by a killed run is cleared
\* before the TUN exists, and teardown removes the filter before the routes, unless
\* the removal itself failed.
CapturedMeansGuarded ==
  /\ pc = "run" /\ route_guard =>
       /\ killswitch /\ ks_guard /\ trip # "none"
       /\ saved # "none" /\ (tun => resolv = "ours")
  /\ capture /\ killswitch /\ "filter" \notin warned /\ pc \notin {"off", "preflight", "ended"} =>
       route_guard /\ pc \notin {"tun", "lo", "hi", "dns", "write", "kill"}

\* A session that ends on its own leaves no TUN, no route, no guard and no
\* thread, no filter if it captured, and the resolver as it found it, wherever
\* its bring-up stopped; a removal that failed excuses its own part only.
EndsAsFound ==
  pc = "ended" =>
    /\ ~tun /\ routes = {} /\ ~ks_guard /\ ~route_guard /\ trip = "none" /\ ~running
    /\ capture /\ "filter" \notin warned => ~killswitch
    /\ backend = "ResolvConf" /\ "resolver" \notin warned => resolv = found
    /\ backend = "SystemdResolved" => resolv = "orig"

\* "a compromised session cannot be silently resumed": while the lockdown
\* stands, no capturing session is past preflight, other than the one whose
\* tripwire is about to end the process.
LockdownHolds ==
  panic /\ capture => trip = "exiting" \/ pc \in {"off", "preflight", "ended"}

\* The tripwire calls an attack only in a session in which a route was really
\* injected: losing our own routes, a failing interface or a teardown never
\* looks like one.
NoFalseAlarm == trip = "attack" => was_injected

\* A stop is carried through: once the data path has ended (Ctrl-C sets no
\* flag), or the dashboard asks for it in any phase, the engine comes to rest;
\* joining the tripwire never hangs the teardown.
StopCompletes == (pc = "stop_trip" \/ shutdown) ~> (pc \in {"ended", "off"})

\* An injection that stays, while our routes stay intact, ends the session,
\* unless the netlink notification was lost.
InjectionTrips ==
  (pc = "run" /\ trip # "none" /\ injected /\ Intact)
    ~> (pc # "run" \/ ~injected \/ ~Intact \/ overflowed)
=============================================================================
