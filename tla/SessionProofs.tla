---------------------------- MODULE SessionProofs ----------------------------
(* What a session keeps on the host, whichever of its steps fail and wherever  *)
(* it is killed.                                                               *)
EXTENDS Session, TLAPS

USE DEF host, guards, status, wire, history

-----------------------------------------------------------------------------
(* The inductive invariant, part by part.                                      *)

\* The values that tell one state of the host from another.
Resolvers == {"orig", "ours", "absent"}
HostValues ==
  routes \subseteq Halves /\ resolv \in Resolvers /\ saved \in Resolvers \cup {"none"}

\* Which guards the engine holds, and whether the watcher runs, follow from where
\* the engine is and from whether the routes went in.
Steady == {"publish", "run", "stop_trip"}
GuardsFollow ==
  /\ route_guard \/ pc \in {"lo", "hi"} => capture
  /\ pc \in {"off", "preflight", "tun", "lo", "hi", "drop_tun", "ended"} => ~route_guard
  /\ pc \in {"dns", "write", "kill", "trip"} => route_guard
  /\ ks_guard <=> \/ pc = "trip"
                  \/ route_guard /\ pc \in Steady \cup {"drop_ks"}
  /\ saved # "none" <=> \/ pc \in {"write", "kill", "trip"}
                        \/ route_guard /\ pc \in Steady \cup {"drop_ks", "drop_dns"}
  /\ trip # "none" <=> route_guard /\ pc \in Steady
  /\ running => pc \in {"run", "stop_trip", "drop_ks", "drop_dns", "drop_route", "drop_tun"}

\* A filter on the host, once a capturing session is past preflight, is the one
\* whose guard the engine holds, and while it holds one the filter is there.
FilterFollows ==
  /\ ks_guard => killswitch
  /\ capture /\ killswitch /\ "filter" \notin warned /\ pc \notin {"off", "preflight"} => ks_guard

\* The TUN and what hangs on it; and the resolver: ours while it is pinned, what
\* the session found before that, and again once it has been put back.
HostFollows ==
  /\ ~tun => routes = {}
  /\ pc \in {"off", "preflight", "tun", "ended"} => ~tun
  /\ pc \in {"preflight", "tun", "lo", "hi", "dns", "write"} => "resolver" \notin warned
  /\ saved # "none" /\ pc # "write" /\ tun => resolv = "ours"
  /\ backend = "SystemdResolved" /\ pc \in {"off", "preflight", "tun", "lo", "hi", "dns", "ended"}
       => resolv = "orig"
  /\ backend = "ResolvConf" =>
       /\ saved # "none" => saved = found
       /\ saved = "none" /\ pc # "off" /\ "resolver" \notin warned => resolv = found

\* A watcher that has seen the leak twice has seen a route of somebody else's: our
\* own routes do not come back while it looks.
AlarmFollows ==
  /\ injected => was_injected
  /\ trip = "intact2" => was_injected \/ routes # Halves
  /\ trip = "attack" => was_injected

-----------------------------------------------------------------------------
(* The steps.                                                                  *)

\* Every step leaves the host in one of its states.
LEMMA HostValuesKept == HostValues /\ GuardsFollow /\ [Next]_vars => HostValues'
<1> SUFFICES ASSUME HostValues, GuardsFollow, [Next]_vars PROVE HostValues'
  OBVIOUS
<1>1. ASSUME NEW c \in BOOLEAN, Launch(c) PROVE HostValues'
  BY <1>1 DEF Launch, HostValues, Resolvers, GuardsFollow, Halves
<1>2. CASE PreflightPasses
  BY <1>2 DEF PreflightPasses, HostValues, Resolvers, GuardsFollow, Halves
<1>3. CASE PreflightFails
  BY <1>3 DEF PreflightFails, HostValues, Resolvers, GuardsFollow, Halves
<1>4. CASE BringUpTun
  BY <1>4 DEF BringUpTun, HostValues, Resolvers, GuardsFollow, Halves
<1>5. CASE AddRoute("lo", "hi")
  BY <1>5 DEF AddRoute, HostValues, Resolvers, GuardsFollow, Halves
<1>6. CASE AddRoute("hi", "dns")
  BY <1>6 DEF AddRoute, HostValues, Resolvers, GuardsFollow, Halves
<1>7. CASE SaveResolver
  BY <1>7 DEF SaveResolver, HostValues, Resolvers, GuardsFollow, Halves
<1>8. CASE WriteResolver
  BY <1>8 DEF WriteResolver, HostValues, Resolvers, GuardsFollow, Halves
<1>9. CASE ArmKillSwitch
  BY <1>9 DEF ArmKillSwitch, HostValues, Resolvers, GuardsFollow, Halves
<1>10. CASE SpawnTripwire
  BY <1>10 DEF SpawnTripwire, HostValues, Resolvers, GuardsFollow, Halves
<1>11. CASE Publish
  BY <1>11 DEF Publish, HostValues, Resolvers, GuardsFollow, Halves
<1>12. CASE SetStop
  BY <1>12 DEF SetStop, HostValues, Resolvers, GuardsFollow, Halves
<1>13. CASE JoinTripwire
  BY <1>13 DEF JoinTripwire, HostValues, Resolvers, GuardsFollow, Halves
<1>14. CASE DropKillSwitch
  BY <1>14 DEF DropKillSwitch, HostValues, Resolvers, GuardsFollow, Halves
<1>15. CASE DropDns
  BY <1>15 DEF DropDns, HostValues, Resolvers, GuardsFollow, Halves
<1>16. CASE DropRoute
  BY <1>16 DEF DropRoute, HostValues, Resolvers, GuardsFollow, Halves
<1>17. CASE DropTun
  BY <1>17 DEF DropTun, TunGone, HostValues, Resolvers, GuardsFollow, Halves
<1>18. CASE OpenNetlink
  BY <1>18 DEF OpenNetlink, engine, HostValues, Resolvers, GuardsFollow, Halves
<1>19. CASE FirstLeak
  BY <1>19 DEF FirstLeak, Verdict, engine, HostValues, Resolvers, GuardsFollow, Halves
<1>20. CASE FirstIntact
  BY <1>20 DEF FirstIntact, Verdict, engine, HostValues, Resolvers, GuardsFollow, Halves
<1>21. CASE Confirm
  BY <1>21 DEF Confirm, Verdict, engine, HostValues, Resolvers, GuardsFollow, Halves
<1>22. CASE SecondLeak
  BY <1>22 DEF SecondLeak, Verdict, engine, Leaking, HostValues, Resolvers, GuardsFollow, Halves
<1>23. CASE SecondIntact
  BY <1>23 DEF SecondIntact, Verdict, engine, Intact, HostValues, Resolvers, GuardsFollow, Halves
<1>24. CASE Watch
  BY <1>24 DEF Watch, engine, HostValues, Resolvers, GuardsFollow, Halves
<1>25. CASE Receive
  BY <1>25 DEF Receive, engine, HostValues, Resolvers, GuardsFollow, Halves
<1>26. CASE Lockdown
  BY <1>26 DEF Lockdown, HostValues, Resolvers, GuardsFollow, Halves
<1>27. CASE ExitLocked
  BY <1>27 DEF ExitLocked, ProcessGone, TunGone, HostValues, Resolvers, GuardsFollow, Halves
<1>28. CASE DataPathEnds
  BY <1>28 DEF DataPathEnds, HostValues, Resolvers, GuardsFollow, Halves
<1>29. CASE RequestShutdown
  BY <1>29 DEF RequestShutdown, HostValues, Resolvers, GuardsFollow, Halves
<1>30. CASE Exit
  BY <1>30 DEF Exit, HostValues, Resolvers, GuardsFollow, Halves
<1>31. CASE ReceiveError
  BY <1>31 DEF ReceiveError, HostValues, Resolvers, GuardsFollow, Halves
<1>32. CASE Crash
  BY <1>32 DEF Crash, ProcessGone, TunGone, HostValues, Resolvers, GuardsFollow, Halves
<1>33. CASE Reboot
  BY <1>33 DEF Reboot, HostValues, Resolvers, GuardsFollow, Halves
<1>34. CASE Inject
  BY <1>34 DEF Inject, HostValues, Resolvers, GuardsFollow, Halves
<1>35. CASE TunLost
  BY <1>35 DEF TunLost, TunGone, HostValues, Resolvers, GuardsFollow, Halves
<1>36. CASE RouteLost
  BY <1>36 DEF RouteLost, HostValues, Resolvers, GuardsFollow, Halves
<1>37. CASE UNCHANGED vars
  BY <1>37 DEF vars, HostValues, Resolvers, GuardsFollow, Halves
<1> QED
  BY <1>1, <1>2, <1>3, <1>4, <1>5, <1>6, <1>7, <1>8, <1>9, <1>10, <1>11,
     <1>12, <1>13, <1>14, <1>15, <1>16, <1>17, <1>18, <1>19, <1>20, <1>21,
     <1>22, <1>23, <1>24, <1>25, <1>26, <1>27, <1>28, <1>29, <1>30, <1>31,
     <1>32, <1>33, <1>34, <1>35, <1>36, <1>37 DEF Next, BringUp, AddRoutes,
     Teardown, Tripwire

\* Every step keeps the guards where the engine's place says they are.
LEMMA GuardsKept == HostValues /\ GuardsFollow /\ [Next]_vars => GuardsFollow'
<1> SUFFICES ASSUME HostValues, GuardsFollow, [Next]_vars PROVE GuardsFollow'
  OBVIOUS
<1>1. ASSUME NEW c \in BOOLEAN, Launch(c) PROVE GuardsFollow'
  BY <1>1 DEF Launch, HostValues, Resolvers, GuardsFollow, Steady
<1>2. CASE PreflightPasses
  BY <1>2 DEF PreflightPasses, HostValues, Resolvers, GuardsFollow, Steady
<1>3. CASE PreflightFails
  BY <1>3 DEF PreflightFails, HostValues, Resolvers, GuardsFollow, Steady
<1>4. CASE BringUpTun
  BY <1>4 DEF BringUpTun, HostValues, Resolvers, GuardsFollow, Steady
<1>5. CASE AddRoute("lo", "hi")
  <2>1. CASE route_guard' = route_guard
    BY <1>5, <2>1 DEF AddRoute, HostValues, Resolvers, GuardsFollow, Steady
  <2>2. CASE pc' = "hi" /\ route_guard' = FALSE
    BY <1>5, <2>2 DEF AddRoute, HostValues, Resolvers, GuardsFollow, Steady
  <2> QED
    BY <1>5, <2>1, <2>2 DEF AddRoute
<1>6. CASE AddRoute("hi", "dns")
  <2>1. CASE route_guard' = route_guard
    BY <1>6, <2>1 DEF AddRoute, HostValues, Resolvers, GuardsFollow, Steady
  <2>2. CASE pc' = "dns" /\ route_guard' = TRUE
    BY <1>6, <2>2 DEF AddRoute, HostValues, Resolvers, GuardsFollow, Steady
  <2> QED
    BY <1>6, <2>1, <2>2 DEF AddRoute
<1>7. CASE SaveResolver
  BY <1>7 DEF SaveResolver, HostValues, Resolvers, GuardsFollow, Steady
<1>8. CASE WriteResolver
  BY <1>8 DEF WriteResolver, HostValues, Resolvers, GuardsFollow, Steady
<1>9. CASE ArmKillSwitch
  BY <1>9 DEF ArmKillSwitch, HostValues, Resolvers, GuardsFollow, Steady
<1>10. CASE SpawnTripwire
  BY <1>10 DEF SpawnTripwire, HostValues, Resolvers, GuardsFollow, Steady
<1>11. CASE Publish
  BY <1>11 DEF Publish, HostValues, Resolvers, GuardsFollow, Steady
<1>12. CASE SetStop
  BY <1>12 DEF SetStop, HostValues, Resolvers, GuardsFollow, Steady
<1>13. CASE JoinTripwire
  BY <1>13 DEF JoinTripwire, HostValues, Resolvers, GuardsFollow, Steady
<1>14. CASE DropKillSwitch
  BY <1>14 DEF DropKillSwitch, HostValues, Resolvers, GuardsFollow, Steady
<1>15. CASE DropDns
  BY <1>15 DEF DropDns, HostValues, Resolvers, GuardsFollow, Steady
<1>16. CASE DropRoute
  BY <1>16 DEF DropRoute, HostValues, Resolvers, GuardsFollow, Steady
<1>17. CASE DropTun
  BY <1>17 DEF DropTun, TunGone, HostValues, Resolvers, GuardsFollow, Steady
<1>18. CASE OpenNetlink
  BY <1>18 DEF OpenNetlink, engine, HostValues, Resolvers, GuardsFollow, Steady
<1>19. CASE FirstLeak
  BY <1>19 DEF FirstLeak, Verdict, engine, HostValues, Resolvers, GuardsFollow, Steady
<1>20. CASE FirstIntact
  BY <1>20 DEF FirstIntact, Verdict, engine, HostValues, Resolvers, GuardsFollow, Steady
<1>21. CASE Confirm
  BY <1>21 DEF Confirm, Verdict, engine, HostValues, Resolvers, GuardsFollow, Steady
<1>22. CASE SecondLeak
  BY <1>22 DEF SecondLeak, Verdict, engine, Leaking, HostValues, Resolvers, GuardsFollow, Steady
<1>23. CASE SecondIntact
  BY <1>23 DEF SecondIntact, Verdict, engine, Intact, HostValues, Resolvers, GuardsFollow, Steady
<1>24. CASE Watch
  BY <1>24 DEF Watch, engine, HostValues, Resolvers, GuardsFollow, Steady
<1>25. CASE Receive
  BY <1>25 DEF Receive, engine, HostValues, Resolvers, GuardsFollow, Steady
<1>26. CASE Lockdown
  BY <1>26 DEF Lockdown, HostValues, Resolvers, GuardsFollow, Steady
<1>27. CASE ExitLocked
  BY <1>27 DEF ExitLocked, ProcessGone, TunGone, HostValues, Resolvers, GuardsFollow, Steady
<1>28. CASE DataPathEnds
  BY <1>28 DEF DataPathEnds, HostValues, Resolvers, GuardsFollow, Steady
<1>29. CASE RequestShutdown
  BY <1>29 DEF RequestShutdown, HostValues, Resolvers, GuardsFollow, Steady
<1>30. CASE Exit
  BY <1>30 DEF Exit, HostValues, Resolvers, GuardsFollow, Steady
<1>31. CASE ReceiveError
  BY <1>31 DEF ReceiveError, HostValues, Resolvers, GuardsFollow, Steady
<1>32. CASE Crash
  BY <1>32 DEF Crash, ProcessGone, TunGone, HostValues, Resolvers, GuardsFollow, Steady
<1>33. CASE Reboot
  BY <1>33 DEF Reboot, HostValues, Resolvers, GuardsFollow, Steady
<1>34. CASE Inject
  BY <1>34 DEF Inject, HostValues, Resolvers, GuardsFollow, Steady
<1>35. CASE TunLost
  BY <1>35 DEF TunLost, TunGone, HostValues, Resolvers, GuardsFollow, Steady
<1>36. CASE RouteLost
  BY <1>36 DEF RouteLost, HostValues, Resolvers, GuardsFollow, Steady
<1>37. CASE UNCHANGED vars
  BY <1>37 DEF vars, HostValues, Resolvers, GuardsFollow, Steady
<1> QED
  BY <1>1, <1>2, <1>3, <1>4, <1>5, <1>6, <1>7, <1>8, <1>9, <1>10, <1>11,
     <1>12, <1>13, <1>14, <1>15, <1>16, <1>17, <1>18, <1>19, <1>20, <1>21,
     <1>22, <1>23, <1>24, <1>25, <1>26, <1>27, <1>28, <1>29, <1>30, <1>31,
     <1>32, <1>33, <1>34, <1>35, <1>36, <1>37 DEF Next, BringUp, AddRoutes,
     Teardown, Tripwire

\* Every step keeps the filter tied to its guard.
LEMMA FilterKept == GuardsFollow /\ FilterFollows /\ [Next]_vars => FilterFollows'
<1> SUFFICES ASSUME GuardsFollow, FilterFollows, [Next]_vars PROVE FilterFollows'
  OBVIOUS
<1>1. ASSUME NEW c \in BOOLEAN, Launch(c) PROVE FilterFollows'
  BY <1>1 DEF Launch, GuardsFollow, FilterFollows, Steady
<1>2. CASE PreflightPasses
  BY <1>2 DEF PreflightPasses, GuardsFollow, FilterFollows, Steady
<1>3. CASE PreflightFails
  BY <1>3 DEF PreflightFails, GuardsFollow, FilterFollows, Steady
<1>4. CASE BringUpTun
  BY <1>4 DEF BringUpTun, GuardsFollow, FilterFollows, Steady
<1>5. CASE AddRoute("lo", "hi")
  BY <1>5 DEF AddRoute, GuardsFollow, FilterFollows, Steady
<1>6. CASE AddRoute("hi", "dns")
  BY <1>6 DEF AddRoute, GuardsFollow, FilterFollows, Steady
<1>7. CASE SaveResolver
  BY <1>7 DEF SaveResolver, GuardsFollow, FilterFollows, Steady
<1>8. CASE WriteResolver
  BY <1>8 DEF WriteResolver, GuardsFollow, FilterFollows, Steady
<1>9. CASE ArmKillSwitch
  BY <1>9 DEF ArmKillSwitch, GuardsFollow, FilterFollows, Steady
<1>10. CASE SpawnTripwire
  BY <1>10 DEF SpawnTripwire, GuardsFollow, FilterFollows, Steady
<1>11. CASE Publish
  BY <1>11 DEF Publish, GuardsFollow, FilterFollows, Steady
<1>12. CASE SetStop
  BY <1>12 DEF SetStop, GuardsFollow, FilterFollows, Steady
<1>13. CASE JoinTripwire
  BY <1>13 DEF JoinTripwire, GuardsFollow, FilterFollows, Steady
<1>14. CASE DropKillSwitch
  BY <1>14 DEF DropKillSwitch, GuardsFollow, FilterFollows, Steady
<1>15. CASE DropDns
  BY <1>15 DEF DropDns, GuardsFollow, FilterFollows, Steady
<1>16. CASE DropRoute
  BY <1>16 DEF DropRoute, GuardsFollow, FilterFollows, Steady
<1>17. CASE DropTun
  BY <1>17 DEF DropTun, TunGone, GuardsFollow, FilterFollows, Steady
<1>18. CASE OpenNetlink
  BY <1>18 DEF OpenNetlink, engine, GuardsFollow, FilterFollows, Steady
<1>19. CASE FirstLeak
  BY <1>19 DEF FirstLeak, Verdict, engine, GuardsFollow, FilterFollows, Steady
<1>20. CASE FirstIntact
  BY <1>20 DEF FirstIntact, Verdict, engine, GuardsFollow, FilterFollows, Steady
<1>21. CASE Confirm
  BY <1>21 DEF Confirm, Verdict, engine, GuardsFollow, FilterFollows, Steady
<1>22. CASE SecondLeak
  BY <1>22 DEF SecondLeak, Verdict, engine, Leaking, GuardsFollow, FilterFollows, Steady
<1>23. CASE SecondIntact
  BY <1>23 DEF SecondIntact, Verdict, engine, Intact, GuardsFollow, FilterFollows, Steady
<1>24. CASE Watch
  BY <1>24 DEF Watch, engine, GuardsFollow, FilterFollows, Steady
<1>25. CASE Receive
  BY <1>25 DEF Receive, engine, GuardsFollow, FilterFollows, Steady
<1>26. CASE Lockdown
  BY <1>26 DEF Lockdown, GuardsFollow, FilterFollows, Steady
<1>27. CASE ExitLocked
  BY <1>27 DEF ExitLocked, ProcessGone, TunGone, GuardsFollow, FilterFollows, Steady
<1>28. CASE DataPathEnds
  BY <1>28 DEF DataPathEnds, GuardsFollow, FilterFollows, Steady
<1>29. CASE RequestShutdown
  BY <1>29 DEF RequestShutdown, GuardsFollow, FilterFollows, Steady
<1>30. CASE Exit
  BY <1>30 DEF Exit, GuardsFollow, FilterFollows, Steady
<1>31. CASE ReceiveError
  BY <1>31 DEF ReceiveError, GuardsFollow, FilterFollows, Steady
<1>32. CASE Crash
  BY <1>32 DEF Crash, ProcessGone, TunGone, GuardsFollow, FilterFollows, Steady
<1>33. CASE Reboot
  BY <1>33 DEF Reboot, GuardsFollow, FilterFollows, Steady
<1>34. CASE Inject
  BY <1>34 DEF Inject, GuardsFollow, FilterFollows, Steady
<1>35. CASE TunLost
  BY <1>35 DEF TunLost, TunGone, GuardsFollow, FilterFollows, Steady
<1>36. CASE RouteLost
  BY <1>36 DEF RouteLost, GuardsFollow, FilterFollows, Steady
<1>37. CASE UNCHANGED vars
  BY <1>37 DEF vars, GuardsFollow, FilterFollows, Steady
<1> QED
  BY <1>1, <1>2, <1>3, <1>4, <1>5, <1>6, <1>7, <1>8, <1>9, <1>10, <1>11,
     <1>12, <1>13, <1>14, <1>15, <1>16, <1>17, <1>18, <1>19, <1>20, <1>21,
     <1>22, <1>23, <1>24, <1>25, <1>26, <1>27, <1>28, <1>29, <1>30, <1>31,
     <1>32, <1>33, <1>34, <1>35, <1>36, <1>37 DEF Next, BringUp, AddRoutes,
     Teardown, Tripwire

\* Every step keeps the TUN, its routes and the resolver tied to the engine's place.
LEMMA HostKept == HostValues /\ GuardsFollow /\ HostFollows /\ [Next]_vars => HostFollows'
<1> SUFFICES ASSUME HostValues, GuardsFollow, HostFollows, [Next]_vars PROVE HostFollows'
  OBVIOUS
<1>1. ASSUME NEW c \in BOOLEAN, Launch(c) PROVE HostFollows'
  BY <1>1 DEF Launch, HostValues, Resolvers, GuardsFollow, HostFollows, Halves, Steady
<1>2. CASE PreflightPasses
  BY <1>2 DEF PreflightPasses, HostValues, Resolvers, GuardsFollow, HostFollows, Halves, Steady
<1>3. CASE PreflightFails
  BY <1>3 DEF PreflightFails, HostValues, Resolvers, GuardsFollow, HostFollows, Halves, Steady
<1>4. CASE BringUpTun
  BY <1>4 DEF BringUpTun, HostValues, Resolvers, GuardsFollow, HostFollows, Halves, Steady
<1>5. CASE AddRoute("lo", "hi")
  BY <1>5 DEF AddRoute, HostValues, Resolvers, GuardsFollow, HostFollows, Halves, Steady
<1>6. CASE AddRoute("hi", "dns")
  BY <1>6 DEF AddRoute, HostValues, Resolvers, GuardsFollow, HostFollows, Halves, Steady
<1>7. CASE SaveResolver
  BY <1>7 DEF SaveResolver, HostValues, Resolvers, GuardsFollow, HostFollows, Halves, Steady
<1>8. CASE WriteResolver
  BY <1>8 DEF WriteResolver, HostValues, Resolvers, GuardsFollow, HostFollows, Halves, Steady
<1>9. CASE ArmKillSwitch
  BY <1>9 DEF ArmKillSwitch, HostValues, Resolvers, GuardsFollow, HostFollows, Halves, Steady
<1>10. CASE SpawnTripwire
  BY <1>10 DEF SpawnTripwire, HostValues, Resolvers, GuardsFollow, HostFollows, Halves, Steady
<1>11. CASE Publish
  BY <1>11 DEF Publish, HostValues, Resolvers, GuardsFollow, HostFollows, Halves, Steady
<1>12. CASE SetStop
  BY <1>12 DEF SetStop, HostValues, Resolvers, GuardsFollow, HostFollows, Halves, Steady
<1>13. CASE JoinTripwire
  BY <1>13 DEF JoinTripwire, HostValues, Resolvers, GuardsFollow, HostFollows, Halves, Steady
<1>14. CASE DropKillSwitch
  BY <1>14 DEF DropKillSwitch, HostValues, Resolvers, GuardsFollow, HostFollows, Halves, Steady
<1>15. CASE DropDns
  BY <1>15 DEF DropDns, HostValues, Resolvers, GuardsFollow, HostFollows, Halves, Steady
<1>16. CASE DropRoute
  BY <1>16 DEF DropRoute, HostValues, Resolvers, GuardsFollow, HostFollows, Halves, Steady
<1>17. CASE DropTun
  BY <1>17 DEF DropTun, TunGone, HostValues, Resolvers, GuardsFollow, HostFollows, Halves, Steady
<1>18. CASE OpenNetlink
  BY <1>18 DEF OpenNetlink, engine, HostValues, Resolvers, GuardsFollow, HostFollows, Halves, Steady
<1>19. CASE FirstLeak
  BY <1>19 DEF FirstLeak, Verdict, engine, HostValues, Resolvers, GuardsFollow, HostFollows, Halves, Steady
<1>20. CASE FirstIntact
  BY <1>20 DEF FirstIntact, Verdict, engine, HostValues, Resolvers, GuardsFollow, HostFollows, Halves, Steady
<1>21. CASE Confirm
  BY <1>21 DEF Confirm, Verdict, engine, HostValues, Resolvers, GuardsFollow, HostFollows, Halves, Steady
<1>22. CASE SecondLeak
  BY <1>22 DEF SecondLeak, Verdict, engine, Leaking, HostValues, Resolvers, GuardsFollow, HostFollows, Halves, Steady
<1>23. CASE SecondIntact
  BY <1>23 DEF SecondIntact, Verdict, engine, Intact, HostValues, Resolvers, GuardsFollow, HostFollows, Halves, Steady
<1>24. CASE Watch
  BY <1>24 DEF Watch, engine, HostValues, Resolvers, GuardsFollow, HostFollows, Halves, Steady
<1>25. CASE Receive
  BY <1>25 DEF Receive, engine, HostValues, Resolvers, GuardsFollow, HostFollows, Halves, Steady
<1>26. CASE Lockdown
  BY <1>26 DEF Lockdown, HostValues, Resolvers, GuardsFollow, HostFollows, Halves, Steady
<1>27. CASE ExitLocked
  BY <1>27 DEF ExitLocked, ProcessGone, TunGone, HostValues, Resolvers, GuardsFollow, HostFollows, Halves, Steady
<1>28. CASE DataPathEnds
  BY <1>28 DEF DataPathEnds, HostValues, Resolvers, GuardsFollow, HostFollows, Halves, Steady
<1>29. CASE RequestShutdown
  BY <1>29 DEF RequestShutdown, HostValues, Resolvers, GuardsFollow, HostFollows, Halves, Steady
<1>30. CASE Exit
  BY <1>30 DEF Exit, HostValues, Resolvers, GuardsFollow, HostFollows, Halves, Steady
<1>31. CASE ReceiveError
  BY <1>31 DEF ReceiveError, HostValues, Resolvers, GuardsFollow, HostFollows, Halves, Steady
<1>32. CASE Crash
  BY <1>32 DEF Crash, ProcessGone, TunGone, HostValues, Resolvers, GuardsFollow, HostFollows, Halves, Steady
<1>33. CASE Reboot
  BY <1>33 DEF Reboot, HostValues, Resolvers, GuardsFollow, HostFollows, Halves, Steady
<1>34. CASE Inject
  BY <1>34 DEF Inject, HostValues, Resolvers, GuardsFollow, HostFollows, Halves, Steady
<1>35. CASE TunLost
  BY <1>35 DEF TunLost, TunGone, HostValues, Resolvers, GuardsFollow, HostFollows, Halves, Steady
<1>36. CASE RouteLost
  BY <1>36 DEF RouteLost, HostValues, Resolvers, GuardsFollow, HostFollows, Halves, Steady
<1>37. CASE UNCHANGED vars
  BY <1>37 DEF vars, HostValues, Resolvers, GuardsFollow, HostFollows, Halves, Steady
<1> QED
  BY <1>1, <1>2, <1>3, <1>4, <1>5, <1>6, <1>7, <1>8, <1>9, <1>10, <1>11,
     <1>12, <1>13, <1>14, <1>15, <1>16, <1>17, <1>18, <1>19, <1>20, <1>21,
     <1>22, <1>23, <1>24, <1>25, <1>26, <1>27, <1>28, <1>29, <1>30, <1>31,
     <1>32, <1>33, <1>34, <1>35, <1>36, <1>37 DEF Next, BringUp, AddRoutes,
     Teardown, Tripwire

\* Every step keeps the watcher's reason for an alarm.
LEMMA AlarmKept == HostValues /\ GuardsFollow /\ AlarmFollows /\ [Next]_vars => AlarmFollows'
<1> SUFFICES ASSUME HostValues, GuardsFollow, AlarmFollows, [Next]_vars PROVE AlarmFollows'
  OBVIOUS
<1>1. ASSUME NEW c \in BOOLEAN, Launch(c) PROVE AlarmFollows'
  BY <1>1 DEF Launch, HostValues, GuardsFollow, AlarmFollows, Halves, Steady
<1>2. CASE PreflightPasses
  BY <1>2 DEF PreflightPasses, HostValues, GuardsFollow, AlarmFollows, Halves, Steady
<1>3. CASE PreflightFails
  BY <1>3 DEF PreflightFails, HostValues, GuardsFollow, AlarmFollows, Halves, Steady
<1>4. CASE BringUpTun
  BY <1>4 DEF BringUpTun, HostValues, GuardsFollow, AlarmFollows, Halves, Steady
<1>5. CASE AddRoute("lo", "hi")
  BY <1>5 DEF AddRoute, HostValues, GuardsFollow, AlarmFollows, Halves, Steady
<1>6. CASE AddRoute("hi", "dns")
  BY <1>6 DEF AddRoute, HostValues, GuardsFollow, AlarmFollows, Halves, Steady
<1>7. CASE SaveResolver
  BY <1>7 DEF SaveResolver, HostValues, GuardsFollow, AlarmFollows, Halves, Steady
<1>8. CASE WriteResolver
  BY <1>8 DEF WriteResolver, HostValues, GuardsFollow, AlarmFollows, Halves, Steady
<1>9. CASE ArmKillSwitch
  BY <1>9 DEF ArmKillSwitch, HostValues, GuardsFollow, AlarmFollows, Halves, Steady
<1>10. CASE SpawnTripwire
  BY <1>10 DEF SpawnTripwire, HostValues, GuardsFollow, AlarmFollows, Halves, Steady
<1>11. CASE Publish
  BY <1>11 DEF Publish, HostValues, GuardsFollow, AlarmFollows, Halves, Steady
<1>12. CASE SetStop
  BY <1>12 DEF SetStop, HostValues, GuardsFollow, AlarmFollows, Halves, Steady
<1>13. CASE JoinTripwire
  BY <1>13 DEF JoinTripwire, HostValues, GuardsFollow, AlarmFollows, Halves, Steady
<1>14. CASE DropKillSwitch
  BY <1>14 DEF DropKillSwitch, HostValues, GuardsFollow, AlarmFollows, Halves, Steady
<1>15. CASE DropDns
  BY <1>15 DEF DropDns, HostValues, GuardsFollow, AlarmFollows, Halves, Steady
<1>16. CASE DropRoute
  BY <1>16 DEF DropRoute, HostValues, GuardsFollow, AlarmFollows, Halves, Steady
<1>17. CASE DropTun
  BY <1>17 DEF DropTun, TunGone, HostValues, GuardsFollow, AlarmFollows, Halves, Steady
<1>18. CASE OpenNetlink
  BY <1>18 DEF OpenNetlink, engine, HostValues, GuardsFollow, AlarmFollows, Halves, Steady
<1>19. CASE FirstLeak
  BY <1>19 DEF FirstLeak, Verdict, engine, HostValues, GuardsFollow, AlarmFollows, Halves, Steady
<1>20. CASE FirstIntact
  BY <1>20 DEF FirstIntact, Verdict, engine, HostValues, GuardsFollow, AlarmFollows, Halves, Steady
<1>21. CASE Confirm
  BY <1>21 DEF Confirm, Verdict, engine, HostValues, GuardsFollow, AlarmFollows, Halves, Steady
<1>22. CASE SecondLeak
  BY <1>22 DEF SecondLeak, Verdict, engine, Leaking, HostValues, GuardsFollow, AlarmFollows, Halves, Steady
<1>23. CASE SecondIntact
  BY <1>23 DEF SecondIntact, Verdict, engine, Intact, HostValues, GuardsFollow, AlarmFollows, Halves, Steady
<1>24. CASE Watch
  BY <1>24 DEF Watch, engine, HostValues, GuardsFollow, AlarmFollows, Halves, Steady
<1>25. CASE Receive
  BY <1>25 DEF Receive, engine, HostValues, GuardsFollow, AlarmFollows, Halves, Steady
<1>26. CASE Lockdown
  BY <1>26 DEF Lockdown, HostValues, GuardsFollow, AlarmFollows, Halves, Steady
<1>27. CASE ExitLocked
  BY <1>27 DEF ExitLocked, ProcessGone, TunGone, HostValues, GuardsFollow, AlarmFollows, Halves, Steady
<1>28. CASE DataPathEnds
  BY <1>28 DEF DataPathEnds, HostValues, GuardsFollow, AlarmFollows, Halves, Steady
<1>29. CASE RequestShutdown
  BY <1>29 DEF RequestShutdown, HostValues, GuardsFollow, AlarmFollows, Halves, Steady
<1>30. CASE Exit
  BY <1>30 DEF Exit, HostValues, GuardsFollow, AlarmFollows, Halves, Steady
<1>31. CASE ReceiveError
  BY <1>31 DEF ReceiveError, HostValues, GuardsFollow, AlarmFollows, Halves, Steady
<1>32. CASE Crash
  BY <1>32 DEF Crash, ProcessGone, TunGone, HostValues, GuardsFollow, AlarmFollows, Halves, Steady
<1>33. CASE Reboot
  BY <1>33 DEF Reboot, HostValues, GuardsFollow, AlarmFollows, Halves, Steady
<1>34. CASE Inject
  BY <1>34 DEF Inject, HostValues, GuardsFollow, AlarmFollows, Halves, Steady
<1>35. CASE TunLost
  BY <1>35 DEF TunLost, TunGone, HostValues, GuardsFollow, AlarmFollows, Halves, Steady
<1>36. CASE RouteLost
  BY <1>36 DEF RouteLost, HostValues, GuardsFollow, AlarmFollows, Halves, Steady
<1>37. CASE UNCHANGED vars
  BY <1>37 DEF vars, HostValues, GuardsFollow, AlarmFollows, Halves, Steady
<1> QED
  BY <1>1, <1>2, <1>3, <1>4, <1>5, <1>6, <1>7, <1>8, <1>9, <1>10, <1>11,
     <1>12, <1>13, <1>14, <1>15, <1>16, <1>17, <1>18, <1>19, <1>20, <1>21,
     <1>22, <1>23, <1>24, <1>25, <1>26, <1>27, <1>28, <1>29, <1>30, <1>31,
     <1>32, <1>33, <1>34, <1>35, <1>36, <1>37 DEF Next, BringUp, AddRoutes,
     Teardown, Tripwire

\* Every step keeps a lockdown from being resumed.
LEMMA LockdownKept == GuardsFollow /\ LockdownHolds /\ [Next]_vars => LockdownHolds'
<1> SUFFICES ASSUME GuardsFollow, LockdownHolds, [Next]_vars PROVE LockdownHolds'
  OBVIOUS
<1>1. ASSUME NEW c \in BOOLEAN, Launch(c) PROVE LockdownHolds'
  BY <1>1 DEF Launch, GuardsFollow, LockdownHolds, Steady
<1>2. CASE PreflightPasses
  BY <1>2 DEF PreflightPasses, GuardsFollow, LockdownHolds, Steady
<1>3. CASE PreflightFails
  BY <1>3 DEF PreflightFails, GuardsFollow, LockdownHolds, Steady
<1>4. CASE BringUpTun
  BY <1>4 DEF BringUpTun, GuardsFollow, LockdownHolds, Steady
<1>5. CASE AddRoute("lo", "hi")
  BY <1>5 DEF AddRoute, GuardsFollow, LockdownHolds, Steady
<1>6. CASE AddRoute("hi", "dns")
  BY <1>6 DEF AddRoute, GuardsFollow, LockdownHolds, Steady
<1>7. CASE SaveResolver
  BY <1>7 DEF SaveResolver, GuardsFollow, LockdownHolds, Steady
<1>8. CASE WriteResolver
  BY <1>8 DEF WriteResolver, GuardsFollow, LockdownHolds, Steady
<1>9. CASE ArmKillSwitch
  BY <1>9 DEF ArmKillSwitch, GuardsFollow, LockdownHolds, Steady
<1>10. CASE SpawnTripwire
  BY <1>10 DEF SpawnTripwire, GuardsFollow, LockdownHolds, Steady
<1>11. CASE Publish
  BY <1>11 DEF Publish, GuardsFollow, LockdownHolds, Steady
<1>12. CASE SetStop
  BY <1>12 DEF SetStop, GuardsFollow, LockdownHolds, Steady
<1>13. CASE JoinTripwire
  BY <1>13 DEF JoinTripwire, GuardsFollow, LockdownHolds, Steady
<1>14. CASE DropKillSwitch
  BY <1>14 DEF DropKillSwitch, GuardsFollow, LockdownHolds, Steady
<1>15. CASE DropDns
  BY <1>15 DEF DropDns, GuardsFollow, LockdownHolds, Steady
<1>16. CASE DropRoute
  BY <1>16 DEF DropRoute, GuardsFollow, LockdownHolds, Steady
<1>17. CASE DropTun
  BY <1>17 DEF DropTun, TunGone, GuardsFollow, LockdownHolds, Steady
<1>18. CASE OpenNetlink
  BY <1>18 DEF OpenNetlink, engine, GuardsFollow, LockdownHolds, Steady
<1>19. CASE FirstLeak
  BY <1>19 DEF FirstLeak, Verdict, engine, GuardsFollow, LockdownHolds, Steady
<1>20. CASE FirstIntact
  BY <1>20 DEF FirstIntact, Verdict, engine, GuardsFollow, LockdownHolds, Steady
<1>21. CASE Confirm
  BY <1>21 DEF Confirm, Verdict, engine, GuardsFollow, LockdownHolds, Steady
<1>22. CASE SecondLeak
  BY <1>22 DEF SecondLeak, Verdict, engine, Leaking, GuardsFollow, LockdownHolds, Steady
<1>23. CASE SecondIntact
  BY <1>23 DEF SecondIntact, Verdict, engine, Intact, GuardsFollow, LockdownHolds, Steady
<1>24. CASE Watch
  BY <1>24 DEF Watch, engine, GuardsFollow, LockdownHolds, Steady
<1>25. CASE Receive
  BY <1>25 DEF Receive, engine, GuardsFollow, LockdownHolds, Steady
<1>26. CASE Lockdown
  BY <1>26 DEF Lockdown, GuardsFollow, LockdownHolds, Steady
<1>27. CASE ExitLocked
  BY <1>27 DEF ExitLocked, ProcessGone, TunGone, GuardsFollow, LockdownHolds, Steady
<1>28. CASE DataPathEnds
  BY <1>28 DEF DataPathEnds, GuardsFollow, LockdownHolds, Steady
<1>29. CASE RequestShutdown
  BY <1>29 DEF RequestShutdown, GuardsFollow, LockdownHolds, Steady
<1>30. CASE Exit
  BY <1>30 DEF Exit, GuardsFollow, LockdownHolds, Steady
<1>31. CASE ReceiveError
  BY <1>31 DEF ReceiveError, GuardsFollow, LockdownHolds, Steady
<1>32. CASE Crash
  BY <1>32 DEF Crash, ProcessGone, TunGone, GuardsFollow, LockdownHolds, Steady
<1>33. CASE Reboot
  BY <1>33 DEF Reboot, GuardsFollow, LockdownHolds, Steady
<1>34. CASE Inject
  BY <1>34 DEF Inject, GuardsFollow, LockdownHolds, Steady
<1>35. CASE TunLost
  BY <1>35 DEF TunLost, TunGone, GuardsFollow, LockdownHolds, Steady
<1>36. CASE RouteLost
  BY <1>36 DEF RouteLost, GuardsFollow, LockdownHolds, Steady
<1>37. CASE UNCHANGED vars
  BY <1>37 DEF vars, GuardsFollow, LockdownHolds, Steady
<1> QED
  BY <1>1, <1>2, <1>3, <1>4, <1>5, <1>6, <1>7, <1>8, <1>9, <1>10, <1>11,
     <1>12, <1>13, <1>14, <1>15, <1>16, <1>17, <1>18, <1>19, <1>20, <1>21,
     <1>22, <1>23, <1>24, <1>25, <1>26, <1>27, <1>28, <1>29, <1>30, <1>31,
     <1>32, <1>33, <1>34, <1>35, <1>36, <1>37 DEF Next, BringUp, AddRoutes,
     Teardown, Tripwire

SessionInv ==
  HostValues /\ GuardsFollow /\ FilterFollows /\ HostFollows /\ AlarmFollows /\ LockdownHolds

\* The invariant holds of a host without a session.
LEMMA SessionInvAtFirst == Init => SessionInv
BY DEF Init, SessionInv, HostValues, Resolvers, Halves, GuardsFollow, Steady, FilterFollows,
       HostFollows, AlarmFollows, LockdownHolds

\* What every reachable state of the session, the watcher and the host satisfies.
THEOREM SessionInvariant == Spec => []SessionInv
<1>1. SessionInv /\ [Next]_vars => SessionInv'
  BY HostValuesKept, GuardsKept, FilterKept, HostKept, AlarmKept, LockdownKept DEF SessionInv
<1> QED
  BY <1>1, SessionInvAtFirst, PTL DEF Spec

-----------------------------------------------------------------------------
(* What the invariant means.                                                   *)

\* Fail-closed: no captured data path without its kill switch, its watcher and its
\* resolver, and no filter without its routes.
THEOREM CaptureIsGuarded == Spec => []CapturedMeansGuarded
<1>1. SessionInv => CapturedMeansGuarded
  BY DEF SessionInv, HostValues, Resolvers, GuardsFollow, Steady, FilterFollows, HostFollows,
         CapturedMeansGuarded
<1> QED
  BY <1>1, SessionInvariant, PTL

\* A session that ends on its own leaves the host as it found it, but for what it
\* warned that it could not remove.
THEOREM SessionEndsAsFound == Spec => []EndsAsFound
<1>1. SessionInv => EndsAsFound
  BY DEF SessionInv, GuardsFollow, Steady, FilterFollows, HostFollows, EndsAsFound
<1> QED
  BY <1>1, SessionInvariant, PTL

\* While the lockdown stands, no capturing session gets past preflight.
THEOREM LockdownIsNotResumed == Spec => []LockdownHolds
<1>1. SessionInv => LockdownHolds
  BY DEF SessionInv
<1> QED
  BY <1>1, SessionInvariant, PTL

\* The watcher calls an attack only where a route was injected in this session.
THEOREM AlarmsAreReal == Spec => []NoFalseAlarm
<1>1. SessionInv => NoFalseAlarm
  BY DEF SessionInv, AlarmFollows, NoFalseAlarm
<1> QED
  BY <1>1, SessionInvariant, PTL
=============================================================================
