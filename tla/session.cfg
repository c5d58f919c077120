SPECIFICATION FairSpec
INVARIANTS CapturedMeansGuarded EndsAsFound LockdownHolds NoFalseAlarm
PROPERTIES StopCompletes InjectionTrips
