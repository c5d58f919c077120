CONSTANTS
  Ports = {1, 2}
  Grants = {1, 7}
  MIN_RENEW = 2
  RETRY = 2
  STARTUP_GRACE = 1
  QUIET_FAILURES = 1
  EpochMax = 3
  FaultMax = 2
SPECIFICATION FairSpec
INVARIANTS TypeOK DriverAgrees OpenWhileMapped StaleBounded
PROPERTIES StopEndsLease Recovers
