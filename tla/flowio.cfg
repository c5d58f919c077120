SPECIFICATION Spec
CONSTANTS
  TcpBuf = 2
  UpCap = 1
  DownCap = 2
  UpLen = 2
  DownLen = 4
INVARIANTS
  NothingStranded
PROPERTIES
  UpStream
  DownStream
CHECK_DEADLOCK FALSE
