SPECIFICATION Spec
CONSTANTS
  TcpBuf = 2
  UpCap = 1
  DownCap = 1
  UpLen = 2
  DownLen = 1
INVARIANT NoLoss
CHECK_DEADLOCK FALSE
