CONSTANTS
  firstApp = firstApp
  secondApp = secondApp
  otherApp = otherApp
  server = server
  NoSource = NoSource
  TcpKeys <- NoFlow
  UdpKeys <- TwoUdp
  TCP_FLOW_COST = 2
  UDP_FLOW_COST = 3
  TCP_MEM_BUDGET = 2
  UDP_MEM_BUDGET = 6
  MAX_TCP_FLOWS = 2
  MAX_UDP_FLOWS = 2
  TCP_HANDSHAKE_TIMEOUT = 2
  UDP_IDLE = 2
  Slots = {0, 1, 2}
  MaxTime = 3
  OrphanMax = 1
SPECIFICATION PromptSpec
INVARIANT RepliesToOwnSource
