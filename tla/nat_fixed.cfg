CONSTANTS
  lanHost = lanHost
  peerHost = peerHost
  NoHost = NoHost
  NoForward = NoForward
  Hosts <- MCHosts
  Peers <- MCPeers
  Keys <- FixedKeys
  LocalPorts = {3, 7}
  PORT_LO = 2
  PORT_HI = 4
  MAX_BINDINGS = 2
  TCP_IDLE = 2
  UDP_IDLE = 1
  ICMP_IDLE = 1
  FRAG_IDLE = 1
  IpIds = {1}
  ForwardHost = lanHost
  ForwardPorts = {3}
  Plan = "fixed"
  CounterMax = 1
SPECIFICATION Spec
INVARIANTS TypeOK NoShadowing ReplyReachesSender
PROPERTIES NotRenumbered TableImplemented
