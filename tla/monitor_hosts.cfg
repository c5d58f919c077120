SPECIFICATION Spec
CONSTANTS
  Packets <- MCHostPackets
  OwnPacket <- MCOwnPacket
  Worthy = {}
  Block <- MCBlock
  Notes = {}
  ArenaCap = 3
  MaxLiveFlows = 3
  IdMax = 100
  MaxArchive = 1
  AsnCacheMax = 1
  IdleEvict = 1
  OwnTtl = 1
  MaxEvents = 5
PROPERTIES
  LiveHostsKept
  MemoryImplemented
