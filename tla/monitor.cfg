SPECIFICATION Spec
CONSTANTS
  Packets <- MCPackets
  OwnPacket <- MCOwnPacket
  Worthy <- MCWorthy
  Block <- MCBlock
  Notes = {"Active", "Shed"}
  ArenaCap = 2
  MaxLiveFlows = 2
  IdMax = 100
  MaxArchive = 1
  AsnCacheMax = 1
  IdleEvict = 1
  OwnTtl = 1
  MaxEvents = 4
INVARIANTS
  TotalsMatchRows
  AsnOfOwnBlock
PROPERTIES
  TorrentsUnmasked
