CONSTANTS
  v1 = v1
  v2 = v2
  Ids = {1}
  Values = {v1, v2}
  PayloadSize <- MCPayloadSize
  SectorCount = 12
  CacheCapacity = 1024
  TableCapacity = 2
  SnapshotLimit = 1
  BatchMax = 1
  CacheSlots = 2
  ArenaCapacity = 1024
  UINT64_MAX = 5
  MaxWriteFaults = 0
  MaxReadFaults = 0
  MaxCrashes = 0
SPECIFICATION Spec
INVARIANT CacheCoherent
