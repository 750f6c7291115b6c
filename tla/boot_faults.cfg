CONSTANTS
  v1 = v1
  v2 = v2
  Ids = {1}
  Values = {v1}
  PayloadSize <- MCPayloadSize
  SectorCount = 9
  CacheCapacity = 1024
  TableCapacity = 2
  SnapshotLimit = 1
  BatchMax = 1
  CacheSlots = 2
  ArenaCapacity = 0
  UINT64_MAX = 3
  MaxWriteFaults = 1
  MaxReadFaults = 0
  MaxCrashes = 1
SPECIFICATION BootSpec
INVARIANT FormatsOnlyWithoutStore
CHECK_DEADLOCK FALSE
