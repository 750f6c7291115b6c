CONSTANTS
  v1 = v1
  v2 = v2
  Ids = {1, 2}
  Values = {v1, v2}
  PayloadSize <- MCPayloadSize
  SectorCount = 10
  CacheCapacity = 1024
  TableCapacity = 2
  SnapshotLimit = 0
  BatchMax = 2
  CacheSlots = 2
  ArenaCapacity = 1024
  UINT64_MAX = 3
  MaxWriteFaults = 0
  MaxReadFaults = 0
  MaxCrashes = 1
SPECIFICATION BootSpec
INVARIANTS
  FormatsOnlyWithoutStore
  CacheCoherent
