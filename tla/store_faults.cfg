CONSTANTS
  v1 = v1
  v2 = v2
  Ids = {1, 2}
  Values = {v1}
  PayloadSize <- MCPayloadSize
  SectorCount = 10
  CacheCapacity = 1024
  TableCapacity = 2
  SnapshotLimit = 1
  BatchMax = 2
  CacheSlots = 2
  ArenaCapacity = 0
  UINT64_MAX = 2
  MaxWriteFaults = 2
  MaxReadFaults = 0
  MaxCrashes = 1
SPECIFICATION Spec
INVARIANTS
  EveryCrashMounts
  ReadyIsDurable
  EntriesSound
PROPERTIES
  CopyOnWrite
