SPECIFICATION Spec
CHECK_DEADLOCK FALSE
CONSTANTS
  old = old
  new = new
  ping = ping
  stop = stop
  Codes = {old, new}
  Kinds = {ping}
  Accepts <- Wider
  COMPONENT_MAX = 1
  Nothing = Nothing
  MaxSequence = 2
  MaxGeneration = 2
  MaxWork = 1
  MaxFaults = 2
  Program <- Guest
  Values = {0, 1}
  LogCapacity = 4
  None = None
  MaxHandlers = 2
  MaxRestarts = 1
  MaxFrames = 12
  FrameSize = 4
  MemoryMap <- MemoryRegions
  Levels = 3
  Fanout = 2
  ObjectBase = 0
  HeapBase = 4
  HeapSize = 3
  MmioBase = 8
  MmioSize = 3
  DevicePages <- Registers
  MaxDma = 2
  Unit = 4
  PageUnits = 4
  ClassCount = 3
  HeapUnits = 14
  SizeMax = 63
  Requests = {0, 3, 7, 17, 58}
  BaseFrequency = 15
  Frequency = 2
  DivisorMax = 15
  Micro = 30
  Attempts = 3
  WordMax = 511
  MaxNow = 30
  IndexMod = 4
  Size = 2
  Sectors = {0}
  SectorValues = {0, 1}
  NoRequest = NoRequest
  PollLimit = 1
  MaxRequests = 5
  MaxBlockFaults = 1
  MaxTraps = 1
  NoFrame = NoFrame
  MaxReceived = 3
  MaxPackets = 2
  MaxNetFaults = 1
INVARIANTS
  ComponentsResume
  RecordingsVerify
  FramesSound
  MappingsSound
  HeapSound
  ClockSound
  BlockSound
  NetSound
PROPERTIES
  CommittedKept
