SPECIFICATION Spec
CONSTANTS
  ComponentMax = 2
  FrameTicks = 1
  FrameCycles = 2
  PriorityWeight = 2
  AgeMax = 3
  Policy <- Policies
  MailboxMax = 1
  MaxDelay = 1
  MaxFailures = 1
  MaxRestarts = 1
  IndexMod = 4
  Size = 2
  Sectors = {0}
  SectorValues = {0, 1}
  NoRequest = NoRequest
  PollLimit = 2
  MaxRequests = 2
  MaxBlockFaults = 1
  MaxTraps = 1
  NoFrame = NoFrame
  MaxReceived = 2
  MaxPackets = 2
  MaxNetFaults = 1
  Offsets = {1, 2, 3}
  WalkLimit = 3
  Regions = {"common"}
  MaxFrames = 15
  FrameSize = 4
  MemoryMap <- Usable
  Highs = {0, 1}
  Lows = {0, 1}
  Versions = {0, 1, 2}
  Capacity = 3
INVARIANTS
  
  AttachSound
  BringupSound
  TableSound
PROPERTIES
  
  
  ImplementsMap
CHECK_DEADLOCK FALSE
