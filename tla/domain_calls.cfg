SPECIFICATION Spec
CHECK_DEADLOCK FALSE
SYMMETRY Symmetry
CONSTANTS
  Components = {a, b}
  ChildRights <- PassOn
  SlotCount = 3
  MaxGeneration = 2
  DerivationMax = 2
  MailboxMax = 1
  LedgerMax = 1
  BatchMax = 6
  MaxObjects = 1
  MaxCalls = 3
  MaxFaults = 1
  InitDerives = FALSE
  DeleteFails = FALSE
  Recorders <- TwoComponents
  RingObjects = {r1, r2, r3}
  NoBucket = NoBucket
  PROVENANCE_OBJECTS = 2
  PROVENANCE_EVENTS = 2
  SCHED_TRACE_MAX = 3
  MaxEvents = 4
  MaxLogFaults = 1
INVARIANTS
  CapabilitiesAgree
  
  LogsRecall
PROPERTIES
  RevocationIsComplete
  ReferencesAreNeverReused
