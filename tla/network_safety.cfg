SPECIFICATION Spec
CHECK_DEADLOCK FALSE
SYMMETRY Symmetry
CONSTANTS
  Nodes = {a, b}
  MaxBoots = 2
  MaxSequence = 2
  Outcomes = {"sent"}
  Chunks = 2
  MailboxMax = 1
  MaxForwards = 2
  MaxRuns = 2
  MaxMigrationFlight = 3
  MaxMigrationCrashes = 2
  MaxMigrationFaults = 2
  doc = doc
  v1 = v1
  NoValue = NoValue
  Objects = {doc}
  Owner <- OneOwner
  Kind <- Set
  Values = {v1}
  SharedRights <- ReadOrWrite
  DotsMax = 2
  ObjectsMax = 2
  MaxEdits = 2
  MaxShares = 2
  MaxReplicaFlight = 1
  MaxReplicaCrashes = 1
  MaxReplicaFaults = 1
INVARIANTS
  SessionSound
  MigrationSound
  ReplicaSound
PROPERTIES
  ImplementsHandoff
  StatesGrow
