SPECIFICATION FairSpec
CHECK_DEADLOCK FALSE
CONSTANTS
  Nodes = {0, 1}
  MaxBoots = 1
  MaxSequence = 2
  Outcomes = {"busy", "sent", "lost"}
  Chunks = 1
  MailboxMax = 1
  MaxForwards = 2
  MaxRuns = 0
  MaxMigrationFlight = 2
  MaxMigrationCrashes = 1
  MaxMigrationFaults = 1
  doc = doc
  v1 = v1
  NoValue = NoValue
  Objects = {doc}
  Owner <- OneOwner
  Kind <- Register
  Values = {v1}
  SharedRights <- ReadOrWrite
  DotsMax = 2
  ObjectsMax = 1
  MaxEdits = 2
  MaxShares = 2
  MaxReplicaFlight = 1
  MaxReplicaCrashes = 0
  MaxReplicaFaults = 0
PROPERTIES
  SessionsEstablish
  
  
