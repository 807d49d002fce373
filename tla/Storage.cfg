SPECIFICATION SettingsSpec
CONSTANTS
  Nil = Nil
  Closed = Closed
  Refused = Refused
  Command = {v}
  Voter = {n1}
  CommitOnAppend = FALSE
  CompactLog = FALSE
  SnapshotEvery = 0
  MaxIndex = 2
  MaxTerm = 2
  MaxFaults = 2
  MaxOffer = 2
  MaxDamage = 0
INVARIANTS
  ProjectionIsDurable
  InterruptedAsModelled
  
  ShownIsDurable
PROPERTIES
  ImplementsDurableLog
