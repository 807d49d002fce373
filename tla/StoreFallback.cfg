SPECIFICATION Spec
CONSTANTS
  Nil = Nil
  Closed = Closed
  Refused = Refused
  Command = {v}
  Voter = {n1}
  CommitOnAppend = FALSE
  CompactLog = TRUE
  SnapshotEvery = 2
  MaxIndex = 6
  MaxTerm = 1
  MaxFaults = 0
  MaxOffer = 0
  MaxDamage = 1
INVARIANT FallbackJoins
