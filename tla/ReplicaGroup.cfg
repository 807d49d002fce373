SPECIFICATION SettingsSpec
CONSTANTS
  Server = {s1, s2, s3}
  s1 = s1
  s2 = s2
  s3 = s3
  c1 = c1
  Command = {}
  Noop = Noop
  Nil = Nil
  Elections = TRUE
  FixedLeader = s1
  SnapshotEvery = 0
  MaxBatch = 1
  Chunks = 1
  MaxTerm = 5
  MaxLog = 2
  MaxRequests = 3
  MaxFaults = 0
INVARIANTS
  OneHistory
  MajorityStores
  
  SpeculativeIsLog
