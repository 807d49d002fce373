SPECIFICATION SettingsSpec
CONSTANTS
  Server = {s1, s2, s3}
  s1 = s1
  s2 = s2
  s3 = s3
  Nil = Nil
  Command = {noop}
  NoOp = noop
  MaxEntries = 2
  SnapshotEvery = 2
  Links <- Split
  Campaigns <- ThirdTerm
  MaxIndex = 3
  MaxId = 4
  MaxCrashes = 0
  MaxReads = 0
VIEW View
INVARIANTS
  StopsOnlyWhenFull
  LogMatching
  StateMachineSafety
  LeaderCompleteness
  ReadsAreCurrent
PROPERTIES
  CommitsStand
