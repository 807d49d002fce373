SPECIFICATION SettingsSpec
CONSTANTS
  Server = {s1, s2, s3}
  Leader = s1
  Follower = s3
  Nil = Nil
  Command = {noop}
  NoOp = noop
  MaxEntries = 9
  SnapshotEvery = 3
  Terms <- SevenEntries
  MaxReplies = 2
  MaxResets = 1
PROPERTIES
  CatchesUp
