SPECIFICATION SettingsSpec
CONSTANTS
  Server = {s1, s2, s3}
  s1 = s1
  s2 = s2
  s3 = s3
  Nil = Nil
  Command = {a}
  MaxEntries = 5
  Campaigns <- Contested
  MaxIndex = 0
  MaxId = 0
  MaxFaults = 1
  MaxRestarts = 1
VIEW View
INVARIANT RepliesAreDurable
PROPERTIES
  FileStands
  
CHECK_DEADLOCK FALSE
