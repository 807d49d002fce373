SPECIFICATION LaggingSpec
CONSTANTS
  Server = {s1, s2, s3}
  s1 = s1
  s2 = s2
  s3 = s3
  Nil = Nil
  Command = {a}
  MaxEntries = 5
  Campaigns <- NoCampaigns
  MaxIndex = 2
  MaxId = 3
  MaxCrashes = 1
  MaxReads = 1
VIEW AckView
CONSTRAINT OneEvent
INVARIANTS
  AcksAreDurable
  NeverInvalid
  ReadsAreCurrent
