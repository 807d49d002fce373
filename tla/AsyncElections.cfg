SPECIFICATION Spec
CONSTANTS
  Server = {s1, s2, s3}
  s1 = s1
  s2 = s2
  s3 = s3
  Nil = Nil
  Command = {a}
  MaxEntries = 5
  Campaigns <- Contested
  MaxIndex = 0
  MaxId = 0
  MaxCrashes = 1
  MaxReads = 0
VIEW ElectionView
INVARIANTS
  ElectionSafety
PROPERTIES
  VotesStand
