SPECIFICATION SettingsSpec
CONSTANTS
  s1 = s1
  s2 = s2
  ca = ca
  cb = cb
  p1 = p1
  p2 = p2
  Nil = Nil
  Noop = Noop
  Session = {s1, s2}
  Command = {ca, cb}
  Capacity = 2
  MaxWaiters = 2
  MaxRequests = 2
  MaxLog = 2
  MaxTerm = 3
INVARIANTS
  OneAnswer
  OkIsCommitted
  BudgetIsHeld
  DialsAccounted
PROPERTIES
  EveryRequestEnds
CHECK_DEADLOCK FALSE
