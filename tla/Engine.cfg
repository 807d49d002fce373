SPECIFICATION SettingsSpec
CONSTANTS
  Nil = Nil
  Command <- Few
  Clustered = TRUE
  MaxLog = 5
  MaxTerm = 3
INVARIANTS
  
  EveryRetryAnswered
  AppliedOnce
  AcceptedApplies
  StageIsSound
  StateIsWhole
  
CHECK_DEADLOCK FALSE
