SPECIFICATION SettingsSpec
CONSTANTS
  MaxTerm = 2
  Cells <- TwoSnapshots
  Ordered = FALSE
  MaxQueue = 2
  MaxResets = 1
  Nil = Nil
INVARIANTS StreamIsPrefix AckedIsInstalled
PROPERTY TransferCompletes
CHECK_DEADLOCK FALSE
