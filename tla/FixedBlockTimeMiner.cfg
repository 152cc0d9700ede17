SPECIFICATION Spec
CONSTANTS
  SeveralMiners = TRUE
  MaxDue = 2
  MaxCommands = 3
CHECK_DEADLOCK FALSE
INVARIANTS TypeOK WaitsForLast ParkedHasWaker
PROPERTY KeepsMining
