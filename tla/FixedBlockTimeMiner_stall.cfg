SPECIFICATION Spec
CONSTANTS
  SeveralMiners = FALSE
  MaxDue = 2
  MaxCommands = 3
CHECK_DEADLOCK FALSE
PROPERTY MinesEveryInterval
