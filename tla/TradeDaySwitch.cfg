CONSTANTS
  NoName = NoName
  Names = {a, b}
  Configured = {a}
  HasDefault = TRUE
  Windows = {1, 2}
  RidRange = 5
  UserLimit = 2
  EngineLimit = 7
  MaxStarts = 2
  MaxOrders = 2
  MaxCancels = 2
  MaxEvents = 1
  SettledStart = TRUE
  CleanSwitch = FALSE
SPECIFICATION Spec
CHECK_DEADLOCK FALSE
INVARIANTS
  ReturnsRouted
