CONSTANTS
  Lines <- SomeLines
  Places <- Inside
  Room = 2
  Careful = TRUE
  MidLineReset = TRUE
SPECIFICATION Spec
PROPERTY ResetDiscards
CHECK_DEADLOCK FALSE
