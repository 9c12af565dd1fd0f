CONSTANTS
  Lines <- SomeLines
  Places <- Inside
  Room = 2
  Careful = TRUE
  MidLineReset = FALSE
SPECIFICATION Spec
INVARIANTS PositionKnown ParserKnowsMachine
PROPERTIES CutsAsAsked LinesEnd
CHECK_DEADLOCK FALSE
