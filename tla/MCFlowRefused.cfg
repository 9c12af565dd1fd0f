CONSTANTS
  Programs <- Nested
  Macros <- SmallMacros
  MaxRepeat = 2
  Leftovers = FALSE
  MaxLines = 5
  MaxDepth = 2
SPECIFICATION Spec
INVARIANT WellFormedAccepted
CHECK_DEADLOCK FALSE
