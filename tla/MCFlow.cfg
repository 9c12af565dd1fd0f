CONSTANTS
  Programs <- Nested
  Macros <- SmallMacros
  MaxRepeat = 2
  Leftovers = FALSE
  MaxLines = 7
  MaxDepth = 3
SPECIFICATION Spec
INVARIANT RefusedOnlyAstray
PROPERTY RunsAsBlocks
CHECK_DEADLOCK FALSE
