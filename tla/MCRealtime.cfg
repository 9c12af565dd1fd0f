CONSTANTS
  Commands <- AllCommands
  Lines <- AllLines
  Bounds <- AllBounds
  Weight <- WeightOf
  Blocks = 2
  Segments = 1
  Length = 2
  CanPark = {TRUE, FALSE}
SPECIFICATION FairSpec
INVARIANTS
  ResetStopsEverything
  EngineAlive
  HoldEscapable
  RestedWhenComplete
  DoorBlocksUse
  SpindleOffAtDoor
PROPERTIES
  JogCancelFlushes
  DoorParks
  RestoreCompletes
