CONSTANTS
  Axes = {"x", "z"}
  ParkAxis = "z"
  Slots = 3
  Smoothings = {1, 2}
  Finest = 2
  Moves <- TwoMoves
  ParkLengths = {1, 2}
  MaxMoves = 2
  MaxParks = 2
SPECIFICATION FairSpec
INVARIANTS
  SlotIntact
  PathExact
PROPERTY
  MotionEnds
