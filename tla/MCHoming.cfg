CONSTANTS
  Axes = {"x", "y"}
  Motors = {"x0", "x1", "y0"}
  AxisOf <- Gantry
  Pulloff <- Skewed
  SeekTravel <- Seek
  FeedMargin = 1
  HomingRuns = 2
  Requests <- Cycles
  Starts <- Places
  Overrun <- AtOnce
  MaxHomings = 2
  Commands = {"reset", "door", "sleep"}
  MaxCommands = 1
SPECIFICATION FairSpec
INVARIANTS
  HomedAtSwitch
  NeverPastSwitch
PROPERTY
  HomingEnds
CHECK_DEADLOCK FALSE
