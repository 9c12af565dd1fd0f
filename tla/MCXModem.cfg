CONSTANTS
  z = z
  Z = z
  Files <- SomeFiles
  Bytes <- TwoBytes
  BlockSize = 2
  Spaces = {2, 9}
  Numbers = 4
  MaxRetrans = 3
  SyncTries = 3
  EndTries = 2
  Faults = {"lose", "spoil", "late"}
  MaxFaults = 2
SPECIFICATION FairSpec
INVARIANTS
  InOrder
  KeptWhole
  LateLosesNothing
PROPERTY Recovers
CHECK_DEADLOCK FALSE
