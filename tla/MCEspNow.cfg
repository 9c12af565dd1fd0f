CONSTANTS
  Pendants = {"p1", "p2"}
  Roster <- Paired12
  MaxPairings = 2
  QueueDepth = 2
  RingSize = 2
  Window = 3
  UnderflowLimit = 1
  Sent <- Does
  MaxSends <- Mostly
  Disturbances = {"repeat", "restart", "timeout", "roster", "flush"}
  MaxDisturbances = 1
SPECIFICATION Spec
INVARIANTS
  AtMostOnce
  StopsHold
  TakenFromOwner
  MessagesWhole
CHECK_DEADLOCK FALSE
