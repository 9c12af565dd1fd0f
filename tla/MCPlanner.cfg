CONSTANTS
  N = 4
  Shapes <- Moves
  Overrides <- Percent
  NoOverride = 100
  FarSpeed = 99
SPECIFICATION Spec
INVARIANTS
  TypeOK
  PlannedInsideQueue
  PlanOptimal
PROPERTY AccelerationBounded
