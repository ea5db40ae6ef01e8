SPECIFICATION Spec
CONSTANTS
  Pages <- TwoPages
  Values <- TwoValues
  Clients <- Api
  Habits <- EagerCheckpoint
  MaxTx = 1
  MaxWrites = 1
  MaxStops = 1
CHECK_DEADLOCK FALSE
INVARIANTS
  IdleIsCommitted
