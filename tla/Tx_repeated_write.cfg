SPECIFICATION Spec
CONSTANTS
  Pages <- TwoPages
  Values <- TwoValues
  Clients <- Api
  Habits <- RepeatedWrites
  MaxTx = 1
  MaxWrites = 2
  MaxStops = 1
CHECK_DEADLOCK FALSE
INVARIANTS
  IdleIsCommitted
