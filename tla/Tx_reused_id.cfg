SPECIFICATION Spec
CONSTANTS
  Pages <- TwoPages
  Values <- TwoValues
  Clients <- Api
  Habits <- KeepsOldLog
  MaxTx = 2
  MaxWrites = 1
  MaxStops = 2
CHECK_DEADLOCK FALSE
INVARIANTS
  IdleIsCommitted
