SPECIFICATION Spec
CONSTANTS
  Pages <- TwoPages
  Values <- TwoValues
  Clients <- Db
  Habits <- AllHabits
  MaxTx = 1
  MaxWrites = 1
  MaxStops = 1
CHECK_DEADLOCK FALSE
INVARIANTS
  StopsUndone
