SPECIFICATION Spec
CONSTANTS
  Pages <- TwoPages
  Values <- TwoValues
  Clients <- AllClients
  Habits <- AllHabits
  MaxTx = 2
  MaxWrites = 2
  MaxStops = 2
CHECK_DEADLOCK FALSE
INVARIANTS
  LoggedRecovered
  DatabaseRecovered
