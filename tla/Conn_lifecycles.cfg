SPECIFICATION Spec
CONSTANTS
  c1 = c1
  c2 = c2
  Conns <- TwoConns
  Tables <- TwoTables
  MaxRows = 2
  MaxPages = 2
  MaxOpens = 2
INVARIANTS
  TablesAsAcked
  AloneIsSafe
  LockHeld
  LockAndStoreReleased
PROPERTY OpensReturn
CHECK_DEADLOCK FALSE
