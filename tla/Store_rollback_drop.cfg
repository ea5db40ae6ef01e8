SPECIFICATION Spec
CONSTANTS
  t1 = t1
  t2 = t2
  t3 = t3
  Tables <- TwoTables
  MaxPages = 2
  MaxCrashes = 0
  Statements <- AllKinds
  TxStatements <- DropOnly
SYMMETRY Symmetry
INVARIANTS
  DistinctPages
