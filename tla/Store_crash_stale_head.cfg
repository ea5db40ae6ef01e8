SPECIFICATION Spec
CONSTANTS
  t1 = t1
  t2 = t2
  t3 = t3
  Tables <- TwoTables
  MaxPages = 3
  MaxCrashes = 1
  Statements <- AllKinds
  TxStatements <- NoKind
SYMMETRY Symmetry
INVARIANTS
  DistinctPages
