SPECIFICATION Spec
CONSTANTS
  t1 = t1
  t2 = t2
  t3 = t3
  Tables <- ThreeTables
  MaxPages = 3
  MaxCrashes = 2
  Statements <- AllKinds
  TxStatements <- AllKinds
SYMMETRY Symmetry
CONSTRAINT Undamaged
INVARIANTS
  NoSharedPages
  SoundFreeList
  CacheCoherent
  RowsKept
  TablesReadable
