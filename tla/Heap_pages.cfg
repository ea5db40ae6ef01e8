SPECIFICATION BytesSpec
CONSTANTS
  Keys <- ZeroAndOne
  TextLengths <- TwoLengths
  Statements <- All
  MaxSlots = 4
  MaxReopens = 1
  PageUnits = 29
INVARIANTS
  ScanMatchesTable
  BytesMatchSlots
  CutReadsNoneWrong
PROPERTY InsertKeepsKeys
CHECK_DEADLOCK FALSE
