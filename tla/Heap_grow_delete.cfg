SPECIFICATION Spec
CONSTANTS
  Keys <- TwoKeys
  TextLengths <- TwoLengths
  Statements <- All
  MaxSlots = 4
  MaxReopens = 0
INVARIANTS
  RowsAsAsked
CHECK_DEADLOCK FALSE
