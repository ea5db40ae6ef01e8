SPECIFICATION Spec
CONSTANTS
  Keys <- TwoKeys
  TextLengths <- OneLength
  Statements <- NoUpdate
  MaxSlots = 4
  MaxReopens = 1
INVARIANTS
  PrimaryKeyUnique
CHECK_DEADLOCK FALSE
