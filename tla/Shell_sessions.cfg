SPECIFICATION Spec
CONSTANTS
  Lines <- AllLines
  DotWords <- Dots
  MaxLines = 4
  Pygments = TRUE
INVARIANTS
  StatementsAsWritten
  ExitTells
CHECK_DEADLOCK FALSE
