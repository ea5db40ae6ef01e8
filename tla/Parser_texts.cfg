SPECIFICATION Spec
CONSTANTS
  GrammarLength = 7
  MaxSlips = 2
  Operands <- AColumnAndANumber
INVARIANTS
  PredicatesMatchGrammar
  RoundTrips
  NeverRunTogether
CHECK_DEADLOCK FALSE
