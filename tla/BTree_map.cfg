SPECIFICATION MCSpec
CONSTANTS
  Keys <- FiveKeys
  RowIds <- OneRow
  Order = 1
  Fanout = 3
  MaxPages = 6
INVARIANTS
  LeavesWithinBounds
  PagesAccounted
  ScansAgree
PROPERTIES
  ImplementsMap
  WideTreeIsMap
