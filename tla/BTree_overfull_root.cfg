SPECIFICATION MCSpec
CONSTANTS
  Keys <- SixKeys
  RowIds <- OneRow
  Order = 2
  Fanout = 4
  MaxPages = 7
INVARIANT NoOverfullNode
