SPECIFICATION Spec
CONSTANTS
  Schema <- ThreeTables
  TextColumns <- Text
  Values <- TwoValues
  MaxRows = 3
  Joins <- Chains
  Equijoins <- OnEqual
  Predicates <- Compound
  Orders <- ByEither
  Scales <- ThreeScales
  IndexSets <- WithAndWithout
  Plans <- Planned
INVARIANTS
  WhereIsThreeValued
  JoinsMatchReference
  HashJoinAgrees
  PagesCoverResult
  GroupsPartition
  PlanIsTheQuery
  ExplainAddsUp
CHECK_DEADLOCK FALSE
