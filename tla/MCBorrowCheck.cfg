SPECIFICATION FSpec
CONSTANTS
  Functions <- AllFunctions
  MaxBorrows = 10
  NoBlock = NoBlock
INVARIANTS
  WorklistConsistent
  EveryBlockChecked
  FixedPoint
PROPERTIES
  FactsOnlyGrow
  RefinesDataflow
  Termination
