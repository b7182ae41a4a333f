SPECIFICATION Spec
CONSTANTS
  None = None
  Bodies <- AllBodies
  Values <- AllValues
  Params <- ParamNames
  LoopLimit = 8
  MaxTape = 5
INVARIANTS
  NeverPanics
  CodeWellFormed
  AgreesWithEvaluator
