SPECIFICATION FactsSpec
CONSTANT Functions <- AllFunctions
INVARIANTS
  
  RelationsMeanMemory
PROPERTY Termination
