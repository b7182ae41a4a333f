SPECIFICATION Spec
CONSTANTS
  Threads = {t1, t2, t3}
  Names = {a, b, c}
  MaxId = 2
  MaxCalls = 2
  None = None
INVARIANTS
  TypeOK
  HandlesResolve
  NeverPanics
PROPERTIES
  RefinesTable
  CallsReturn
