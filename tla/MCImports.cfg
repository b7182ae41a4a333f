SPECIFICATION Spec
CONSTANTS
  MaxDepth = 5
  Worlds <- AllWorlds
CHECK_DEADLOCK FALSE
INVARIANTS
  ImportsIndependent
  NothingPrivate
PROPERTIES
  CirclesReported
