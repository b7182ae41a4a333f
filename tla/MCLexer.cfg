SPECIFICATION Spec
CONSTANTS
  MaxLine = 2
  MaxColumn = 3
  MaxInteger = 255
  Sources <- SourcesByKind
  Awaited = {";", "Integer"}
CHECK_DEADLOCK FALSE
INVARIANTS
  PositionsAgree
  TextAlone
PROPERTIES
  RefinesStream
