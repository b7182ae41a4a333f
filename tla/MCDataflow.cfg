SPECIFICATION PSpec
CONSTANTS
  Block <- Blocks
  local = local
  moved = moved
  Fact = {local, moved}
  Graphs <- SmallGraphs
  None = None
INVARIANTS
  TypeOK
  Solved
  AllReached
  
