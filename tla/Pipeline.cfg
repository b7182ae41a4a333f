SPECIFICATION Spec
INVARIANTS
  
  HandlesInScope
