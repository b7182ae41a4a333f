SPECIFICATION Spec
CONSTANT Templates <- AllTemplates
CHECK_DEADLOCK FALSE
INVARIANTS
  NeverStuck
  NoHoles
  NothingLost
  BindsAsRanked
  PrintsBack
  EveryPathAnswered
