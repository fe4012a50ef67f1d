CONSTANT Notes = 2
SPECIFICATION FairSpec
INVARIANTS
  TypeOK
  EndIsComing
PROPERTIES
  NothingEndsEarly
  CatchesUp
CHECK_DEADLOCK FALSE
