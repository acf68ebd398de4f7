SPECIFICATION FairSpec
CONSTANTS
  o1 = o1
  o2 = o2
  Act = Act
  Obligation = {o1, o2}
  Program <- MCProgram
  Large <- MCLarge
  MaxStray = 1
CHECK_DEADLOCK FALSE
INVARIANTS
  ObservationsFollowTheirSteps
  ResultIsWhatRan
  NothingIsLeft
PROPERTIES
  SessionEnds
