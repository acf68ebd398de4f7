SPECIFICATION FairSpec
CONSTANTS
  p1 = p1
  p2 = p2
  o1 = o1
  Proc = {p1, p2}
  Obligation = {o1}
  Required <- MCRequiredBoth
  MutationObligation <- NoMutation
  TestOutcomes <- PassOnly
  AssertOutcomes <- MCSpoiled
  ProgramSeals <- MCSeals
  MaxRevision = 0
  MaxRuns = 1
  RestoreAllowed = FALSE
PROPERTIES
  ImplementsBook
  VerifyEnds
