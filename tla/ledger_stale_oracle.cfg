SPECIFICATION Spec
CONSTANTS
  p1 = p1
  p2 = p2
  o1 = o1
  Proc = {p1, p2}
  Obligation = {o1}
  Required <- RequiredOfBrowser
  MutationObligation <- NoMutation
  TestOutcomes <- NoTests
  AssertOutcomes <- PassOnly
  ProgramSeals <- FirstSeal
  MaxRevision = 1
  MaxRuns = 1
  RestoreAllowed = FALSE
INVARIANTS
  ProvenUnderItsSeal
