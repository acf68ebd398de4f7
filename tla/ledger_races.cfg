SPECIFICATION Spec
CONSTANTS
  p1 = p1
  p2 = p2
  o1 = o1
  Proc = {p1, p2}
  Obligation = {o1}
  Required <- MCRequired
  MutationObligation <- MCMutation
  TestOutcomes <- MCTests
  AssertOutcomes <- MCAsserts
  ProgramSeals <- MCSeals
  MaxRevision = 1
  MaxRuns = 1
  RestoreAllowed = FALSE
SYMMETRY Symmetry
INVARIANTS
  DecisiveVerdictsAreFinal
  ProvenIsEarned
  EvidenceOfItsRevision
