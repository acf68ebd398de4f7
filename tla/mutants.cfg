SPECIFICATION Spec
CONSTANTS
  o1 = o1
  o2 = o2
  t1 = t1
  t2 = t2
  t3 = t3
  Obligation = {o1, o2}
  File <- MCFile
  Plans <- PlansOfChange
  Files <- MCFiles
  Source <- MCSource
  LanguageOf <- MCLanguageOf
  Diffs <- MCDiffs
  Hints <- MCHints
  Binding = {t1, t2, t3}
  Proves <- MCProves
  Reaches <- MCReaches
  Declares <- MCDeclares
  KnownFlaky <- MCKnownFlaky
  Runs <- MCRuns
  Detects <- MCDetects
  Broken = {}
  MaxMutants = 5
  MaxDecisions = 4
  MaxWall = 3
  MaxStep = 1
  MaxEdits = 1
INVARIANTS
  KillsAreEarned
  MutantsAreCode
  DocumentIsValid
  StrongEvidenceIsComplete
