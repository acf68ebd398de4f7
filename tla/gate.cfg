SPECIFICATION Spec
CONSTANTS
  p1 = p1
  p2 = p2
  None = None
  NoSignature = NoSignature
  Runner = {p1}
  Looker = {p2}
  Facts <- MCFacts
  FirstBase = "base"
  FirstHeads <- MCHeads
  Edits <- MCEdits
  RuleOf <- MCRuleOf
  Signature <- MCSignature
  Past <- MCPast
  Outcome = {"passed", "failed"}
  SchemaV = 1
  MaxNodes = 4
  MaxSamples = 2
  MaxBreakpoints = 2
  MaxProbes = 9
  MaxWidth = 8
  MaxPairs = 2
  MaxViolations = 1
  MaxTargets = 1
  Width <- MCWidth
  Sentinel = {4}
  DefaultWidth = 4
  Today = 1
  Pages <- MCPages
  Sections <- MCSections
  Seen <- MCSeen
  Wobbles <- MCWobbles
  MaxRuns = 1
  MaxMoves = 1
  MaxDeaths = 1
INVARIANTS
  PassOfWholeRunIsMeasured
  LostProtectionBlocks
  IntroducedDebtIsReported
  FlakeIsReported
  RuntimeRegressionsBlock
  ResponsiveIsExact
  SweepFindsEveryOverlap
