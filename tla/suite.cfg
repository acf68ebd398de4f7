SPECIFICATION SuiteSpec
CONSTANTS
  p1 = p1
  p2 = p2
  Proc = {p1, p2}
  web = web
  root = root
  n1 = n1
  n2 = n2
  o1 = o1
  Root = root
  None = None
  NoCase = NoCase
  Story = {}
  BrowserPath = {}
  MaxHistory = 3
  MaxFilters = 2
  MaxProcesses = 3
  Within <- MCWithin
  Targets <- MCTargets
  Need <- MCNeed
  Binding <- MCBinding
  Node = {n1, n2}
  Reach <- MCReach
  PresentAt <- MCPresentAt
  Impacts <- MCImpacts
  Statics <- MCStatics
  Breaks <- MCBreaks
  Taught <- MCTaught
  Runs = {1, 2}
INVARIANTS ReducedRunsStillProve PassedRunsHaveNoFailure AuditsReadWholeRuns 
SYMMETRY MCSymmetry
CHECK_DEADLOCK FALSE
