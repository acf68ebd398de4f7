SPECIFICATION BehaviorSpec
CONSTANTS
  p1 = p1
  p2 = p2
  Proc = {p1, p2}
  t1 = t1
  t2 = t2
  a = a
  b = b
  c = c
  ft = ft
  f2 = f2
  fa = fa
  fb = fb
  fc = fc
  Unknown = Unknown
  TestFile = {ft, f2}
  SourceFile = {fa, fb, fc}
  Code = {a, b, c}
  SurfaceOrder <- MCOrder
  MaxSurfaces = 4
  MaxDepth = 2
  MaxPaths = 4
  r1 = r1
  r2 = r2
  Runs = {r1, r2}
  Journals <- MCJournals
  Recordings <- MCRecordings
  Sources <- MCSources
INVARIANTS GraphHoldsEvidence DiscardedWasKnown BehaviorsWereSeen CutTestsAreAskedFor
SYMMETRY MCSymmetry
