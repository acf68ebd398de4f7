SPECIFICATION CasSpec
CONSTANTS
  w1 = w1
  w2 = w2
  a = a
  b = b
  None = None
  Writer = {w1, w2}
  Content = {a, b}
  Wants <- Apart
  Size = 2
  MaxFiles = 2
INVARIANTS
  RowsAreWhole
