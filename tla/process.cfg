SPECIFICATION FairSpec
CONSTANTS
  node = node
  worker = worker
  Leader = node
  Descendant = {worker}
  MaxOutput = 2
  MaxWritten = 3
  PipeSize = 1
CHECK_DEADLOCK FALSE
INVARIANTS
  ResultIsComplete
  NothingSurvivesAKill
PROPERTIES
  PipesAreDrained
  StopsAndEnds
