SPECIFICATION FairSpec
CONSTANTS
  z = z
  b = b
  c = c
  p1 = p1
  p2 = p2
  None = None
  Agents = {z, b, c}
  Pods = {p1, p2}
  Stale = 1
  Scenarios <- MCScenarios
INVARIANTS
  DiskIsCurrent
PROPERTIES
  OneLeaderInTheEnd
  ReapsTheUncovered
CHECK_DEADLOCK FALSE
