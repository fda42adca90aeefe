SPECIFICATION Spec
CONSTANTS
  z = z
  b = b
  c = c
  p1 = p1
  p2 = p2
  None = None
  Agents = {z, b, c}
  Pods = {p1, p2}
  Stale = 1
  Scenarios <- MCScenarios
INVARIANT
  NeverLostInACycle
CHECK_DEADLOCK FALSE
