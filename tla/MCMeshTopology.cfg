SPECIFICATION Spec
CONSTANTS
  a1 = a1
  a2 = a2
  a3 = a3
  Agents <- MCAgents
  NoAgent = NoAgent
  MaxChildrenPerNode = 1
  ProbationChildCap = 0
  FlapThreshold = 2
  MaxFlap = 2
  MaxDepth = 2
SYMMETRY MCSymmetry
INVARIANTS
  LinksAgree
  WalksAgree
  PlacementWithinBudget
PROPERTIES
  OnlyPlacementClosesCycles
CHECK_DEADLOCK FALSE
