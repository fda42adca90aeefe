SPECIFICATION Spec
CONSTANTS
  a1 = a1
  a2 = a2
  a3 = a3
  c1 = c1
  c2 = c2
  w1 = w1
  w2 = w2
  Agents <- MCAgents
  NoAgent = NoAgent
  MaxChildrenPerNode = 1
  ProbationChildCap = 0
  FlapThreshold = 1
  MaxFlap = 1
  MaxDepth = 6
  Domain <- RackDomain
  NoDomain = NoDomain
  DomainFlapMinNodes = 1
  Host <- OwnDomain
  MaxZoneLeaders = 1
  Enforce = TRUE
  Conns <- MCConns
  NoConn = NoConn
  Workers <- MCWorkers
  MaxRegistrations = 2
  MaxEvents = 6
SYMMETRY MCSymmetry
INVARIANTS
  NoDeadRoute
  EveryRegistrationIsPlaced
CHECK_DEADLOCK FALSE

