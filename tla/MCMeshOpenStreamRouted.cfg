SPECIFICATION Spec
CONSTANTS
  a1 = a1
  a2 = a2
  a3 = a3
  c1 = c1
  c2 = c2
  w1 = w1
  w2 = w2
  Agents <- OneAgent
  NoAgent = NoAgent
  MaxChildrenPerNode = 1
  ProbationChildCap = 0
  FlapThreshold = 0
  MaxFlap = 0
  MaxDepth = 6
  Domain <- OwnDomain
  NoDomain = NoDomain
  DomainFlapMinNodes = 0
  Host <- OwnDomain
  MaxZoneLeaders = 1
  Enforce = TRUE
  Conns <- MCConns
  NoConn = NoConn
  Workers <- OneWorker
  MaxRegistrations = 2
  MaxEvents = 7
INVARIANTS
  OpenStreamIsRouted
CHECK_DEADLOCK FALSE
