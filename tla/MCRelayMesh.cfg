SPECIFICATION FairSpec
CONSTANTS
  a1 = a1
  a2 = a2
  a3 = a3
  z = z
  c1 = c1
  c2 = c2
  c3 = c3
  c4 = c4
  c5 = c5
  Server = Server
  None = None
  Agents <- MCAgents
  Conns <- MCConns
  Scenarios <- MCScenarios
  Restarting <- MCRestarting
INVARIANTS
  DownstreamsAreServed
  FaultsHeal
PROPERTY Settles
CHECK_DEADLOCK FALSE
