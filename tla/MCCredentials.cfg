SPECIFICATION FairSpec
CONSTANTS
  z = z
  c = c
  Server = Server
  Agents = {z, c}
  Scenarios <- MCScenarios
PROPERTY
  EveryAgentComesBack
CHECK_DEADLOCK FALSE
