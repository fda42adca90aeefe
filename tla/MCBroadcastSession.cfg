SPECIFICATION FairSpec
CONSTANTS
  a1 = a1
  a2 = a2
  a3 = a3
  z1 = z1
  z2 = z2
  h1 = h1
  h2 = h2
  Targets <- MCTargets
  Streams <- MCStreams
  Handlers <- MCHandlers
  Dispatcher = Dispatcher
  None = None
  Agents <- MCAgents
  Subtree <- MCSubtree
  MaxReplies = 1
INVARIANTS
  NoTerminalLost
  ReturnsTheWinners
PROPERTIES
  ImplementsFirstTerminal
  ReturnsOnceAccounted
CHECK_DEADLOCK FALSE
