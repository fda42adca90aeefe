SPECIFICATION Spec
CONSTANTS
  z1 = z1
  z2 = z2
  a1 = a1
  b = b
  Agents = {z1, z2, a1, b}
  Server = Server
  None = None
  Calls = {1, 2}
  Scenarios <- MCScenarios
INVARIANTS
  AnswerIsFromTheTarget
  RoutedRunsOnce
  AuditAgrees
  RelaysWaitForTheirChildren
  DropsOnlyStaleAnswers
  NothingLeftBehind
  RunsAsAsked
CHECK_DEADLOCK FALSE
