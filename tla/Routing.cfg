SPECIFICATION RoutingSpec
CONSTANTS
  Tasks = {t1, t2, t3}
  Providers = {p, q}
  Rank <- SomeRank
  MaxConcurrent = 1
  FailureThreshold = 2
  HalfOpenMaxAttempts = 1
  SuccessThresholdToClose = 2
  None = None
  RouterConfigured = TRUE
  PermitsTimeOut = FALSE
  ExecutionsThrow = FALSE
  Uncounted = FALSE
  Executions = {e1, e2}
  NoExecution = NoExecution
  Steers = {g1, g2}
  MaxToolCalls = 1
  MaxLlmCalls = 1
  WindowSeconds = 0
  JobBudget = 0
  SessionBudget = 1
  MaxTime = 1
  MaxTurnsSeen <- TurnBounds
  MaxUsage = 1
INVARIANTS
  SemaphoreIsExact
  SlotsAddUp
  CutIffOverrun
  TurnIsItsOwn
PROPERTIES
  RoutingGoesOn
