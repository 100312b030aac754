SPECIFICATION FairSpec
CONSTANTS
  Jobs = {j}
  Agents = {a}
  Workers = {w1}
  Requests = {}
  Entries = {e1, e2, e3}
  AgentOf <- SoleAgent
  Gated = {}
  MaxAttempts = 1
  RetryBound = 1
  Nobody = Nobody
  QuarantineDisabled = FALSE
  RoutesMayFail = FALSE
  WorkersMayDie = FALSE
  StatementsMayFail = FALSE
  DashboardRetries = TRUE
  OperatorActs = FALSE
  BackoffOutlastsUpdate = TRUE
CHECK_DEADLOCK FALSE
PROPERTIES
  RetryingIsRetried
