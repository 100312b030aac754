SPECIFICATION FairSpec
CONSTANTS
  Jobs = {j}
  Agents = {a}
  Workers = {w1}
  Requests = {r}
  Entries = {e1, e2, e3}
  AgentOf <- SoleAgent
  Gated = {a}
  MaxAttempts = 0
  RetryBound = 0
  Nobody = Nobody
  QuarantineDisabled = TRUE
  RoutesMayFail = FALSE
  WorkersMayDie = FALSE
  StatementsMayFail = FALSE
  DashboardRetries = FALSE
  OperatorActs = TRUE
  BackoffOutlastsUpdate = TRUE
CHECK_DEADLOCK FALSE
PROPERTIES
  ApprovedJobResumes
