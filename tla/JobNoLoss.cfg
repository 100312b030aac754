SPECIFICATION FairSpec
CONSTANTS
  Jobs = {j}
  Agents = {a}
  Workers = {w1, w2}
  Requests = {r}
  Entries = {e1, e2, e3}
  AgentOf <- SoleAgent
  Gated = {}
  MaxAttempts = 1
  RetryBound = 1
  Nobody = Nobody
  QuarantineDisabled = FALSE
  RoutesMayFail = TRUE
  WorkersMayDie = TRUE
  StatementsMayFail = TRUE
  DashboardRetries = FALSE
  OperatorActs = TRUE
  BackoffOutlastsUpdate = TRUE
CHECK_DEADLOCK FALSE
INVARIANTS
  NoJobIsLost
PROPERTIES
  EveryJobSettles
  ExhaustedStays
