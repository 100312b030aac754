SPECIFICATION Spec
CONSTANTS
  Jobs = {j}
  Agents = {a}
  Workers = {w1, w2}
  Requests = {r}
  Entries = {e1, e2}
  AgentOf <- SoleAgent
  Gated = {a}
  MaxAttempts = 1
  RetryBound = 1
  Nobody = Nobody
  QuarantineDisabled = FALSE
  RoutesMayFail = TRUE
  WorkersMayDie = TRUE
  StatementsMayFail = TRUE
  DashboardRetries = TRUE
  OperatorActs = TRUE
  BackoffOutlastsUpdate = FALSE
CHECK_DEADLOCK FALSE
VIEW WithoutHistory
SYMMETRY Symmetry
INVARIANTS
  GateHolds
  EntriesAreExclusive
  RegistryIsAccurate
PROPERTIES
  ObeysTrigger
