SPECIFICATION FairSpec
CONSTANTS
  Adapters = {a1, a2}
  Probes = {x1, x2}
  Recoveries = {r1, r2}
  Reloads = {l1}
  CircuitFailureThreshold = 2
  None = None
INVARIANTS
  RestartsAreDue
  RecoveringIsReal
  RoutedIsRegistered
  RestartIsScheduled
PROPERTIES
  FailureIsAnswered
