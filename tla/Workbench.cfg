SPECIFICATION Spec
CONSTANTS
  Contexts = {c1, c2, c3}
  NoContext = NoContext
  BootsOverlap = FALSE
  MaxTurns = 3
  MaxCalls = 2
  ToolLimit = 2
  TokenBudget = 2
  Endpoints = 3
  Spenders = {x1, x2}
  CliJobs = {x2}
  Prices = {1, 2}
  JobLimit = 1
  SessionLimit = 2
  DayLimit = 2
  ObsCalls = {b1, b2}
  Viewers = {v1, v2}
  MaxPage = 2
  Polls = {p1, p2}
  MaxUpdate = 3
  BufferSize = 4
CHECK_DEADLOCK FALSE
INVARIANTS
  AgentIsManaged
  ResultsAreEarned
  SpendingIsSound
  ViewsAreTrue
PROPERTIES
  WorkEnds
