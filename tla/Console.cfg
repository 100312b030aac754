SPECIFICATION Spec
CONSTANTS
  Fetches = {q1, q2}
  Filters = {1, 2}
  MaxVersion = 2
  AdminCalls = {o1, o2}
  AdminJobs = {k1, k2}
  Threshold = 1
  ChatIds = {i1}
  NoChat = NoChat
  MaxSends = 2
  MaxPolls = 2
  Cards = {r1, r2}
  Requests = {r1}
  NoRequest = NoRequest
  Deciders = {"page", "other"}
  Flows = {w1, w2}
  NoFlow = NoFlow
  Secrets = {s1, s2}
  NoSecret = NoSecret
  Admins = {u1, u2}
  NoAdmin = NoAdmin
  Takers = {k1}
  Channels = {n1, n2}
  NoChannel = NoChannel
  Chats = {h1, h2}
  Names = {"x", "y"}
  Creators = {"page", "other"}
  LlmProviders = {"pa", "pb"}
  Models = {"m1", "m2"}
  Unknown = "zz"
  Tools = {"t1"}
  NoRow = NoRow
  GuardJobs = {g1, g2}
  MaxCalls = 1
  ToolRefs = {"t1", "t2"}
  ScopeKeys = {"k1", "k2"}
  ScopeVals = {"a", "b"}
  McpHosts = {x1, x2}
  NoHost = NoHost
  BoundTools = {z1}
  NoTool = NoTool
  AuditPages = 2
  Prompts = {"p1", "p2"}
  Lives = {"DRAINING"}
  MaxPosts = 1
  Users = {y1, y2}
  NoUser = NoUser
  PageSize = 1
  RowStatuses = {"RUNNING", "FAILED", "RETRYING", "COMPLETED"}
  StatusFilters = {"ALL", "COMPLETED", "FAILED"}
  Posts = {w1, w2}
  DrawerJobs = {j1, j2}
  NoJob = NoJob
  Contents = {"c1", "c2"}
  InCluster = {1, 2}
  NoServer = 0
  SkillFiles = {f1, f2}
  SkillTools = {"a", "b"}
  SkillLists = {{"a"}, {"a", "b"}}
  NoFile = NoFile
  SkillJobs = {j1}
  SkillTokenBudget = 2
  MaxWrites = 1
CHECK_DEADLOCK FALSE
INVARIANTS
  PagesAreCurrent
  DialogsStand
  OutcomesAreTold
  RowsAreSound
PROPERTIES
  OnlyAsAsked
