SPECIFICATION Spec
CONSTANTS
  Sessions = {s1, s2}
  Channels = {ch1, ch2}
  Calls = {c1, c2}
  MaxMessages = 1
  NoSession = NoSession
  Servers = {m1, m2, m3}
  Clients = {k1, k2, k3, k4}
  PoolCalls = {o1, o2}
  MaxConnections = 2
  NoClient = NoClient
  Probes = {p1, p2}
  Health = {h1, h2}
  FailureThreshold = 3
  SuccessThreshold = 2
  Unwatched = Unwatched
  ToolServers = {"a", "b", "c"}
  TTL = 2
  QueryTime = 1
  CredOps = {r1, r2}
  MaxTokens = 2
  MaxRows = 1
  Identities = {g, h}
  Emails = {e1, e2}
  Accounts = {a1, a2}
  Cookies = {w1}
  Logins = {l1, l2}
  Nonces = {n1}
  Nobody = Nobody
SYMMETRY Symmetry
CHECK_DEADLOCK FALSE
INVARIANTS
  SessionsAreSound
  PoolIsSound
  ToolsAreOffered
  CredentialsWork
  VerifierIsSpentOnce
PROPERTIES
  NothingComesBack
