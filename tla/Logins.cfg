SPECIFICATION LoginsSpec
CONSTANTS
  Sid = {s1, s2}
  Req = {r1, r2}
  Writes = {r2}
  Thread = {w1, w2, w3, w4}
  None = None
  MaxSessions = 2
  Lapsing = {}
  BadName = {s2}
  Slow = {"resolve", "connect", "wait"}
  Attempt = {t1, t2}
  LoginName = {"ana", "Ana", "ben"}
  AccountOf <- Accounts
  Source = {"s1", "s2"}
  NoSource = "none"
  Named = {"dc1", "dc2"}
  Address = {"ip1"}
  Realm = {"EX"}
  Identity <- Identities
  Bind <- Binds
  Transports <- Both
  Published <- Srv
  Asking <- SignInRequests
  CustomServers = TRUE
  MaxAttempts = 1
  Lockout = 1
  PruneAbove = 1
  MaxEvents = 1
  Window = 1
  EventKeys = 1
  ProbeTtl = 0
  MaxCached = 1
  MaxNow = 2
  MaxSignIns = 3
SYMMETRY LoginSymmetry
INVARIANTS
  NothingLeftBehind LimitsKept KdcsNamed
PROPERTIES
  FreshIdentity FallsOver
