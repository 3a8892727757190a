SPECIFICATION Spec
CONSTANTS
  w1 = w1  w2 = w2  c1 = c1  c2 = c2  c3 = c3  alice = alice  bob = bob
  None = None  NoName = NoName
  Worker = {w1, w2}
  Client = {c1, c2}
  User = {alice, bob}
  UserOf <- MCUserOf
  MaxUser = 2
  Position = {0, 1}
  Origin = 0
  MaxLevel = 2
  Offline = FALSE
  SqlMayFail = FALSE
  RedisMayExpire = TRUE
  MaxRestarts = 0
  CalmLogin = TRUE
  CalmClose = TRUE
  CalmReuse = TRUE
SYMMETRY Symmetry
CHECK_DEADLOCK FALSE
INVARIANTS SocketKeyed NoDuplicateLogin SavedWhenSettled
PROPERTY ResumesLast
