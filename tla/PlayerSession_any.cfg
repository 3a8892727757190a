SPECIFICATION Spec
CONSTANTS
  w1 = w1  w2 = w2  c1 = c1  c2 = c2  c3 = c3  alice = alice  bob = bob
  None = None  NoName = NoName
  Worker = {w1, w2}
  Client = {c1, c2}
  User = {alice, bob}
  UserOf <- MCUserOf
  MaxUser = 1
  Position = {0}
  Origin = 0
  MaxLevel = 1
  Offline = FALSE
  SqlMayFail = TRUE
  RedisMayExpire = FALSE
  MaxRestarts = 0
  CalmLogin = FALSE
  CalmClose = FALSE
  CalmReuse = FALSE
SYMMETRY Symmetry
CHECK_DEADLOCK FALSE
INVARIANTS TypeOK AcceptChain
