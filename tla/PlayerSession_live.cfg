SPECIFICATION FairSpec
CONSTANTS
  w1 = w1  w2 = w2  c1 = c1  c2 = c2  c3 = c3  alice = alice  bob = bob
  None = None  NoName = NoName
  Worker = {w1}
  Client = {c1, c2}
  User = {alice, bob}
  UserOf <- MCUserOf
  MaxUser = 1
  Position = {0, 1}
  Origin = 0
  MaxLevel = 2
  Offline = TRUE
  SqlMayFail = FALSE
  RedisMayExpire = FALSE
  MaxRestarts = 1
  CalmLogin = FALSE
  CalmClose = FALSE
  CalmReuse = TRUE
CHECK_DEADLOCK FALSE
 
PROPERTIES ClosedIsFreed LoginIsAnswered ResumesLast
