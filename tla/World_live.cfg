SPECIFICATION FairSpec
CONSTANTS
    n1 = n1
    n2 = n2
    p1 = p1
    p2 = p2
    w1 = w1
    w2 = w2
    Npc = {n1}
    Player = {p1}
    Worker = {w1, w2}
    Db = db
    None = none
    Width = 3
    Sight = 1
    SecRow = 2
    LuaMayFail = TRUE
    MayTeleport = TRUE
    Rejoin = FALSE
    CalmSelf = TRUE
    CalmViews = FALSE
CHECK_DEADLOCK FALSE
INVARIANTS
    TypeOK
    OneToken
PROPERTIES
    AwakeActs
    SleepsWhenAlone
    TurnsAreOwned
