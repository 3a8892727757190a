SPECIFICATION Spec
CONSTANTS
    n1 = n1
    n2 = n2
    p1 = p1
    p2 = p2
    w1 = w1
    w2 = w2
    Npc = {n1}
    Player = {p1, p2}
    Worker = {w1}
    Db = db
    None = none
    Width = 5
    Sight = 2
    SecRow = 3
    LuaMayFail = FALSE
    MayTeleport = FALSE
    Rejoin = FALSE
    CalmSelf = TRUE
    CalmViews = TRUE
INVARIANT ViewsMatch
SYMMETRY PlayerSymmetry
CHECK_DEADLOCK FALSE
