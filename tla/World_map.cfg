SPECIFICATION WatchSpec
CONSTANTS
    n1 = n1
    n2 = n2
    p1 = p1
    p2 = p2
    w1 = w1
    w2 = w2
    Npc = {n1}
    Player = {p1}
    Worker = {w1, w2}
    Db = db
    None = none
    Width = 6
    Sight = 2
    SecRow = 3
    LuaMayFail = FALSE
    MayTeleport = FALSE
    Rejoin = TRUE
    CalmSelf = TRUE
    CalmViews = FALSE
INVARIANTS
    AwakeWhenWatched
    SectorMembership
SYMMETRY WorkerSymmetry
