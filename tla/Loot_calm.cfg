CONSTANTS
    w1 = w1
    w2 = w2
    p1 = p1
    p2 = p2
    n1 = n1
    n2 = n2
    c1 = c1
    c2 = c2
    None = None
    Worker = {w1, w2}
    Player = {p1, p2}
    Npc = {n1, n2}
    Cell = {c1, c2}
    MaxMapItem = 1
    Capacity = 1
    SeqSize = 1
    MaxClock = 2
    StartExp = 98
    NpcLevel <- MCLevel
    StartHp <- MCHp
    Carried <- MCCarried
    CalmSlots = TRUE
    CalmMoves = TRUE
SPECIFICATION TogetherSpec
SYMMETRY Symmetry
CHECK_DEADLOCK FALSE
INVARIANTS TypeOK ExpBelow ExpForDeaths ItemInOnePlace MapAgrees
PROPERTY IdsAreUnique
