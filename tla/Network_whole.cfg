CONSTANTS
    w1 = w1
    w2 = w2
    o1 = o1
    o2 = o2
    c1 = c1
    c2 = c2
    c3 = c3
    a1 = a1
    a2 = a2
    n1 = n1
    None = None
    Worker = {w1, w2}
    Over = {o1, o2}
    MaxSizes = {0, 1}
    BufSize = 5
    Command <- MCCommand
    SizeOf <- MCSizeOf
    Answer <- MCAnswer
    News = {n1}
    PerPlayer = 1
    SizesWhole = TRUE
    NoSize = 99
SPECIFICATION Spec
SYMMETRY Symmetry
CHECK_DEADLOCK FALSE
INVARIANTS TypeOK OverInOnePlace CommandsInOrder RoomToReceive PacketsArrive
