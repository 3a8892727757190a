CONSTANTS
    u1 = u1
    i1 = i1
    i2 = i2
    s1 = s1
    s2 = s2
    User = {u1}
    Item = {i1, i2}
    Cell = {s1, s2}
    Offline = FALSE
    SqlMayFail = TRUE
    MaxCrashes = 1
    MaxQueue = 3
SPECIFICATION Spec
SYMMETRY Symmetry
CHECK_DEADLOCK FALSE
INVARIANT DroppedIsGone
