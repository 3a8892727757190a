SPECIFICATION Spec
CONSTANTS
    Item = {1, 2}
    Tall = {1}
    Wide = {2}
    Cols = 2
    Rows = 2
    None = none
    MaxCommands = 1
INVARIANTS
    GridSound
    LayoutIsValid
    ShownIsKept
    ClosedIsSent
