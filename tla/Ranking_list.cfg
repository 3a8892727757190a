CONSTANTS
    None = None
    User <- Names
    Broken = {2, 4}
    Top = 2
    Extra = 1
    MaxLevel = 2
    MaxExp = 1
    MaxRestarts = 1
    CONNECT_TRY = 3
SPECIFICATION MCSpec
CHECK_DEADLOCK FALSE
INVARIANTS TypeOK AnswerIsBest
PROPERTY CatchesUp
