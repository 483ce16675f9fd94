CONSTANTS
    Url = {1, 2, 3}
    MaxNew = 3
    MaxRounds = 2
SPECIFICATION Spec
INVARIANTS
    TypeOK
    DeltaIsExact
    NothingDangles
PROPERTY AdoptsTheRound
CHECK_DEADLOCK FALSE
