SPECIFICATION Spec
CONSTANTS
    Size = 2
    MaxTime = 2
    Threshold = 2
    MaxMoves = 4
INVARIANTS
    TypeOK
    MotionIsConserved
    NothingCancels
