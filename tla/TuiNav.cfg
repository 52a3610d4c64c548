SPECIFICATION FairSpec
CONSTANTS
    MaxPushes = 4
    MaxDepth = 3
    MaxTyped = 1
CHECK_DEADLOCK FALSE
INVARIANTS
    TypeOK
    HomeAtBottom
    StackNeverWaits
PROPERTY BackLeaves
