SPECIFICATION FairSpec
CONSTANTS
    Kills = {2}
    QueueSize = 2
    ScreenSize = 1
    PipeSize = 1
    MaxCommands = 4
    MaxStates = 3
CHECK_DEADLOCK FALSE
INVARIANTS
    TypeOK
    CommandsInOrder
    StatesInOrder
PROPERTY ChangeIsSeen
    ImplementsBridge
