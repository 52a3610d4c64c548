SPECIFICATION ServiceFairSpec
CONSTANTS
    Devices = {A}
    NoDevice = NoDevice
    MaxKeys = 2
    MaxChallenges = 2
    MaxNotes = 2
    MaxInbox = 1
    MaxRestarts = 1
CHECK_DEADLOCK FALSE
INVARIANTS
    ServiceTypeOK
    StaleStateIsConnectable
PROPERTIES
    ImplementsHookedTask
    ChallengeIsAnswered
    ConnectEnds
