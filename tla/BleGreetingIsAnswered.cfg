SPECIFICATION FairSpec
CONSTANTS
    Devices = {A}
    NoDevice = NoDevice
    MaxKeys = 1
    MaxChallenges = 2
    MaxNotes = 2
    MaxInbox = 1
    MaxRestarts = 0
CHECK_DEADLOCK FALSE
PROPERTY GreetingIsAnswered
