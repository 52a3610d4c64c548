SPECIFICATION ServiceSpec
CONSTANTS
    Devices = {A}
    NoDevice = NoDevice
    MaxKeys = 1
    MaxChallenges = 1
    MaxNotes = 1
    MaxInbox = 1
    MaxRestarts = 0
CHECK_DEADLOCK FALSE
INVARIANT ChallengeUnwrapAsserted
