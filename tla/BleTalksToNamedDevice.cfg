SPECIFICATION Spec
CONSTANTS
    Devices = {A, B}
    NoDevice = NoDevice
    MaxKeys = 2
    MaxChallenges = 1
    MaxNotes = 1
    MaxInbox = 1
    MaxRestarts = 1
CHECK_DEADLOCK FALSE
INVARIANT TalksToNamedDevice
