SPECIFICATION Spec
CONSTANTS
    Devices = {A, B}
    NoDevice = NoDevice
    MaxKeys = 2
    MaxChallenges = 2
    MaxNotes = 2
    MaxInbox = 1
    MaxRestarts = 1
CHECK_DEADLOCK FALSE
SYMMETRY Symmetry
INVARIANTS
    IInv
    SessionFollowsLink
    NoPairingForgotten
    ChallengeInStep
    WriteUnwrapHolds
    ChallengeUnwrapHolds
PROPERTY ImplementsChannel
    ImplementsTask
