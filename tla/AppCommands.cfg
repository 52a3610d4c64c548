SPECIFICATION FairSpec
CONSTANTS
    Devices = {A}
    NoDevice = NoDevice
    Calls = {c1}
    AutoTask = AutoTask
    Hook = Hook
    QueueSize = 1
    InputSize = 1
CHECK_DEADLOCK FALSE
INVARIANTS
    TypeOK
    SuccessIsShown
    NoButtonStaysDown
    NobodyMissesAChange
PROPERTY CallsEnd
