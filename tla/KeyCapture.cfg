SPECIFICATION Spec
CONSTANTS
    Keys = {"ControlLeft", "Alt", "KeyC", "KeyV", "KeyM"}
    Buttons = {"Left"}
    MaxQueue = 2
    Graphic = {"a", "b"}
    Blank = {" ", "newline"}
    Gap = " "
    Foreign = {"accent"}
    ChunkSize = 2
    Texts <- AnyTexts
CHECK_DEADLOCK FALSE
INVARIANTS
    TypeOK
    FlagsFollowToggles
    NoButtonSticks
    ClipboardIsTyped
PROPERTY OnlyCapturedIsQueued
