SPECIFICATION Spec
CONSTANTS
    Roles = {"user", "agent"}
    Speakers <- MCSpeakers
    Words = {"x", "y"}
    Understandings <- MCUnderstandings
    MaxSize = 3
    Refresh = 2
    NoWord = NoWord
    NoMessage = NoMessage
INVARIANT
    OldestOverflow
CHECK_DEADLOCK FALSE
