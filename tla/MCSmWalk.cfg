CONSTANTS
    NULL = NULL
    MaxFlagged = 1
SPECIFICATION Spec
INVARIANTS
    TypeOK
    SessionNeedsRegistration
    RegisteredWithoutFailure
CHECK_DEADLOCK FALSE
