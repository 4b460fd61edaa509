SPECIFICATION Spec
CONSTANTS
    N = 4
    MaxLength = 3
    MaxBytes = 14
INVARIANTS TypeOK UnreadKept LengthExact
PROPERTY IsFifo
CHECK_DEADLOCK FALSE
