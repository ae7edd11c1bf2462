\* Two lines of every shape, cut anywhere by reads of up to ReadMax symbols.
SPECIFICATION Spec
CONSTANTS
    TokenSlots = 8
    MaxMs = 4999
    ReadMax = 12
    BufCap = 24
    MaxLines = 2
    Line <- MCLine
INVARIANTS
    TypeOK
    EventsAsWritten
CHECK_DEADLOCK FALSE
