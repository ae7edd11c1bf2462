\* Two daemons, a log of fewer than four records, two failing calls.
SPECIFICATION Spec
CONSTANTS
    MaxFaults = 2
    Cap = 4
    BufferCap = 2
    MaxDaemons = 2
    MaxRecords = 6
    MaxEdits = 2
INVARIANTS
    TypeOK
    CapHeld
    OrderedLog
    NothingLost
    SwitchesAnnounced
CHECK_DEADLOCK FALSE
