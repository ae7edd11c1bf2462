\* Three edits, told of by inotify or not, against the start of the daemon and
\* its reloads.
SPECIFICATION Spec
CONSTANTS
    a = a
    b = b
    App = {a, b}
    Absent = Absent
    ConfText <- MCConfText
    ListText <- MCListText
    Ram = {12000}
    Defaults <- MCDefaults
    MayFail = TRUE
    MaxEdits = 3
INVARIANTS
    TypeOK
    InForce
    DefaultsShielded
PROPERTY EditsTakeEffect
CHECK_DEADLOCK FALSE
