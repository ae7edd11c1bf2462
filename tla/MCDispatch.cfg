SPECIFICATION Spec
CONSTANTS
    Pid = {p, q}
    Pkg = {app, kept, sys}
    AppPkg = {app, kept}
    Candidate = app
    Excluded = {kept}
    PidLists <- MCPidLists
    Tables <- MCTables
    MaxFd = 6
    WalkCap = 6
    HardLimit = 9
    None = None
INVARIANTS TypeOK JustifiedSignals RecordTells ChildIsolated
\* The dispatch ends.
CHECK_DEADLOCK FALSE
