SPECIFICATION MCSpec
CONSTANTS
    Pkg = {a, b}
    Apps = {a, b}
    Pid = {p, q}
    None = None
    MaxLog = 2
    LruDepths = {2}
    Epoch = {1}
    Config <- MCConfig
    ExcludeList = {{}}
    GamesList = {{}}
    SecMs = 1
    RTC_SYNC_FLOOR_MS = 0
    TrampolineMs = 2
    DeathTtlMs = 1
    DeathCap = 1
    EscalatedIdleSec = 0
    HarvestIdleSec = 1
    RelaxedIdleSec = 1
    HarvestAfterSec = 1
    StationaryAfterSec = 1
SYMMETRY Symmetry
VIEW TablesView
INVARIANTS SystemTypeOK ForwardIndexSound ForwardExact SetsExact
