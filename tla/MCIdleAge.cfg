SPECIFICATION MCSpec
CONSTANTS
    Pkg = {a, b}
    Pid = {p}
    None = None
    MaxEpoch = 3
    MaxAge = 2
    Depths = {0}
    IdleSecs = {0, 2}
    LruDepths = {1, 2}
    Harvest = {TRUE}
    Epoch <- MCEpoch
    Config <- MCConfig
    ExcludeList = {{}, {a, b}}
    GamesList = {{}}
    SecMs = 1
    RTC_SYNC_FLOOR_MS = 2
    TrampolineMs = 2
    DeathTtlMs = 1
    DeathCap = 1
    EscalatedIdleSec = 1
    HarvestIdleSec = 1
    RelaxedIdleSec = 1
    HarvestAfterSec = 1
    StationaryAfterSec = 1
SYMMETRY Symmetry
VIEW DecisionView
INVARIANTS IdleAgeHonest SignalledOnce ForegroundLeadsHistory
PROPERTIES NeverRushed ImplementsReclaim
