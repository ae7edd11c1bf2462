SPECIFICATION MCSpec
CONSTANTS
    Pkg = {a, b}
    Pid = {p}
    None = None
    MaxEpoch = 4
    LruDepths = {2}
    Epoch <- MCEpoch
    Config <- MCConfig
    ExcludeList = {{}}
    GamesList = {{}}
    SecMs = 1
    RTC_SYNC_FLOOR_MS = 0
    TrampolineMs = 3
    DeathTtlMs = 1
    DeathCap = 1
    EscalatedIdleSec = 0
    HarvestIdleSec = 9
    RelaxedIdleSec = 9
    HarvestAfterSec = 9
    StationaryAfterSec = 9
PROPERTY FlashesPruned
