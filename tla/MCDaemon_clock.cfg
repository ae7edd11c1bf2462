SPECIFICATION Spec
CONSTANTS
    Pkg = {a}
    Pid = {p}
    None = None
    MaxEpoch = 3
    IdleSecs = {1}
    ShieldDepths = {0}
    LruDepths = {1}
    Kills = {1}
    MemPercents = {0, 10}
    GameFiles = {a}
    Epoch <- MCEpoch
    Config <- MCConfig
    ExcludeList = {{}}
    GamesList <- MCGames
    SecMs = 1
    RTC_SYNC_FLOOR_MS = 2
    TrampolineMs = 2
    DeathTtlMs = 1
    DeathCap = 1
    EscalatedIdleSec = 0
    HarvestIdleSec = 1
    RelaxedIdleSec = 1
    HarvestAfterSec = 1
    StationaryAfterSec = 1
INVARIANTS TypeOK SessionsPaired AnchorsInPast
