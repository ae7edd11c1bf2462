---------------------------- MODULE DaemonState ----------------------------
(***************************************************************************)
(* The state mini-lmk keeps between two logcat lines (`DaemonState`,       *)
(* daemon.rs) and the vocabulary the handlers share: exclusion, saturating *)
(* arithmetic, and the compensation of wall-clock steps (events.rs).       *)
(*                                                                         *)
(* Maps are total functions.  None stands for an absent key; a package     *)
(* absent from pkg_to_pids and one whose set is empty are both {}, which   *)
(* the code cannot tell apart (ForwardIndexSound in module Daemon).        *)
(***************************************************************************)
EXTENDS Integers, Sequences, FiniteSets

CONSTANTS
    Pkg,            \* packages
    Pid,            \* process ids
    None,           \* an absent key or an empty Option
    Epoch,          \* the wall-clock milliseconds a log line may carry
    Config,         \* the RuntimeConfigs daemon.conf may hold
    ExcludeList,    \* the contents exclude.list may hold
    GamesList       \* the contents games.list may hold

CONSTANTS
    SecMs,              \* milliseconds in a second (1000)
    RTC_SYNC_FLOOR_MS,  \* epochs below it come from an unsynchronized RTC
    TrampolineMs,       \* foreground stays below it leave fg_lru (500)
    DeathTtlMs,         \* age at which a recorded death may be pruned (120 000)
    DeathCap,           \* recorded deaths that trigger a pruning (64)
    EscalatedIdleSec,   \* idle ceiling in game mode and under low memory (10)
    HarvestIdleSec,     \* idle ceiling once the screen has been off (30)
    RelaxedIdleSec,     \* idle ceiling of the two relaxations (60)
    HarvestAfterSec,    \* screen-off time after which harvest is deep (60)
    StationaryAfterSec  \* foreground anchor age of a stationary session (300)

\* A package's uid is an application's (>= 10000) or the system's.
Uid == {"app", "system"}

RuntimeConfig ==
    [t_idle_sec : Nat, lru_protect_depth : Nat, fg_lru_max_depth : Nat,
     mem_critical_percent : Nat, screen_off_harvest : BOOLEAN,
     max_kills_per_pass : Nat \ {0}]

ASSUME NoneAssumption ==
    /\ None \notin Pkg
    /\ None \notin Nat
    /\ None \notin Uid

ASSUME ParameterAssumption ==
    /\ Epoch \subseteq Nat
    /\ Config \subseteq RuntimeConfig
    /\ ExcludeList \subseteq SUBSET Pkg
    /\ GamesList \subseteq SUBSET Pkg

ASSUME ThresholdAssumption ==
    /\ SecMs \in Nat \ {0}
    /\ RTC_SYNC_FLOOR_MS \in Nat
    /\ TrampolineMs \in Nat
    /\ DeathTtlMs \in Nat
    /\ DeathCap \in Nat
    /\ EscalatedIdleSec \in Nat
    /\ HarvestIdleSec \in Nat
    /\ RelaxedIdleSec \in Nat
    /\ HarvestAfterSec \in Nat
    /\ StationaryAfterSec \in Nat

VARIABLES
    config, user_exclusions, dynamic_exclusions, games,
    alive_apps,         \* package -> anchor of its idle age
    pid_to_pkg,         \* pid -> package
    pkg_to_pids,        \* package -> its pids
    pkg_to_uid,         \* package -> uid, never overwritten by a start
    recent_deaths,      \* package -> time of its last death
    fg_lru,             \* foreground history, most recent first
    current_fg,
    screen_on, screen_on_start, screen_off_start,
    is_gaming, game_session_start,
    session_start,      \* start of the background summary's interval
    bg_pending,         \* session_stats counts a background start or death
    last_event_epoch,
    pass                \* the dispatches of the last handler's pipeline

tables == <<pid_to_pkg, pkg_to_pids>>
screen == <<screen_on, screen_on_start, screen_off_start>>
game == <<is_gaming, game_session_start>>
lists == <<config, user_exclusions, dynamic_exclusions, games>>
vars == <<lists, alive_apps, tables, pkg_to_uid, recent_deaths, fg_lru,
          current_fg, screen, game, session_start, bg_pending,
          last_event_epoch, pass>>

-----------------------------------------------------------------------------
(* Arithmetic on u64 timestamps.                                           *)

saturating_sub(a, b) == IF a >= b THEN a - b ELSE 0

\* Mutant: the compensation does not stop at zero.
UnsaturatedAdd(t, j) == t + j

saturating_add_signed(t, j) == IF t + j >= 0 THEN t + j ELSE 0

\* Whole seconds from t to now.
ElapsedSec(now, t) == saturating_sub(now, t) \div SecMs

\* The same for an Option: unwrap_or_default.
ElapsedSecOpt(now, t) == IF t = None THEN 0 ELSE ElapsedSec(now, t)

SmallerOf(a, b) == IF a <= b THEN a ELSE b

-----------------------------------------------------------------------------
(* Wall-clock steps.  A backward step and the one jump out of the pre-sync *)
(* band are steps; every other gap between two lines is elapsed time.      *)

\* Mutant: leaving the pre-sync band counts as elapsed time.
BackwardStepOnly(prev, now) == IF prev # 0 /\ now < prev THEN now - prev ELSE 0

clock_jump_ms(prev, now) ==
    IF prev = 0 THEN 0
    ELSE IF now < prev \/ (prev < RTC_SYNC_FLOOR_MS /\ now >= RTC_SYNC_FLOOR_MS)
         THEN now - prev
         ELSE 0

\* What apply_clock_jump makes of one Option and of one table of anchors.
Shifted(t, now) ==
    IF t = None THEN None
    ELSE saturating_add_signed(t, clock_jump_ms(last_event_epoch, now))

ShiftedAll(table, now) == [k \in DOMAIN table |-> Shifted(table[k], now)]

-----------------------------------------------------------------------------

\* Mutant: only the foreground package is exempt.
ExclusionsIgnored(pkg, fg) == pkg = fg

\* Mutant: the foreground package is not exempt.
ForegroundNotExempt(pkg, fg) == pkg \in user_exclusions \cup dynamic_exclusions

is_excluded(pkg, fg) ==
    pkg \in user_exclusions \cup dynamic_exclusions \cup {fg}
=============================================================================
