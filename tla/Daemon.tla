------------------------------- MODULE Daemon -------------------------------
(***************************************************************************)
(* The decision core of mini-lmk: DaemonState with every handler that      *)
(* changes it, one action per logcat line or inotify reload (daemon.rs).   *)
(* The daemon is single-threaded, so a handler is one step; what is        *)
(* concurrent is the device: lines, stamps, /proc and files are inputs.    *)
(***************************************************************************)
EXTENDS Events

\* What /proc, the display and the configuration files may show at startup.
seed_initial_state ==
    /\ pid_to_pkg \in [Pid -> Pkg \cup {None}]
    /\ pkg_to_pids = [k \in Pkg |-> {p \in Pid : pid_to_pkg[p] = k}]
    /\ pkg_to_uid \in [Pkg -> Uid \cup {None}]
    /\ \A k \in Pkg : pkg_to_uid[k] = None <=> pkg_to_pids[k] = {}

\* DaemonState::new, but for the scan of /proc.
new ==
    /\ config \in Config
    /\ user_exclusions \in ExcludeList
    /\ games \in GamesList
    /\ dynamic_exclusions \in SUBSET Pkg
    /\ alive_apps = [k \in Pkg |-> None]
    /\ recent_deaths = [k \in Pkg |-> None]
    /\ fg_lru = <<>>
    /\ current_fg = None
    /\ last_event_epoch \in Epoch
    /\ session_start = last_event_epoch
    /\ screen_on \in BOOLEAN
    /\ screen_on_start = IF screen_on THEN last_event_epoch ELSE None
    /\ screen_off_start = IF screen_on THEN None ELSE last_event_epoch
    /\ is_gaming = FALSE
    /\ game_session_start = None
    /\ bg_pending = FALSE
    /\ pass = {}

Init == new /\ seed_initial_state

\* The heartbeat of light Doze runs the pipeline while harvesting.
on_device_idle_light_step(now) ==
    /\ Stamp(now)
    /\ ScreenShifted(now)
    /\ GameShifted(now)
    /\ IntervalShifted(now, bg_pending)
    /\ recent_deaths' = ShiftedAll(recent_deaths, now)
    /\ UNCHANGED <<fg_lru, current_fg, pkg_to_uid>>
    /\ LET alive == ShiftedAll(alive_apps, now)
       IN  IF ~screen_on /\ config.screen_off_harvest
           THEN evaluate_reaping_pipeline(now, alive, pid_to_pkg, pkg_to_pids)
           ELSE NoPass(alive, pid_to_pkg, pkg_to_pids)

\* reload_configs rereads three files; nothing else is derived from them
\* until the next handler.
reload_configs ==
    /\ config' \in Config
    /\ user_exclusions' \in ExcludeList
    /\ games' \in GamesList
    /\ pass' = {}
    /\ UNCHANGED <<dynamic_exclusions, alive_apps, tables, pkg_to_uid,
                   recent_deaths, fg_lru, current_fg, screen, game,
                   session_start, bg_pending, last_event_epoch>>

dispatch_logcat_line ==
    \E now \in Epoch :
        \/ \E pkg \in Pkg : on_resume_activity(now, pkg)
        \/ \E pid \in Pid, uid \in Uid, pkg \in Pkg, top \in BOOLEAN :
             on_proc_start(now, pid, uid, pkg, top)
        \/ \E pid \in Pid : on_proc_died(now, pid)
        \/ \E on \in BOOLEAN : on_screen_toggled(now, on)
        \/ on_device_idle_light_step(now)

Next == dispatch_logcat_line \/ reload_configs

Spec == Init /\ [][Next]_vars

-----------------------------------------------------------------------------
(* Types.                                                                  *)

AnchorTable == [Pkg -> Nat \cup {None}]

\* Every field of DaemonState keeps its type; fg_lru is a sequence of packages.
TypeOK ==
    /\ config \in Config
    /\ user_exclusions \subseteq Pkg
    /\ dynamic_exclusions \subseteq Pkg
    /\ games \subseteq Pkg
    /\ alive_apps \in AnchorTable
    /\ pid_to_pkg \in [Pid -> Pkg \cup {None}]
    /\ pkg_to_pids \in [Pkg -> SUBSET Pid]
    /\ pkg_to_uid \in [Pkg -> Uid \cup {None}]
    /\ recent_deaths \in AnchorTable
    /\ fg_lru \in Seq(Pkg)
    /\ current_fg \in Pkg \cup {None}
    /\ screen_on \in BOOLEAN
    /\ screen_on_start \in Nat \cup {None}
    /\ screen_off_start \in Nat \cup {None}
    /\ is_gaming \in BOOLEAN
    /\ game_session_start \in Nat \cup {None}
    /\ session_start \in Nat
    /\ bg_pending \in BOOLEAN
    /\ last_event_epoch \in Nat
    /\ pass \subseteq [pkg : Pkg, ams_protected : BOOLEAN]

-----------------------------------------------------------------------------
(* Safety.                                                                 *)

\* A pid the daemon attributes to a package is in that package's pid set,
\* through starts, deaths, pid reuse and the purge of dead pids.  A death
\* is therefore always charged to a set that exists (on_proc_died).
ForwardIndexSound ==
    \A p \in Pid : pid_to_pkg[p] # None => p \in pkg_to_pids[pid_to_pkg[p]]

\* The foreground history holds a package once, and unless it is empty the
\* foreground package leads it: with depth 1 the shield is exactly that
\* package, whatever was trampolined, popped or reconfigured before.
ForegroundLeadsHistory ==
    /\ \A i, j \in 1..Len(fg_lru) : fg_lru[i] = fg_lru[j] => i = j
    /\ fg_lru # <<>> => fg_lru[1] = current_fg

\* A game session is open exactly while the daemon believes a game is in
\* front, and a display interval is open on exactly the side the display is.
SessionsPaired ==
    /\ is_gaming <=> game_session_start # None
    /\ screen_on <=> screen_on_start # None
    /\ screen_on <=> screen_off_start = None

NotAhead(t) == t # None => t <= last_event_epoch

\* No stored time is ahead of the clock after any wall-clock step, so no
\* saturating subtraction of the pipeline ever hides a negative age.
AnchorsInPast ==
    /\ \A k \in Pkg : NotAhead(alive_apps[k]) /\ NotAhead(recent_deaths[k])
    /\ NotAhead(screen_on_start)
    /\ NotAhead(screen_off_start)
    /\ NotAhead(game_session_start)
    /\ NotAhead(session_start)
=============================================================================
