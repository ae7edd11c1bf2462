------------------------------- MODULE Events -------------------------------
(***************************************************************************)
(* The event handlers (events.rs), each together with the clock            *)
(* compensation dispatch_logcat_line (daemon.rs) applies before calling    *)
(* it: a handler of a line stamped `now` works on anchors already shifted. *)
(***************************************************************************)
EXTENDS Kill

\* The part of a line's effect that no handler refines: the clock is
\* advanced; configuration and exclusion lists are not touched.
Stamp(now) ==
    /\ last_event_epoch' = now
    /\ UNCHANGED lists

\* emit_bg_summary: nothing to report leaves the interval open.
emit_bg_summary(now, pending) ==
    /\ session_start' = IF pending THEN now ELSE Shifted(session_start, now)
    /\ bg_pending' = FALSE

\* Mutant: the compensation forgets the start of the screen-off interval.
ScreenHalfShifted(now) ==
    /\ screen_on' = screen_on
    /\ screen_on_start' = Shifted(screen_on_start, now)
    /\ screen_off_start' = screen_off_start

\* The sessions a handler leaves alone are shifted only.
ScreenShifted(now) ==
    /\ screen_on' = screen_on
    /\ screen_on_start' = Shifted(screen_on_start, now)
    /\ screen_off_start' = Shifted(screen_off_start, now)

GameShifted(now) ==
    /\ is_gaming' = is_gaming
    /\ game_session_start' = Shifted(game_session_start, now)

IntervalShifted(now, pending) ==
    /\ session_start' = Shifted(session_start, now)
    /\ bg_pending' = pending

-----------------------------------------------------------------------------

\* A sequence without its (first) occurrence of k.
Without(lru, k) ==
    IF \E i \in 1..Len(lru) : lru[i] = k
    THEN LET pos == CHOOSE i \in 1..Len(lru) :
                        /\ lru[i] = k
                        /\ \A j \in 1..Len(lru) : lru[j] = k => i <= j
         IN  [i \in 1..(Len(lru) - 1) |-> IF i < pos THEN lru[i] ELSE lru[i + 1]]
    ELSE lru

\* Mutant: a package already in the history is pushed again.
PushedAgain(lru, k, max_depth) ==
    LET pushed == <<k>> \o lru
    IN  IF Len(pushed) > max_depth THEN SubSeq(pushed, 1, max_depth) ELSE pushed

\* k moved to the front, or pushed there: one push pops at most one entry.
Promoted(lru, k, max_depth) ==
    LET rest == Without(lru, k)
        pushed == [i \in 1..(Len(rest) + 1) |-> IF i = 1 THEN k ELSE rest[i - 1]]
        known == \E i \in 1..Len(lru) : lru[i] = k
    IN  IF ~known /\ Len(pushed) > max_depth
        THEN [i \in 1..Len(rest) |-> pushed[i]]
        ELSE pushed

\* Mutant: a departing package that is already tracked keeps its old anchor.
DepartingUntracked(pkg) ==
    {k \in Pkg \ {pkg} : k = current_fg /\ pkg_to_uid[k] = "app" /\ alive_apps[k] = None}

\* The package that leaves the foreground when pkg comes to it, provided
\* its recorded uid lets it be tracked.
Departing(pkg) ==
    {k \in Pkg \ {pkg} : k = current_fg /\ pkg_to_uid[k] = "app"}

\* Mutant: the end of a game leaves its session open.
GameLeftOpen(now, pkg) ==
    /\ is_gaming' = (pkg \in games)
    /\ game_session_start' = IF pkg \in games /\ ~is_gaming THEN now
                             ELSE Shifted(game_session_start, now)

\* A game session opens and closes with the games in front, and spans a
\* switch between two games.
GameSwitched(now, pkg) ==
    /\ is_gaming' = (pkg \in games)
    /\ game_session_start' =
         IF pkg \in games
         THEN IF is_gaming THEN Shifted(game_session_start, now) ELSE now
         ELSE IF is_gaming THEN None ELSE Shifted(game_session_start, now)

on_resume_activity(now, pkg) ==
    LET alive == ShiftedAll(alive_apps, now)
        stay(k) == IF alive[k] = None THEN 0 ELSE saturating_sub(now, alive[k])
        trampoline == {k \in Departing(pkg) : 0 < stay(k) /\ stay(k) < TrampolineMs}
        stamped == [k \in Pkg |-> IF k \in Departing(pkg) THEN now ELSE alive[k]]
        kept == IF trampoline = {} THEN fg_lru ELSE Without(fg_lru, current_fg)
    IN  /\ Stamp(now)
        /\ ScreenShifted(now)
        /\ emit_bg_summary(now, bg_pending)
        /\ fg_lru' = Promoted(kept, pkg, config.fg_lru_max_depth)
        /\ current_fg' = pkg
        /\ GameSwitched(now, pkg)
        /\ recent_deaths' = ShiftedAll(recent_deaths, now)
        /\ UNCHANGED pkg_to_uid
        /\ IF current_fg # pkg
           THEN evaluate_reaping_pipeline(now, stamped, pid_to_pkg, pkg_to_pids)
           ELSE NoPass(stamped, pid_to_pkg, pkg_to_pids)

\* top: the spawn type is top-activity or next-top-activity.
on_proc_start(now, pid, uid, pkg, top) ==
    LET alive == ShiftedAll(alive_apps, now)
        tracked == IF uid = "app" /\ alive[pkg] = None
                   THEN [alive EXCEPT ![pkg] = now] ELSE alive
        pkg_of == [pid_to_pkg EXCEPT ![pid] = pkg]
        pids_of == [pkg_to_pids EXCEPT ![pkg] = @ \cup {pid}]
        is_fg == current_fg = pkg
    IN  /\ Stamp(now)
        /\ ScreenShifted(now)
        /\ GameShifted(now)
        /\ IntervalShifted(now, bg_pending \/ ~is_fg)
        /\ UNCHANGED <<fg_lru, current_fg>>
        /\ pkg_to_uid' = IF pkg_to_uid[pkg] = None
                         THEN [pkg_to_uid EXCEPT ![pkg] = uid] ELSE pkg_to_uid
        /\ recent_deaths' = [ShiftedAll(recent_deaths, now) EXCEPT ![pkg] = None]
        /\ IF uid = "app" /\ ~(is_fg \/ top)
           THEN evaluate_reaping_pipeline(now, tracked, pkg_of, pids_of)
           ELSE NoPass(tracked, pkg_of, pids_of)

\* Recording one more death prunes the expired ones once there are too many.
DeathRecorded(deaths, pkg, now) ==
    LET recorded == [deaths EXCEPT ![pkg] = now]
    IN  IF Cardinality({k \in Pkg : recorded[k] # None}) > DeathCap
        THEN [k \in Pkg |-> IF recorded[k] # None /\ saturating_sub(now, recorded[k]) > DeathTtlMs
                            THEN None ELSE recorded[k]]
        ELSE recorded

\* Mutant: a death leaves the pid set of its package alone.
DeathUnlisted(pid, pkg) == pkg_to_pids[pkg]

\* The pids a death of pid leaves the package.
Survivors(pid, pkg) == pkg_to_pids[pkg] \ {pid}

on_proc_died(now, pid) ==
    LET alive == ShiftedAll(alive_apps, now)
        deaths == ShiftedAll(recent_deaths, now)
        pkg == pid_to_pkg[pid]
        left == Survivors(pid, pkg)
    IN  /\ Stamp(now)
        /\ ScreenShifted(now)
        /\ GameShifted(now)
        /\ UNCHANGED <<fg_lru, current_fg, pkg_to_uid>>
        /\ IF pkg = None
           THEN /\ NoPass(alive, pid_to_pkg, pkg_to_pids)
                /\ recent_deaths' = deaths
                /\ IntervalShifted(now, bg_pending)
           ELSE /\ NoPass(IF left = {} THEN [alive EXCEPT ![pkg] = None] ELSE alive,
                          [pid_to_pkg EXCEPT ![pid] = None],
                          [pkg_to_pids EXCEPT ![pkg] = left])
                /\ recent_deaths' = DeathRecorded(deaths, pkg, now)
                /\ IntervalShifted(now, bg_pending \/ current_fg # pkg)

\* A toggle to the state the screen is already in is ignored.
on_screen_toggled(now, on) ==
    /\ Stamp(now)
    /\ GameShifted(now)
    /\ IF screen_on = on
       THEN ScreenShifted(now) /\ IntervalShifted(now, bg_pending)
       ELSE /\ emit_bg_summary(now, bg_pending)
            /\ screen_on' = on
            /\ screen_on_start' = IF on THEN now ELSE None
            /\ screen_off_start' = IF on THEN None ELSE now
    /\ recent_deaths' = ShiftedAll(recent_deaths, now)
    /\ UNCHANGED <<fg_lru, current_fg, pkg_to_uid>>
    /\ NoPass(ShiftedAll(alive_apps, now), pid_to_pkg, pkg_to_pids)
=============================================================================
