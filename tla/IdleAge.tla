------------------------------ MODULE IdleAge ------------------------------
(***************************************************************************)
(* What the daemon's idle ages are worth.  The code compares wall-clock    *)
(* stamps that settimeofday moves under it; this module adds to Daemon the *)
(* real time that must have passed, and the packages already dispatched,   *)
(* and says what the stored anchors promise about them.                    *)
(*                                                                         *)
(* Two assumptions about the device, both the code's own: the clock steps  *)
(* backward, or once out of the pre-sync band, and otherwise shows elapsed *)
(* time (the "known limitation" of clock_jump_ms; 0 is "clock              *)
(* unavailable"); and the processes of one package agree on being an       *)
(* application's or the system's (a package has one uid).                  *)
(***************************************************************************)
EXTENDS Daemon

CONSTANT MaxAge     \* bound on the recorded real time

ASSUME MaxAgeAssumption == MaxAge \in Nat

ASSUME PkgAssumption == IsFiniteSet(Pkg)

VARIABLES
    since_use,  \* the least real time since the package left the
                \* foreground, or since the daemon began to track it
    signalled   \* dispatched, and neither started nor used since

avars == <<vars, since_use, signalled>>

\* The least real time between the previous line and one stamped `now`.
Elapsed(now) ==
    IF last_event_epoch < RTC_SYNC_FLOOR_MS /\ now >= RTC_SYNC_FLOOR_MS THEN 0
    ELSE saturating_sub(now, last_event_epoch)

\* The handler tracks a package it did not track before, be it that the
\* pipeline it ends with drops the package again.
ComesIntoView(k) ==
    alive_apps[k] = None /\ (alive_apps'[k] # None \/ \E r \in pass' : r.pkg = k)

\* The history of a line stamped `now` that shows the packages in `seen`
\* to be running or in use.
Record(now, seen) ==
    /\ since_use' = [k \in Pkg |->
         IF k = current_fg \/ ComesIntoView(k) THEN 0 ELSE since_use[k] + Elapsed(now)]
    /\ \A k \in Pkg : since_use'[k] <= MaxAge
    /\ signalled' = (signalled \ seen)
                      \cup {r.pkg : r \in {s \in pass' : ~s.ams_protected}}

AgedInit ==
    /\ Init
    /\ since_use = [k \in Pkg |-> 0]
    /\ signalled = {}

AgedResume(now, pkg) ==
    on_resume_activity(now, pkg) /\ Record(now, {current_fg})

AgedStart(now, pid, uid, pkg, top) ==
    /\ pkg_to_uid[pkg] \in {None, uid}
    /\ on_proc_start(now, pid, uid, pkg, top)
    /\ Record(now, {pkg})

AgedDied(now, pid) == on_proc_died(now, pid) /\ Record(now, {})

AgedScreen(now, on) == on_screen_toggled(now, on) /\ Record(now, {})

AgedDoze(now) == on_device_idle_light_step(now) /\ Record(now, {})

AgedReload == reload_configs /\ UNCHANGED <<since_use, signalled>>

AgedLine ==
    \E now \in Epoch \ {0} :
        \/ \E pkg \in Pkg : AgedResume(now, pkg)
        \/ \E pid \in Pid, uid \in Uid, pkg \in Pkg, top \in BOOLEAN :
             AgedStart(now, pid, uid, pkg, top)
        \/ \E pid \in Pid : AgedDied(now, pid)
        \/ \E on \in BOOLEAN : AgedScreen(now, on)
        \/ AgedDoze(now)

AgedNext == AgedLine \/ AgedReload

AgedSpec == AgedInit /\ [][AgedNext]_avars

-----------------------------------------------------------------------------

\* Whatever the clock did, the idle age the pipeline computes for a package
\* behind the foreground is at most the real time since it was last there
\* (or since it was first tracked): no clock step ages a package.
IdleAgeHonest ==
    \A k \in Pkg :
        alive_apps[k] # None /\ k # current_fg =>
            last_event_epoch - alive_apps[k] <= since_use[k]

\* A dispatched package has really been idle for the ceiling in force:
\* promotions, starts, screen toggles and reloads never shorten the wait.
DispatchedReallyIdle ==
    \A r \in pass' :
        \E is_low_mem \in check_mem_critical :
            since_use'[r.pkg] \div SecMs >=
                t_idle_effective_sec(last_event_epoch', alive_apps', is_low_mem)

NeverRushed == [][DispatchedReallyIdle]_avars

-----------------------------------------------------------------------------
(* The abstract specification.                                             *)

\* The shortest ceiling any situation imposes under a configuration.
ShortestCeiling(c) ==
    SmallerOf(c.t_idle_sec,
        SmallerOf(EscalatedIdleSec, SmallerOf(HarvestIdleSec, RelaxedIdleSec)))

R == INSTANCE Reclaim WITH
    Second <- SecMs,
    tracked <- {k \in Pkg : alive_apps[k] # None},
    front <- current_fg,
    rested <- since_use,
    shielded <- user_exclusions \cup dynamic_exclusions,
    patience <- ShortestCeiling(config),
    burst <- config.max_kills_per_pass,
    evictions <- pass

\* The handlers, with the clock, the history, the tables and the five
\* ceilings they keep, do what module Reclaim promises: whatever the order
\* of lines and clock steps, only tracked and rested packages behind the
\* foreground and outside the exclusion lists are evicted, and no more than
\* a burst.
ImplementsReclaim == R!Spec

-----------------------------------------------------------------------------

\* A package that was dispatched is out of the tracked set until a line
\* shows it again: one decision to evict is never taken twice.
SignalledOnce == \A k \in signalled : alive_apps[k] = None
=============================================================================
