--------------------------- MODULE IdleAge_proofs ---------------------------
(***************************************************************************)
(* Proofs about module IdleAge: the idle ages are honest, a dispatched     *)
(* package has really been idle, no package is dispatched twice, and the   *)
(* handlers implement the promise of module Reclaim.                       *)
(*                                                                         *)
(* Every handler ends the same way: it has a working table of anchors      *)
(* (shifted, then stamped), and hands it to the pipeline or stores it.     *)
(* `Worked` says what the six handlers make true of that table; the three  *)
(* properties follow from it once, not once per handler.                   *)
(***************************************************************************)
EXTENDS IdleAge, Daemon_proofs, FiniteSetTheorems

LEMMA DivMonotonic ==
    ASSUME NEW s \in Nat \ {0}, NEW a \in Nat, NEW b \in Nat, a <= b
    PROVE  a \div s <= b \div s
<1> DEFINE q == a \div s
           r == b \div s
<1>1. q \in Int /\ r \in Int /\ s * q <= a /\ b < s * (r + 1)
  OBVIOUS
<1> HIDE DEF q, r
<1>2. ASSUME r < q PROVE FALSE
  <2>1. r + 1 <= q
    BY <1>1, <1>2
  <2>2. s * (r + 1) <= s * q
    BY <1>1, <2>1
  <2> QED
    BY <1>1, <2>2
<1> QED
  BY <1>1, <1>2 DEF q, r

-----------------------------------------------------------------------------
(* Ages.                                                                   *)

AgesOK == since_use \in [Pkg -> Nat] /\ signalled \subseteq Pkg

\* Only application packages are tracked: the foreground package, if it is
\* tracked, will be stamped when it leaves.
TrackedUid == \A k \in Pkg : alive_apps[k] # None => pkg_to_uid[k] = "app"

\* Nothing is tracked before the first line, so nothing was stamped by a
\* clock that was not there.
ClockKnown == last_event_epoch = 0 => \A k \in Pkg : alive_apps[k] = None

AgeInv ==
    /\ TypeOK
    /\ AnchorsInPast
    /\ AgesOK
    /\ TrackedUid
    /\ ClockKnown
    /\ IdleAgeHonest
    /\ SignalledOnce

\* The working table of the handler of a line stamped `now`.
Worked(now, alive, seen) ==
    /\ alive \in AnchorTable
    /\ \A k \in Pkg : alive[k] \in {None, now, Shifted(alive_apps[k], now)}
    /\ \A k \in Pkg :
         k = current_fg /\ k # current_fg' /\ alive[k] # None => alive[k] = now
    /\ \A k \in Pkg \ seen : alive_apps[k] = None => alive[k] = None
    /\ \A k \in Pkg : alive[k] # None => pkg_to_uid'[k] = "app"

\* What the handler does with it.
Handed(now, alive) ==
    \E pkg_of : \E pids_of \in PidSets :
        \/ evaluate_reaping_pipeline(now, alive, pkg_of, pids_of)
        \/ NoPass(alive, pkg_of, pids_of)

LEMMA ShiftedWorked ==
    ASSUME AgeInv, NEW now \in Nat
    PROVE  /\ ShiftedAll(alive_apps, now) \in AnchorTable
           /\ \A k \in Pkg : ShiftedAll(alive_apps, now)[k] = Shifted(alive_apps[k], now)
           /\ \A k \in Pkg : ShiftedAll(alive_apps, now)[k] = None <=> alive_apps[k] = None
<1>1. last_event_epoch \in Nat /\ alive_apps \in AnchorTable
      /\ \A k \in Pkg : alive_apps[k] \in Nat \cup {None}
  BY DEF AgeInv, TypeOK, AnchorTable
<1>2. \A t \in Nat \cup {None} : Shifted(t, now) = None <=> t = None
  BY <1>1, ShiftedPast
<1>3. /\ ShiftedAll(alive_apps, now) \in AnchorTable
      /\ \A k \in Pkg : ShiftedAll(alive_apps, now)[k] = Shifted(alive_apps[k], now)
  BY <1>1, ShiftedAllType
<1> QED
  BY <1>1, <1>2, <1>3

LEMMA ResumeWorked ==
    ASSUME AgeInv, NEW now \in Epoch, NEW pkg \in Pkg, on_resume_activity(now, pkg)
    PROVE  \E alive : Worked(now, alive, {current_fg}) /\ Handed(now, alive)
<1> DEFINE alive == ShiftedAll(alive_apps, now)
           stamped == [k \in Pkg |-> IF k \in Departing(pkg) THEN now ELSE alive[k]]
<1>1. now \in Nat /\ now # None
  BY ParameterAssumption, NoneAssumption
<1>2. /\ alive \in AnchorTable
      /\ \A k \in Pkg : alive[k] = Shifted(alive_apps[k], now)
      /\ \A k \in Pkg : alive[k] = None <=> alive_apps[k] = None
  BY <1>1, ShiftedWorked
<1> HIDE DEF alive
<1>3. Worked(now, stamped, {current_fg})
  <2>1. stamped \in AnchorTable
    BY <1>1, <1>2 DEF AnchorTable
  <2>2. \A k \in Pkg : stamped[k] \in {None, now, Shifted(alive_apps[k], now)}
    BY <1>2
  <2>3. current_fg' = pkg /\ pkg_to_uid' = pkg_to_uid
    BY DEF on_resume_activity
  <2>4. \A k \in Pkg : stamped[k] # None => pkg_to_uid'[k] = "app"
    BY <1>2, <2>3 DEF AgeInv, TrackedUid, Departing
  <2>5. \A k \in Pkg : k = current_fg /\ k # current_fg' /\ stamped[k] # None => stamped[k] = now
    BY <2>3, <2>4 DEF Departing
  <2>6. \A k \in Pkg \ {current_fg} : alive_apps[k] = None => stamped[k] = None
    BY <1>2 DEF Departing
  <2> QED
    BY <2>1, <2>2, <2>4, <2>5, <2>6 DEF Worked
<1>4. Handed(now, stamped)
  BY DEF on_resume_activity, Handed, AgeInv, TypeOK, PidSets, alive
<1> QED
  BY <1>3, <1>4

LEMMA StartWorked ==
    ASSUME AgeInv, NEW now \in Epoch, NEW pid \in Pid, NEW uid \in Uid, NEW pkg \in Pkg,
           NEW top \in BOOLEAN, on_proc_start(now, pid, uid, pkg, top),
           pkg_to_uid[pkg] \in {None, uid}
    PROVE  \E alive : Worked(now, alive, {pkg}) /\ Handed(now, alive)
<1> DEFINE alive == ShiftedAll(alive_apps, now)
           tracked == IF uid = "app" /\ alive[pkg] = None
                      THEN [alive EXCEPT ![pkg] = now] ELSE alive
           pkg_of == [pid_to_pkg EXCEPT ![pid] = pkg]
           pids_of == [pkg_to_pids EXCEPT ![pkg] = @ \cup {pid}]
<1>1. now \in Nat /\ now # None
  BY ParameterAssumption, NoneAssumption
<1>2. /\ alive \in AnchorTable
      /\ \A k \in Pkg : alive[k] = Shifted(alive_apps[k], now)
      /\ \A k \in Pkg : alive[k] = None <=> alive_apps[k] = None
  BY <1>1, ShiftedWorked
<1>3. Handed(now, tracked)
  <2>1. pids_of \in PidSets
    BY DEF AgeInv, TypeOK, PidSets
  <2>2. \/ evaluate_reaping_pipeline(now, tracked, pkg_of, pids_of)
        \/ NoPass(tracked, pkg_of, pids_of)
    BY DEF on_proc_start
  <2> HIDE DEF tracked, pkg_of, pids_of
  <2> QED
    BY <2>1, <2>2 DEF Handed
<1> HIDE DEF alive
<1>4. Worked(now, tracked, {pkg})
  <2>1. tracked \in AnchorTable
    BY <1>1, <1>2 DEF AnchorTable
  <2>2. \A k \in Pkg : tracked[k] \in {None, now, Shifted(alive_apps[k], now)}
    BY <1>2 DEF AnchorTable
  <2>3. current_fg' = current_fg
    BY DEF on_proc_start
  <2>4. \A k \in Pkg : k # pkg => tracked[k] = alive[k]
    BY <1>2 DEF AnchorTable
  <2>5. pkg_to_uid'[pkg] = uid /\ \A k \in Pkg : k # pkg => pkg_to_uid'[k] = pkg_to_uid[k]
    BY NoneAssumption DEF on_proc_start, AgeInv, TypeOK
  <2>6. tracked[pkg] # None => uid = "app"
    <3>1. uid # "app" => tracked[pkg] = alive[pkg]
      OBVIOUS
    <3>2. alive[pkg] # None => uid = "app"
      BY <1>2, NoneAssumption DEF AgeInv, TrackedUid, Uid
    <3> HIDE DEF tracked
    <3> QED
      BY <3>1, <3>2
  <2>7. \A k \in Pkg : tracked[k] # None => pkg_to_uid'[k] = "app"
    BY <1>2, <2>4, <2>5, <2>6 DEF AgeInv, TrackedUid
  <2>8. \A k \in Pkg \ {pkg} : alive_apps[k] = None => tracked[k] = None
    BY <1>2, <2>4
  <2> QED
    BY <2>1, <2>2, <2>3, <2>7, <2>8 DEF Worked
<1> QED
  BY <1>3, <1>4

LEMMA DiedWorked ==
    ASSUME AgeInv, NEW now \in Epoch, NEW pid \in Pid, on_proc_died(now, pid)
    PROVE  \E alive : Worked(now, alive, {}) /\ Handed(now, alive)
<1> DEFINE alive == ShiftedAll(alive_apps, now)
           pkg == pid_to_pkg[pid]
<1>1. now \in Nat /\ now # None
  BY ParameterAssumption, NoneAssumption
<1>2. /\ alive \in AnchorTable
      /\ \A k \in Pkg : alive[k] = Shifted(alive_apps[k], now)
      /\ \A k \in Pkg : alive[k] = None <=> alive_apps[k] = None
  BY <1>1, ShiftedWorked
<1>3. PICK survivors \in {alive, [alive EXCEPT ![pkg] = None]} : Handed(now, survivors)
  <2>1. pkg \in Pkg \cup {None} /\ pkg_to_pids \in PidSets
    BY DEF AgeInv, TypeOK, PidSets
  <2>2. CASE pkg = None
    BY <2>1, <2>2 DEF on_proc_died, Survivors, Handed
  <2>3. CASE pkg # None
    <3> DEFINE left == pkg_to_pids[pkg] \ {pid}
               pids_of == [pkg_to_pids EXCEPT ![pkg] = left]
               kept == IF left = {} THEN [alive EXCEPT ![pkg] = None] ELSE alive
    <3>1. pids_of \in PidSets
      BY <2>1, <2>3 DEF PidSets
    <3>2. NoPass(kept, [pid_to_pkg EXCEPT ![pid] = None], pids_of)
      BY <2>3 DEF on_proc_died, Survivors
    <3> HIDE DEF pids_of, alive
    <3> QED
      BY <3>1, <3>2 DEF Handed
  <2> QED
    BY <2>2, <2>3
<1> HIDE DEF alive, pkg
<1>4. \A k \in Pkg : survivors[k] \in {None, alive[k]}
  BY <1>2, <1>3 DEF AnchorTable
<1>5. survivors \in AnchorTable
  BY <1>2, <1>3 DEF AnchorTable
<1>6. current_fg' = current_fg /\ pkg_to_uid' = pkg_to_uid
  BY DEF on_proc_died, Survivors
<1>7. Worked(now, survivors, {})
  BY <1>2, <1>4, <1>5, <1>6 DEF Worked, AgeInv, TrackedUid
<1> QED
  BY <1>3, <1>7

LEMMA QuietWorked ==
    ASSUME AgeInv, NEW now \in Epoch,
           on_device_idle_light_step(now) \/ \E on \in BOOLEAN : on_screen_toggled(now, on)
    PROVE  \E alive : Worked(now, alive, {}) /\ Handed(now, alive)
<1> DEFINE alive == ShiftedAll(alive_apps, now)
<1>1. /\ alive \in AnchorTable
      /\ \A k \in Pkg : alive[k] = Shifted(alive_apps[k], now)
      /\ \A k \in Pkg : alive[k] = None <=> alive_apps[k] = None
  BY ParameterAssumption, ShiftedWorked
<1>2. Handed(now, alive)
  BY DEF on_device_idle_light_step, on_screen_toggled, Handed, AgeInv, TypeOK, PidSets
<1>3. current_fg' = current_fg /\ pkg_to_uid' = pkg_to_uid
  BY DEF on_device_idle_light_step, on_screen_toggled
<1> HIDE DEF alive
<1>4. Worked(now, alive, {})
  BY <1>1, <1>3 DEF Worked, AgeInv, TrackedUid
<1> QED
  BY <1>2, <1>4

-----------------------------------------------------------------------------
(* What a handler's working table promises.                                *)

\* Up to the pipeline, the table is honest: a package behind the foreground
\* appears no older than it really is.
LEMMA WorkingHonest ==
    ASSUME AgeInv, NEW now \in Epoch \ {0}, NEW alive, NEW seen,
           Worked(now, alive, seen), Record(now, seen)
    PROVE  \A k \in Pkg : alive[k] # None /\ k # current_fg' =>
             /\ since_use'[k] \in Nat
             /\ alive[k] \in Nat
             /\ alive[k] <= now
             /\ now - alive[k] <= since_use'[k]
<1> SUFFICES ASSUME NEW k \in Pkg, alive[k] # None, k # current_fg'
             PROVE  /\ since_use'[k] \in Nat
                    /\ alive[k] \in Nat
                    /\ alive[k] <= now
                    /\ now - alive[k] <= since_use'[k]
  OBVIOUS
<1>1. now \in Nat /\ now # 0 /\ last_event_epoch \in Nat /\ alive_apps[k] \in Nat \cup {None}
  BY ParameterAssumption DEF AgeInv, TypeOK, AnchorTable
<1>2. Elapsed(now) \in Nat
  BY <1>1 DEF Elapsed, saturating_sub
<1>3. since_use[k] \in Nat
  BY DEF AgeInv, AgesOK
<1>4. since_use'[k] \in Nat
  BY <1>2, <1>3 DEF Record
<1>5. CASE alive[k] = now
  BY <1>1, <1>4, <1>5
<1>6. CASE alive[k] # now
  <2>1. alive[k] = Shifted(alive_apps[k], now) /\ alive_apps[k] # None
    BY <1>6 DEF Worked, Shifted
  <2>2. k # current_fg
    BY <1>6 DEF Worked
  <2>3. since_use'[k] = since_use[k] + Elapsed(now)
    BY <2>1, <2>2 DEF Record, ComesIntoView
  <2>4. last_event_epoch # 0
    BY <2>1 DEF AgeInv, ClockKnown
  <2>5. /\ alive_apps[k] <= last_event_epoch
        /\ last_event_epoch - alive_apps[k] <= since_use[k]
    BY <2>1, <2>2 DEF AgeInv, AnchorsInPast, NotAhead, IdleAgeHonest
  <2>6. alive[k] \in Nat /\ alive[k] <= now
    BY <1>1, <2>1, <2>5, ShiftedPast
  <2>7. now - alive[k] <= (last_event_epoch - alive_apps[k]) + Elapsed(now)
    BY <1>1, <2>1, <2>4, <2>5, ThresholdAssumption
       DEF Shifted, clock_jump_ms, saturating_add_signed, Elapsed, saturating_sub
  <2> QED
    BY <1>1, <1>2, <1>3, <1>4, <2>1, <2>3, <2>5, <2>6, <2>7
<1> QED
  BY <1>5, <1>6

LEMMA HandedAnchors ==
    ASSUME NEW now, NEW alive \in AnchorTable, Handed(now, alive)
    PROVE  \A k \in Pkg : alive_apps'[k] \in {None, now, alive[k]}
BY PassAnchors DEF Handed, NoPass

\* A pass unprotects what it drops, and only anchors what was tracked.
LEMMA PassDispatch ==
    ASSUME NEW now, NEW alive \in AnchorTable, NEW pkg_of, NEW pids_of \in PidSets,
           evaluate_reaping_pipeline(now, alive, pkg_of, pids_of),
           current_fg' \in Pkg \cup {None}
    PROVE  /\ \A k \in Pkg : alive[k] = None => alive_apps'[k] = None
           /\ \A r \in pass' : ~r.ams_protected => alive_apps'[r.pkg] = None
           /\ \A r \in pass' : r.pkg \in Pkg
           /\ current_fg' # None => alive_apps'[current_fg'] = alive[current_fg']
           /\ \E is_low_mem \in check_mem_critical :
                \A r \in pass' : r.pkg \in Expired(now, alive, is_low_mem)
<1>1. PICK is_low_mem \in check_mem_critical :
        \E readable \in SUBSET Pid, taken \in SUBSET Expired(now, alive, is_low_mem) :
          \E protected \in SUBSET taken :
            Reaped(now, alive, pkg_of, pids_of, Expired(now, alive, is_low_mem),
                   readable, taken, protected)
  BY PassShape DEF PidSets
<1> DEFINE expired == Expired(now, alive, is_low_mem)
<1>2. /\ expired \subseteq Pkg
      /\ \A k \in expired : alive[k] # None /\ k # current_fg'
  BY DEF Expired, is_excluded
<1> HIDE DEF expired
<1>3. PICK readable \in SUBSET Pid, taken \in SUBSET expired :
        \E protected \in SUBSET taken :
          Reaped(now, alive, pkg_of, pids_of, expired, readable, taken, protected)
  BY <1>1 DEF expired
<1>4. PICK protected \in SUBSET taken :
        Reaped(now, alive, pkg_of, pids_of, expired, readable, taken, protected)
  BY <1>3
<1>5. ASSUME NEW r \in pass'
      PROVE  r.pkg \in taken /\ (~r.ams_protected => r.pkg \notin protected)
  <2>1. PICK k \in taken : r = [pkg |-> k, ams_protected |-> k \in protected]
    BY <1>4, Zenon DEF Reaped, Purged, Retained
  <2>2. r.pkg = k
    BY <2>1
  <2>3. r.ams_protected = (k \in protected)
    BY <2>1, Zenon
  <2> QED
    BY <2>2, <2>3
<1>6. \A k \in Pkg : alive_apps'[k] =
        IF k \in taken THEN dispatch_candidate(now, k \in protected)
        ELSE IF k \in expired /\ pids_of[k] \cap readable = {} THEN None
        ELSE alive[k]
  BY <1>4 DEF Reaped, Purged, Retained
<1>7. \A k \in Pkg : alive[k] = None => alive_apps'[k] = None
  BY <1>2, <1>6
<1>8. \A k \in taken \ protected : alive_apps'[k] = None
  BY <1>2, <1>6 DEF dispatch_candidate
<1>9. current_fg' # None => alive_apps'[current_fg'] = alive[current_fg']
  BY <1>2, <1>6
<1> QED
  BY <1>2, <1>5, <1>7, <1>8, <1>9 DEF expired

-----------------------------------------------------------------------------
(* One step.                                                               *)

\* What a line leaves behind, given what its handler made of the anchors.
LEMMA LineStep ==
    ASSUME AgeInv, TypeOK', AnchorsInPast', NEW now \in Epoch \ {0}, NEW seen,
           last_event_epoch' = now, Record(now, seen),
           NEW alive, Worked(now, alive, seen), Handed(now, alive)
    PROVE  AgeInv' /\ DispatchedReallyIdle
<1>1. now \in Nat /\ now # 0
  BY ParameterAssumption
<1>2. \A k \in Pkg : alive[k] # None /\ k # current_fg' =>
        /\ since_use'[k] \in Nat
        /\ alive[k] \in Nat
        /\ alive[k] <= now
        /\ now - alive[k] <= since_use'[k]
  BY WorkingHonest
<1>3. alive \in AnchorTable
  BY DEF Worked
<1>4. \A k \in Pkg : alive_apps'[k] \in {None, now, alive[k]}
  BY <1>3, HandedAnchors
<1>5. /\ \A k \in Pkg : alive[k] = None => alive_apps'[k] = None
      /\ \A r \in pass' : ~r.ams_protected => alive_apps'[r.pkg] = None
      /\ pass' = {} \/ \E is_low_mem \in check_mem_critical :
           /\ \A r \in pass' : r.pkg \in Expired(now, alive, is_low_mem)
           /\ current_fg' # None => alive_apps'[current_fg'] = alive[current_fg']
  <2>1. current_fg' \in Pkg \cup {None}
    BY DEF TypeOK
  <2>2. PICK pkg_of, pids_of : /\ pids_of \in PidSets
                               /\ \/ evaluate_reaping_pipeline(now, alive, pkg_of, pids_of)
                                  \/ NoPass(alive, pkg_of, pids_of)
    BY DEF Handed
  <2>3. CASE NoPass(alive, pkg_of, pids_of)
    BY <2>3 DEF NoPass
  <2>4. CASE evaluate_reaping_pipeline(now, alive, pkg_of, pids_of)
    BY <1>3, <2>1, <2>2, <2>4, PassDispatch
  <2> QED
    BY <2>2, <2>3, <2>4
<1>6. AgesOK'
  <2>1. Elapsed(now) \in Nat
    BY <1>1 DEF Elapsed, saturating_sub, AgeInv, TypeOK
  <2>2. \A r \in pass' : r.pkg \in Pkg
    BY DEF TypeOK
  <2> QED
    BY <2>1, <2>2 DEF Record, AgeInv, AgesOK
<1>7. TrackedUid'
  BY <1>5 DEF TrackedUid, Worked
<1>8. IdleAgeHonest'
  <2> SUFFICES ASSUME NEW k \in Pkg, alive_apps'[k] # None, k # current_fg'
               PROVE  now - alive_apps'[k] <= since_use'[k]
    BY DEF IdleAgeHonest
  <2>1. alive[k] # None
    BY <1>5
  <2>2. CASE alive_apps'[k] = now
    BY <1>1, <1>2, <2>1, <2>2
  <2>3. CASE alive_apps'[k] = alive[k]
    BY <1>2, <2>1, <2>3
  <2> QED
    BY <1>4, <2>2, <2>3
<1>9. SignalledOnce'
  <2> SUFFICES ASSUME NEW k \in signalled' PROVE alive_apps'[k] = None
    BY DEF SignalledOnce
  <2>1. CASE k \in signalled \ seen
    BY <1>5, <2>1 DEF AgeInv, AgesOK, SignalledOnce, Worked
  <2>2. CASE \E r \in pass' : ~r.ams_protected /\ k = r.pkg
    BY <1>5, <2>2
  <2> QED
    BY <2>1, <2>2 DEF Record
<1>10. DispatchedReallyIdle
  <2>1. CASE pass' = {}
    BY <2>1 DEF DispatchedReallyIdle
  <2>2. CASE \E is_low_mem \in check_mem_critical :
               /\ \A r \in pass' : r.pkg \in Expired(now, alive, is_low_mem)
               /\ current_fg' # None => alive_apps'[current_fg'] = alive[current_fg']
    <3>1. PICK is_low_mem \in check_mem_critical :
               /\ \A r \in pass' : r.pkg \in Expired(now, alive, is_low_mem)
               /\ current_fg' # None => alive_apps'[current_fg'] = alive[current_fg']
      BY <2>2
    <3>2. t_idle_effective_sec(now, alive_apps', is_low_mem)
            = t_idle_effective_sec(now, alive, is_low_mem)
      BY <3>1 DEF t_idle_effective_sec
    <3> SUFFICES ASSUME NEW r \in pass'
                 PROVE  since_use'[r.pkg] \div SecMs >=
                          t_idle_effective_sec(now, alive_apps', is_low_mem)
      BY <3>1 DEF DispatchedReallyIdle
    <3>3. /\ r.pkg \in Pkg
          /\ alive[r.pkg] # None
          /\ r.pkg # current_fg'
          /\ ElapsedSec(now, alive[r.pkg]) >= t_idle_effective_sec(now, alive, is_low_mem)
      BY <3>1 DEF Expired, is_excluded
    <3>4. /\ since_use'[r.pkg] \in Nat
          /\ now - alive[r.pkg] \in Nat
          /\ now - alive[r.pkg] <= since_use'[r.pkg]
          /\ saturating_sub(now, alive[r.pkg]) = now - alive[r.pkg]
      BY <1>1, <1>2, <3>3 DEF saturating_sub
    <3>5. (now - alive[r.pkg]) \div SecMs <= since_use'[r.pkg] \div SecMs
      BY <3>4, DivMonotonic, ThresholdAssumption
    <3>6. ElapsedSec(now, alive[r.pkg]) = (now - alive[r.pkg]) \div SecMs
      BY <3>4 DEF ElapsedSec
    <3>7. /\ (now - alive[r.pkg]) \div SecMs \in Int
          /\ since_use'[r.pkg] \div SecMs \in Int
      BY <3>4, ThresholdAssumption
    <3>8. t_idle_effective_sec(now, alive, is_low_mem) \in Nat
      BY ThresholdAssumption, ParameterAssumption
         DEF t_idle_effective_sec, SmallerOf, AgeInv, TypeOK, RuntimeConfig
    <3> QED
      BY <3>2, <3>3, <3>5, <3>6, <3>7, <3>8
  <2> QED
    BY <1>5, <2>1, <2>2
<1> QED
  BY <1>1, <1>6, <1>7, <1>8, <1>9, <1>10 DEF AgeInv, ClockKnown

\* A reload leaves ages, anchors and the clock alone, and dispatches nothing.
LEMMA ReloadStep ==
    ASSUME AgeInv, TypeOK', AnchorsInPast', AgedReload \/ UNCHANGED avars
    PROVE  AgeInv'
BY DEF AgedReload, reload_configs, avars, vars, tables, AgeInv, AgesOK, TrackedUid,
   ClockKnown, IdleAgeHonest, SignalledOnce

\* A history step is a step of the daemon.
LEMMA AgedIsNext == [AgedNext]_avars => [Next]_vars
BY DEF AgedNext, AgedLine, AgedResume, AgedStart, AgedDied, AgedScreen, AgedDoze,
   AgedReload, Next, dispatch_logcat_line, avars

LEMMA AgedLineStep ==
    ASSUME AgeInv, TypeOK', AnchorsInPast', AgedLine
    PROVE  AgeInv' /\ DispatchedReallyIdle
<1>1. ASSUME NEW now \in Epoch \ {0}, NEW pkg \in Pkg, AgedResume(now, pkg)
      PROVE  AgeInv' /\ DispatchedReallyIdle
  BY <1>1, ResumeWorked, LineStep DEF AgedResume, on_resume_activity, Stamp
<1>2. ASSUME NEW now \in Epoch \ {0}, NEW pid \in Pid, NEW uid \in Uid, NEW pkg \in Pkg,
             NEW top \in BOOLEAN, AgedStart(now, pid, uid, pkg, top)
      PROVE  AgeInv' /\ DispatchedReallyIdle
  BY <1>2, StartWorked, LineStep DEF AgedStart, on_proc_start, Stamp
<1>3. ASSUME NEW now \in Epoch \ {0}, NEW pid \in Pid, AgedDied(now, pid)
      PROVE  AgeInv' /\ DispatchedReallyIdle
  BY <1>3, DiedWorked, LineStep DEF AgedDied, on_proc_died, Stamp
<1>4. ASSUME NEW now \in Epoch \ {0}, NEW on \in BOOLEAN, AgedScreen(now, on)
      PROVE  AgeInv' /\ DispatchedReallyIdle
  BY <1>4, QuietWorked, LineStep DEF AgedScreen, on_screen_toggled, Stamp
<1>5. ASSUME NEW now \in Epoch \ {0}, AgedDoze(now)
      PROVE  AgeInv' /\ DispatchedReallyIdle
  BY <1>5, QuietWorked, LineStep DEF AgedDoze, on_device_idle_light_step, Stamp
<1> QED
  BY <1>1, <1>2, <1>3, <1>4, <1>5 DEF AgedLine

LEMMA AgedStepIdle ==
    ASSUME AgeInv, TypeOK', AnchorsInPast', [AgedNext]_avars
    PROVE  [DispatchedReallyIdle]_avars
<1>1. CASE AgedLine
  BY <1>1, AgedLineStep
<1>2. CASE AgedReload
  BY <1>2 DEF AgedReload, reload_configs, DispatchedReallyIdle
<1> QED
  BY <1>1, <1>2 DEF AgedNext

\* The inductive invariant: honest ages, and what keeps them honest.
THEOREM AgesCorrect == AgedSpec => []AgeInv /\ NeverRushed
<1>1. AgedSpec => Spec
  <2>1. AgedInit => Init
    BY DEF AgedInit
  <2> QED
    BY <2>1, AgedIsNext, PTL DEF AgedSpec, Spec
<1>2. AgedInit /\ TypeOK /\ AnchorsInPast => AgeInv
  BY DEF AgedInit, Init, new, AgeInv, AgesOK, TrackedUid, ClockKnown, IdleAgeHonest, SignalledOnce
<1>3. AgeInv /\ [AgedNext]_avars /\ TypeOK' /\ AnchorsInPast' => AgeInv'
  BY AgedLineStep, ReloadStep DEF AgedNext
<1>4. AgeInv /\ [AgedNext]_avars /\ TypeOK' /\ AnchorsInPast' => [DispatchedReallyIdle]_avars
  BY AgedStepIdle
<1> QED
  BY <1>1, <1>2, <1>3, <1>4, TypeCorrect, AnchorsCorrect, PTL DEF AgedSpec, NeverRushed

\* No clock step the code detects makes a background package look older
\* than it is.
THEOREM IdleAgeCorrect == AgedSpec => []IdleAgeHonest
<1>1. AgeInv => IdleAgeHonest
  BY DEF AgeInv
<1> QED
  BY <1>1, AgesCorrect, PTL

\* A package is dispatched only after it has really been out of use for the
\* idle ceiling in force.
THEOREM NeverRushedCorrect == AgedSpec => NeverRushed
BY AgesCorrect, PTL

\* A dispatched package is not a candidate again before a line shows it.
THEOREM SignalledOnceCorrect == AgedSpec => []SignalledOnce
<1>1. AgeInv => SignalledOnce
  BY DEF AgeInv
<1> QED
  BY <1>1, AgesCorrect, PTL

-----------------------------------------------------------------------------
(* IdleAge implements module Reclaim: the initial states map to initial    *)
(* states, a line maps to Observe, a reload to Reconfigure.                *)

\* No situation asks for less than the shortest ceiling.
LEMMA CeilingBound ==
    ASSUME TypeOK, NEW now, NEW alive, NEW is_low_mem
    PROVE  /\ ShortestCeiling(config) \in Nat
           /\ t_idle_effective_sec(now, alive, is_low_mem) \in Nat
           /\ t_idle_effective_sec(now, alive, is_low_mem) >= ShortestCeiling(config)
<1>1. config.t_idle_sec \in Nat
  BY ParameterAssumption DEF TypeOK, RuntimeConfig
<1>. QED
  BY <1>1, ThresholdAssumption DEF ShortestCeiling, t_idle_effective_sec, SmallerOf

\* What a pass took: as many packages as the burst allows, all of them
\* tracked and none excluded; those it found protected stay tracked.
LEMMA PassEvicts ==
    ASSUME TypeOK, TypeOK', NEW now \in Nat, NEW alive \in AnchorTable,
           NEW pkg_of, NEW pids_of \in PidSets,
           evaluate_reaping_pipeline(now, alive, pkg_of, pids_of)
    PROVE  /\ \A r \in pass' :
                /\ r.pkg \in Pkg /\ ~is_excluded(r.pkg, current_fg')
                /\ alive[r.pkg] # None
                /\ r.ams_protected => alive_apps'[r.pkg] # None
           /\ Cardinality({r.pkg : r \in pass'}) <= config.max_kills_per_pass
<1>1. PICK is_low_mem \in check_mem_critical :
        \E readable \in SUBSET UNION {pids_of[k] : k \in Expired(now, alive, is_low_mem)} :
          LET expired == Expired(now, alive, is_low_mem)
              candidates == scan_candidates(expired, pids_of, readable)
              slots == SmallerOf(config.max_kills_per_pass, Cardinality(candidates))
          IN \E taken \in {s \in SUBSET candidates : Cardinality(s) = slots} :
             \E protected \in SUBSET taken :
               Reaped(now, alive, pkg_of, pids_of, expired, readable, taken, protected)
  BY Zenon DEF evaluate_reaping_pipeline
<1>. DEFINE expired == Expired(now, alive, is_low_mem)
<1>2. PICK readable \in SUBSET UNION {pids_of[k] : k \in expired} :
          LET candidates == scan_candidates(expired, pids_of, readable)
              slots == SmallerOf(config.max_kills_per_pass, Cardinality(candidates))
          IN \E taken \in {s \in SUBSET candidates : Cardinality(s) = slots} :
             \E protected \in SUBSET taken :
               Reaped(now, alive, pkg_of, pids_of, expired, readable, taken, protected)
  BY <1>1
<1>. DEFINE candidates == scan_candidates(expired, pids_of, readable)
            slots == SmallerOf(config.max_kills_per_pass, Cardinality(candidates))
<1>3. PICK taken \in SUBSET candidates :
        /\ Cardinality(taken) = slots
        /\ \E protected \in SUBSET taken :
             Reaped(now, alive, pkg_of, pids_of, expired, readable, taken, protected)
  BY <1>2
<1>4. PICK protected \in SUBSET taken :
        Reaped(now, alive, pkg_of, pids_of, expired, readable, taken, protected)
  BY <1>3
<1>5. \A k \in expired : k \in Pkg /\ ~is_excluded(k, current_fg') /\ alive[k] # None
  BY DEF Expired
<1>6. candidates \subseteq expired
  BY DEF scan_candidates
<1>. HIDE DEF expired
<1>7. slots <= config.max_kills_per_pass
  <2>1. config.max_kills_per_pass \in Nat
    BY ParameterAssumption DEF TypeOK, RuntimeConfig
  <2>2. Cardinality(candidates) \in Nat
    <3>1. candidates \in SUBSET Pkg
      BY <1>5, <1>6
    <3>. QED BY <3>1, PkgAssumption, FS_Subset, FS_CardinalityType
  <2>. HIDE DEF candidates
  <2>. QED BY <2>1, <2>2 DEF SmallerOf
<1>. HIDE DEF candidates, slots
<1>8. pass' = {[pkg |-> k, ams_protected |-> k \in protected] : k \in taken}
  BY <1>4, Zenon DEF Reaped
<1>10. \A r \in pass' : r.pkg \in taken /\ (r.ams_protected => r.pkg \in protected)
  <2>. SUFFICES ASSUME NEW r \in pass'
                PROVE  r.pkg \in taken /\ (r.ams_protected => r.pkg \in protected)
    OBVIOUS
  <2>1. PICK k \in taken : r = [pkg |-> k, ams_protected |-> k \in protected]
    BY <1>8, Zenon
  <2>2. r.pkg = k
    BY <2>1
  <2>3. r.ams_protected = (k \in protected)
    BY <2>1, Zenon
  <2>. QED BY <2>2, <2>3
<1>9. {r.pkg : r \in pass'} = taken
  <2>1. ASSUME NEW k \in taken PROVE \E r \in pass' : r.pkg = k
    <3>. DEFINE r == [pkg |-> k, ams_protected |-> k \in protected]
    <3>1. r \in pass'
      BY <1>8, Zenon
    <3>2. r.pkg = k
      OBVIOUS
    <3>. QED BY <3>1, <3>2, Zenon
  <2>. QED BY <1>10, <2>1, Zenon
<1>11. \A k \in protected : alive_apps'[k] = now
  BY <1>3, <1>4, <1>5, <1>6 DEF Reaped, dispatch_candidate
<1>12. now # None
  BY NoneAssumption
<1>. QED BY <1>3, <1>5, <1>6, <1>7, <1>9, <1>10, <1>11, <1>12

-----------------------------------------------------------------------------
(* One step.                                                               *)

\* A line is an observation, whichever handler took it.
LEMMA LineObserves ==
    ASSUME AgeInv, TypeOK', NEW now \in Epoch \ {0}, NEW seen, NEW x, seen \subseteq {x},
           UNCHANGED lists, Record(now, seen), DispatchedReallyIdle,
           NEW alive, Worked(now, alive, seen), Handed(now, alive)
    PROVE  R!Observe
<1>1. TypeOK /\ now \in Nat /\ alive \in AnchorTable /\ current_fg' \in Pkg \cup {None}
  BY ParameterAssumption DEF AgeInv, TypeOK, Worked
<1>2. /\ \A r \in pass' :
           /\ r.pkg \in Pkg /\ ~is_excluded(r.pkg, current_fg')
           /\ alive[r.pkg] # None
           /\ r.ams_protected => alive_apps'[r.pkg] # None
           /\ ~r.ams_protected => alive_apps'[r.pkg] = None
      /\ Cardinality({r.pkg : r \in pass'}) <= config.max_kills_per_pass
      /\ \A k \in Pkg : alive[k] = None => alive_apps'[k] = None
  <2>1. PICK pkg_of, pids_of : /\ pids_of \in PidSets
                               /\ \/ evaluate_reaping_pipeline(now, alive, pkg_of, pids_of)
                                  \/ NoPass(alive, pkg_of, pids_of)
    BY DEF Handed
  <2>2. CASE NoPass(alive, pkg_of, pids_of)
    <3>1. pass' = {} /\ alive_apps' = alive
      BY <2>2 DEF NoPass
    <3>2. {r.pkg : r \in pass'} = {}
      BY <3>1
    <3>3. config.max_kills_per_pass \in Nat
      BY <1>1, ParameterAssumption DEF TypeOK, RuntimeConfig
    <3>. QED BY <3>1, <3>2, <3>3, FS_EmptySet
  <2>3. CASE evaluate_reaping_pipeline(now, alive, pkg_of, pids_of)
    BY <1>1, <2>1, <2>3, PassEvicts, PassDispatch
  <2>. QED BY <2>1, <2>2, <2>3
<1>. DEFINE before == {k \in Pkg : alive_apps[k] # None}
            after == {k \in Pkg : alive_apps'[k] # None}
            fresh == {k \in Pkg : ComesIntoView(k)}
<1>3. fresh \in {{}} \cup {{k} : k \in Pkg \ before}
  <2>1. \A k \in Pkg : ComesIntoView(k) => alive_apps[k] = None /\ alive[k] # None
    BY <1>2 DEF ComesIntoView
  <2>2. \A k \in fresh : k \in Pkg \ before /\ k = x
    BY <2>1 DEF Worked
  <2>. QED BY <2>2
<1>4. /\ \A k \in Pkg : since_use'[k] =
           IF k = current_fg \/ k \in fresh THEN 0 ELSE since_use[k] + Elapsed(now)
      /\ \A k \in Pkg : since_use[k] \in Nat
      /\ Elapsed(now) \in Nat
  BY <1>1 DEF Record, AgeInv, AgesOK, TypeOK, Elapsed, saturating_sub
<1>5. \A r \in pass' : since_use'[r.pkg] \div SecMs >= ShortestCeiling(config)
  <2>. SUFFICES ASSUME NEW r \in pass'
                PROVE  since_use'[r.pkg] \div SecMs >= ShortestCeiling(config)
    OBVIOUS
  <2>1. PICK is_low_mem \in check_mem_critical :
          since_use'[r.pkg] \div SecMs >=
            t_idle_effective_sec(last_event_epoch', alive_apps', is_low_mem)
    BY DEF DispatchedReallyIdle
  <2>2. since_use'[r.pkg] \in Nat
    BY <1>2, <1>4
  <2>3. since_use'[r.pkg] \div SecMs \in Int
    BY <2>2, ThresholdAssumption
  <2>. QED BY <1>1, <2>1, <2>3, CeilingBound
<1>6. R!Rested(fresh \cup ({current_fg} \cap Pkg))
  BY <1>4 DEF R!Rested
<1>7. \A k \in R!Evicted : R!Evictable(k)
  BY <1>2, <1>5 DEF R!Evicted, R!Evictable, is_excluded, lists
<1>8. /\ \A k \in R!Removed : alive_apps'[k] = None
      /\ \A k \in R!Evicted \ R!Removed : k \in Pkg /\ alive_apps'[k] # None
  BY <1>2 DEF R!Evicted, R!Removed
<1>9. R!Cardinality(R!Evicted) <= config.max_kills_per_pass
  <2>1. Cardinality(R!Evicted) <= config.max_kills_per_pass
    BY <1>2, Zenon DEF R!Evicted
  <2>2. R!Cardinality(R!Evicted) = Cardinality(R!Evicted)
    BY DEF R!Cardinality, Cardinality
  <2>. QED BY <2>1, <2>2, Zenon
<1>10. R!Removed \cap after = {} /\ R!Evicted \ R!Removed \subseteq after
  BY <1>8
<1>11. after \subseteq before \cup fresh /\ R!Evicted \subseteq before \cup fresh
  BY <1>2 DEF R!Evicted, ComesIntoView
<1>12. UNCHANGED <<user_exclusions \cup dynamic_exclusions, ShortestCeiling(config),
                  config.max_kills_per_pass>>
  BY DEF lists, ShortestCeiling
<1>. QED
  BY <1>1, <1>3, <1>6, <1>7, <1>9, <1>10, <1>11, <1>12, Zenon DEF R!Observe

\* A reload reconfigures.
LEMMA ReloadReconfigures ==
    ASSUME TypeOK', AgedReload
    PROVE  R!Reconfigure
<1>1. /\ ShortestCeiling(config') \in Nat
      /\ config'.max_kills_per_pass \in Nat \ {0}
      /\ user_exclusions' \subseteq Pkg /\ dynamic_exclusions' \subseteq Pkg
  BY ParameterAssumption, ThresholdAssumption
     DEF TypeOK, RuntimeConfig, ShortestCeiling, SmallerOf
<1>. QED BY <1>1 DEF AgedReload, reload_configs, R!Reconfigure, ShortestCeiling

\* Every line is one of five, each with its working table.
LEMMA AgedLineObserves ==
    ASSUME AgeInv, TypeOK', AnchorsInPast', AgedLine
    PROVE  R!Observe
<1>0. DispatchedReallyIdle
  BY AgedLineStep
<1>1. ASSUME NEW now \in Epoch \ {0}, NEW pkg \in Pkg, AgedResume(now, pkg)
      PROVE  R!Observe
  BY <1>0, <1>1, ResumeWorked, LineObserves DEF AgedResume, on_resume_activity, Stamp
<1>2. ASSUME NEW now \in Epoch \ {0}, NEW pid \in Pid, NEW uid \in Uid, NEW pkg \in Pkg,
             NEW top \in BOOLEAN, AgedStart(now, pid, uid, pkg, top)
      PROVE  R!Observe
  BY <1>0, <1>2, StartWorked, LineObserves DEF AgedStart, on_proc_start, Stamp
<1>3. ASSUME NEW now \in Epoch \ {0}, NEW pid \in Pid, AgedDied(now, pid)
      PROVE  R!Observe
  BY <1>0, <1>3, DiedWorked, LineObserves DEF AgedDied, on_proc_died, Stamp
<1>4. ASSUME NEW now \in Epoch \ {0}, NEW on \in BOOLEAN, AgedScreen(now, on)
      PROVE  R!Observe
  BY <1>0, <1>4, QuietWorked, LineObserves DEF AgedScreen, on_screen_toggled, Stamp
<1>5. ASSUME NEW now \in Epoch \ {0}, AgedDoze(now)
      PROVE  R!Observe
  BY <1>0, <1>5, QuietWorked, LineObserves DEF AgedDoze, on_device_idle_light_step, Stamp
<1>. QED
  BY <1>1, <1>2, <1>3, <1>4, <1>5 DEF AgedLine

\* The daemon, with every table it keeps, does what module Reclaim promises
\* whatever packages, clock and configuration it meets (daemon.rs
\* dispatch_logcat_line, kill.rs evaluate_reaping_pipeline).
THEOREM ReclaimImplemented == AgedSpec => ImplementsReclaim
<1>1. AgedInit => R!Init
  BY ParameterAssumption, ThresholdAssumption
     DEF AgedInit, Init, new, R!Init, RuntimeConfig, ShortestCeiling, SmallerOf
<1>2. AgeInv /\ TypeOK' /\ AnchorsInPast' /\ [AgedNext]_avars => [R!Next]_R!vars
  <2>. SUFFICES ASSUME AgeInv, TypeOK', AnchorsInPast', [AgedNext]_avars
                PROVE  [R!Next]_R!vars
    OBVIOUS
  <2>1. CASE AgedLine
    BY <2>1, AgedLineObserves DEF R!Next
  <2>2. CASE AgedReload
    BY <2>2, ReloadReconfigures DEF R!Next
  <2>3. CASE UNCHANGED avars
    BY <2>3 DEF avars, vars, lists, R!vars
  <2>. QED BY <2>1, <2>2, <2>3 DEF AgedNext
<1>3. AgedSpec => []TypeOK /\ []AnchorsInPast
  <2>1. AgedInit => Init
    BY DEF AgedInit
  <2>2. AgedSpec => Spec
    BY <2>1, AgedIsNext, PTL DEF AgedSpec, Spec
  <2>. QED BY <2>2, TypeCorrect, AnchorsCorrect, PTL
<1>. QED
  BY <1>1, <1>2, <1>3, AgesCorrect, PTL DEF AgedSpec, ImplementsReclaim, R!Spec
=============================================================================
