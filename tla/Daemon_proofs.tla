--------------------------- MODULE Daemon_proofs ---------------------------
(***************************************************************************)
(* Proofs about module Daemon, for every set of packages, pids, stamps,    *)
(* configurations and thresholds.                                          *)
(***************************************************************************)
EXTENDS Daemon, SequenceTheorems, TLAPS

-----------------------------------------------------------------------------
(* Sequences built as functions.                                           *)

LEMMA FunctionIsSeq ==
    ASSUME NEW S, NEW n \in Nat, NEW f \in [1..n -> S]
    PROVE  f \in Seq(S) /\ Len(f) = n
<1>1. f \in Seq(S)
  BY SeqDef
<1>2. DOMAIN f = 1..Len(f) /\ Len(f) \in Nat
  BY <1>1, LenProperties
<1> QED
  BY <1>1, <1>2

\* Removing a package keeps a sequence of packages one, no longer than before.
LEMMA WithoutType ==
    ASSUME NEW lru \in Seq(Pkg), NEW k
    PROVE  /\ Without(lru, k) \in Seq(Pkg)
           /\ Len(Without(lru, k)) <= Len(lru)
<1> DEFINE pos == CHOOSE i \in 1..Len(lru) :
                      lru[i] = k /\ \A j \in 1..Len(lru) : lru[j] = k => i <= j
           cut == [i \in 1..(Len(lru) - 1) |-> IF i < pos THEN lru[i] ELSE lru[i + 1]]
<1>1. Len(lru) \in Nat /\ \A i \in 1..Len(lru) : lru[i] \in Pkg
  BY LenProperties, ElementOfSeq
<1>2. CASE \E i \in 1..Len(lru) : lru[i] = k
  <2>1. Len(lru) - 1 \in Nat
    BY <1>1, <1>2
  <2>2. \A i \in 1..(Len(lru) - 1) : i \in 1..Len(lru) /\ i + 1 \in 1..Len(lru)
    BY <1>1
  <2> HIDE DEF pos
  <2>3. cut \in [1..(Len(lru) - 1) -> Pkg]
    BY <1>1, <2>2
  <2>4. cut \in Seq(Pkg) /\ Len(cut) = Len(lru) - 1
    BY <2>1, <2>3, FunctionIsSeq
  <2>5. Without(lru, k) = cut
    BY <1>2 DEF Without, pos
  <2> HIDE DEF cut
  <2> QED
    BY <1>1, <2>4, <2>5
<1>3. CASE ~ \E i \in 1..Len(lru) : lru[i] = k
  BY <1>1, <1>3 DEF Without
<1> QED
  BY <1>2, <1>3

NoRepeats(lru) == \A i, j \in 1..Len(lru) : lru[i] = lru[j] => i = j

\* From a sequence without repetitions, it removes every occurrence.
LEMMA WithoutRemoves ==
    ASSUME NEW lru \in Seq(Pkg), NEW k, NoRepeats(lru)
    PROVE  /\ NoRepeats(Without(lru, k))
           /\ \A i \in 1..Len(Without(lru, k)) : Without(lru, k)[i] # k
<1> DEFINE P(i) == lru[i] = k /\ \A j \in 1..Len(lru) : lru[j] = k => i <= j
           pos == CHOOSE i \in 1..Len(lru) : P(i)
           cut == [i \in 1..(Len(lru) - 1) |-> IF i < pos THEN lru[i] ELSE lru[i + 1]]
<1>1. Len(lru) \in Nat /\ \A i \in 1..Len(lru) : lru[i] \in Pkg
  BY LenProperties, ElementOfSeq
<1>2. CASE \E i \in 1..Len(lru) : lru[i] = k
  <2>1. PICK i \in 1..Len(lru) : lru[i] = k
    BY <1>2
  <2>2. P(i)
    BY <1>1, <2>1 DEF NoRepeats
  <2>3. pos \in 1..Len(lru) /\ lru[pos] = k
    BY <2>2
  <2>4. Without(lru, k) = cut
    BY <1>2 DEF Without
  <2> HIDE DEF pos, P
  <2>5. cut \in [1..(Len(lru) - 1) -> Pkg] /\ Len(lru) - 1 \in Nat
    BY <1>1, <2>3
  <2>6. Len(cut) = Len(lru) - 1
    BY <2>5, FunctionIsSeq
  <2>7. \A m \in 1..(Len(lru) - 1) : cut[m] # k
    BY <1>1, <2>3 DEF NoRepeats
  <2>8. ASSUME NEW m \in 1..(Len(lru) - 1), NEW n \in 1..(Len(lru) - 1), cut[m] = cut[n]
        PROVE  m = n
    <3>1. cut[m] = lru[IF m < pos THEN m ELSE m + 1] /\ cut[n] = lru[IF n < pos THEN n ELSE n + 1]
      OBVIOUS
    <3>2. (IF m < pos THEN m ELSE m + 1) = (IF n < pos THEN n ELSE n + 1)
      BY <1>1, <2>8, <3>1 DEF NoRepeats
    <3> QED
      BY <1>1, <2>3, <3>2
  <2> QED
    BY <2>4, <2>6, <2>7, <2>8 DEF NoRepeats
<1>3. CASE ~ \E i \in 1..Len(lru) : lru[i] = k
  BY <1>3 DEF Without
<1> QED
  BY <1>2, <1>3

\* A promotion yields a history led by the promoted package, or none.
LEMMA PromotedLeads ==
    ASSUME NEW lru \in Seq(Pkg), NEW k \in Pkg, NEW depth \in Nat
    PROVE  /\ Promoted(lru, k, depth) \in Seq(Pkg)
           /\ Promoted(lru, k, depth) # <<>> => Promoted(lru, k, depth)[1] = k
           /\ NoRepeats(lru) => NoRepeats(Promoted(lru, k, depth))
<1> DEFINE rest == Without(lru, k)
           pushed == [i \in 1..(Len(rest) + 1) |-> IF i = 1 THEN k ELSE rest[i - 1]]
           popped == [i \in 1..Len(rest) |-> pushed[i]]
<1>1. rest \in Seq(Pkg) /\ Len(rest) \in Nat /\ \A i \in 1..Len(rest) : rest[i] \in Pkg
  BY WithoutType, LenProperties, ElementOfSeq
<1>2. pushed \in Seq(Pkg) /\ Len(pushed) = Len(rest) + 1
  <2> HIDE DEF rest
  <2>1. \A i \in 1..(Len(rest) + 1) : i # 1 => i - 1 \in 1..Len(rest)
    BY <1>1
  <2>2. pushed \in [1..(Len(rest) + 1) -> Pkg] /\ Len(rest) + 1 \in Nat
    BY <1>1, <2>1
  <2> QED
    BY <2>2, FunctionIsSeq
<1>3. popped \in Seq(Pkg) /\ Len(popped) = Len(rest)
  <2> HIDE DEF rest
  <2>1. popped \in [1..Len(rest) -> Pkg]
    BY <1>1
  <2> QED
    BY <1>1, <2>1, FunctionIsSeq
<1>4. Promoted(lru, k, depth) \in {pushed, popped}
  BY DEF Promoted
<1>5. NoRepeats(lru) => NoRepeats(pushed) /\ NoRepeats(popped)
  <2> SUFFICES ASSUME NoRepeats(lru)
               PROVE  NoRepeats(pushed) /\ NoRepeats(popped)
    OBVIOUS
  <2>1. NoRepeats(rest) /\ \A i \in 1..Len(rest) : rest[i] # k
    BY WithoutRemoves
  <2> HIDE DEF rest
  <2>2. ASSUME NEW i \in 1..(Len(rest) + 1), NEW j \in 1..(Len(rest) + 1), pushed[i] = pushed[j]
        PROVE  i = j
    BY <1>1, <2>1, <2>2 DEF NoRepeats
  <2>3. \A i \in 1..Len(rest) : popped[i] = pushed[i] /\ i \in 1..(Len(rest) + 1)
    BY <1>1
  <2> HIDE DEF pushed, popped
  <2> QED
    BY <1>2, <1>3, <2>2, <2>3 DEF NoRepeats
<1>6. pushed[1] = k /\ (popped # <<>> => popped[1] = k)
  <2> HIDE DEF rest
  <2>1. popped # <<>> => Len(popped) # 0
    BY <1>3, EmptySeq
  <2> QED
    BY <1>1, <1>3, <2>1
<1> HIDE DEF pushed, popped, rest
<1> QED
  BY <1>2, <1>3, <1>4, <1>5, <1>6

-----------------------------------------------------------------------------
(* Clock steps.                                                            *)

\* A step keeps an Option's shape, and keeps the past in the past.
LEMMA ShiftedPast ==
    ASSUME last_event_epoch \in Nat, NEW now \in Nat, NEW t \in Nat \cup {None}
    PROVE  /\ Shifted(t, now) \in Nat \cup {None}
           /\ Shifted(t, now) = None <=> t = None
           /\ t \in Nat /\ t <= last_event_epoch =>
                Shifted(t, now) \in Nat /\ Shifted(t, now) <= now
BY NoneAssumption, ThresholdAssumption
   DEF Shifted, clock_jump_ms, saturating_add_signed

LEMMA ShiftedAllType ==
    ASSUME last_event_epoch \in Nat, NEW now \in Nat, NEW table \in AnchorTable
    PROVE  /\ ShiftedAll(table, now) \in AnchorTable
           /\ \A k \in Pkg : ShiftedAll(table, now)[k] = Shifted(table[k], now)
<1>1. \A k \in Pkg : Shifted(table[k], now) \in Nat \cup {None}
  BY ShiftedPast DEF AnchorTable
<1>2. DOMAIN table = Pkg
  BY DEF AnchorTable
<1> QED
  BY <1>1, <1>2 DEF ShiftedAll, AnchorTable

-----------------------------------------------------------------------------
(* The pipeline.                                                           *)

\* A pass is described by the packages it expired, the pids it could read,
\* the candidates it took and those of them it found protected.
LEMMA PassShape ==
    ASSUME NEW now, NEW alive, NEW pkg_of, NEW pids_of \in [Pkg -> SUBSET Pid],
           evaluate_reaping_pipeline(now, alive, pkg_of, pids_of)
    PROVE  \E is_low_mem \in check_mem_critical :
             \E readable \in SUBSET Pid, taken \in SUBSET Expired(now, alive, is_low_mem) :
               \E protected \in SUBSET taken :
                 Reaped(now, alive, pkg_of, pids_of, Expired(now, alive, is_low_mem),
                        readable, taken, protected)
<1>1. PICK is_low_mem \in check_mem_critical :
        \E readable \in SUBSET UNION {pids_of[k] : k \in Expired(now, alive, is_low_mem)} :
          \E taken \in SUBSET scan_candidates(Expired(now, alive, is_low_mem), pids_of, readable) :
            \E protected \in SUBSET taken :
              Reaped(now, alive, pkg_of, pids_of, Expired(now, alive, is_low_mem),
                     readable, taken, protected)
  BY DEF evaluate_reaping_pipeline
<1>2. UNION {pids_of[k] : k \in Expired(now, alive, is_low_mem)} \subseteq Pid
  BY DEF Expired
<1>3. \A readable : scan_candidates(Expired(now, alive, is_low_mem), pids_of, readable)
                      \subseteq Expired(now, alive, is_low_mem)
  BY DEF scan_candidates
<1> QED
  BY <1>1, <1>2, <1>3

PidTable == [Pid -> Pkg \cup {None}]
PidSets == [Pkg -> SUBSET Pid]

\* The tables the pipeline and the early returns write.
TablesOK ==
    /\ alive_apps \in AnchorTable
    /\ pid_to_pkg \in PidTable
    /\ pkg_to_pids \in PidSets
    /\ pass \subseteq [pkg : Pkg, ams_protected : BOOLEAN]

LEMMA PassType ==
    ASSUME NEW now \in Nat, NEW alive \in AnchorTable, NEW pkg_of \in PidTable,
           NEW pids_of \in PidSets,
           evaluate_reaping_pipeline(now, alive, pkg_of, pids_of)
    PROVE  TablesOK'
<1>1. PICK is_low_mem \in check_mem_critical :
        \E readable \in SUBSET Pid, taken \in SUBSET Expired(now, alive, is_low_mem) :
          \E protected \in SUBSET taken :
            Reaped(now, alive, pkg_of, pids_of, Expired(now, alive, is_low_mem),
                   readable, taken, protected)
  BY PassShape DEF PidSets
<1> DEFINE expired == Expired(now, alive, is_low_mem)
<1>2. expired \subseteq Pkg
  BY DEF Expired
<1> HIDE DEF expired
<1>3. PICK readable \in SUBSET Pid, taken \in SUBSET expired :
        \E protected \in SUBSET taken :
          Reaped(now, alive, pkg_of, pids_of, expired, readable, taken, protected)
  BY <1>1 DEF expired
<1>4. PICK protected \in SUBSET taken :
        Reaped(now, alive, pkg_of, pids_of, expired, readable, taken, protected)
  BY <1>3
<1>5. alive_apps' \in AnchorTable
  <2>1. \A k \in Pkg : alive[k] \in Nat \cup {None}
    BY DEF AnchorTable
  <2> QED
    BY <1>4, <2>1 DEF Reaped, Purged, Retained, AnchorTable, dispatch_candidate
<1>6. pid_to_pkg' \in PidTable
  <2>1. \A p \in Pid : pkg_of[p] \in Pkg \cup {None}
    BY DEF PidTable
  <2> DEFINE purged(p) == \E k \in expired : p \in pids_of[k] \ readable
  <2>2. pid_to_pkg' = [p \in Pid |-> IF purged(p) THEN None ELSE pkg_of[p]]
    BY <1>4 DEF Reaped, Purged, Retained
  <2> HIDE DEF purged
  <2> QED
    BY <2>1, <2>2 DEF PidTable
<1>7. pkg_to_pids' \in PidSets
  BY <1>4 DEF Reaped, Purged, Retained, PidSets
<1>8. pass' \subseteq [pkg : Pkg, ams_protected : BOOLEAN]
  <2>1. \A k \in Pkg, b \in BOOLEAN :
          [pkg |-> k, ams_protected |-> b] \in [pkg : Pkg, ams_protected : BOOLEAN]
    OBVIOUS
  <2>2. \A k : (k \in protected) \in BOOLEAN
    OBVIOUS
  <2>3. \A k \in taken : [pkg |-> k, ams_protected |-> k \in protected]
                          \in [pkg : Pkg, ams_protected : BOOLEAN]
    BY <1>2, <2>1, <2>2, Zenon
  <2> QED
    BY <1>4, <2>3, Zenon DEF Reaped, Purged, Retained
<1> QED
  BY <1>5, <1>6, <1>7, <1>8 DEF TablesOK

LEMMA NoPassType ==
    ASSUME NEW alive \in AnchorTable, NEW pkg_of \in PidTable, NEW pids_of \in PidSets,
           NoPass(alive, pkg_of, pids_of)
    PROVE  TablesOK'
BY DEF NoPass, TablesOK

-----------------------------------------------------------------------------
(* Type correctness.                                                       *)

ListsOK ==
    /\ config \in Config
    /\ user_exclusions \subseteq Pkg
    /\ dynamic_exclusions \subseteq Pkg
    /\ games \subseteq Pkg

ScreenOK ==
    /\ screen_on \in BOOLEAN
    /\ screen_on_start \in Nat \cup {None}
    /\ screen_off_start \in Nat \cup {None}

GameOK ==
    /\ is_gaming \in BOOLEAN
    /\ game_session_start \in Nat \cup {None}

IntervalOK ==
    /\ session_start \in Nat
    /\ bg_pending \in BOOLEAN

HistoryOK ==
    /\ fg_lru \in Seq(Pkg)
    /\ current_fg \in Pkg \cup {None}
    /\ pkg_to_uid \in [Pkg -> Uid \cup {None}]
    /\ recent_deaths \in AnchorTable

LEMMA TypeParts ==
    TypeOK <=> /\ ListsOK /\ ScreenOK /\ GameOK /\ IntervalOK /\ HistoryOK /\ TablesOK
               /\ last_event_epoch \in Nat
BY DEF TypeOK, ListsOK, ScreenOK, GameOK, IntervalOK, HistoryOK, TablesOK, PidTable, PidSets

LEMMA StampType ==
    ASSUME TypeOK, NEW now \in Epoch, Stamp(now)
    PROVE  now \in Nat /\ last_event_epoch' \in Nat /\ ListsOK'
BY ParameterAssumption DEF TypeOK, Stamp, lists, ListsOK

LEMMA ShiftType ==
    ASSUME TypeOK, NEW now \in Nat
    PROVE  /\ ScreenShifted(now) => ScreenOK'
           /\ GameShifted(now) => GameOK'
           /\ \A pending \in BOOLEAN :
                /\ IntervalShifted(now, pending) => IntervalOK'
                /\ emit_bg_summary(now, pending) => IntervalOK'
           /\ ShiftedAll(alive_apps, now) \in AnchorTable
           /\ ShiftedAll(recent_deaths, now) \in AnchorTable
<1>1. \A t \in Nat \cup {None} : Shifted(t, now) \in Nat \cup {None}
  BY ShiftedPast DEF TypeOK
<1>2. Shifted(session_start, now) \in Nat
  BY ShiftedPast, NoneAssumption, ZenonT(30) DEF TypeOK
<1>3. ScreenShifted(now) => ScreenOK'
  BY <1>1 DEF TypeOK, ScreenShifted, ScreenOK
<1>4. GameShifted(now) => GameOK'
  BY <1>1 DEF TypeOK, GameShifted, GameOK
<1>5. \A pending \in BOOLEAN :
        /\ IntervalShifted(now, pending) => IntervalOK'
        /\ emit_bg_summary(now, pending) => IntervalOK'
  BY <1>2 DEF IntervalShifted, emit_bg_summary, IntervalOK
<1>6. /\ ShiftedAll(alive_apps, now) \in AnchorTable
      /\ ShiftedAll(recent_deaths, now) \in AnchorTable
  BY ShiftedAllType DEF TypeOK
<1> QED
  BY <1>3, <1>4, <1>5, <1>6

LEMMA ResumeType ==
    ASSUME TypeOK, NEW now \in Epoch, NEW pkg \in Pkg, on_resume_activity(now, pkg)
    PROVE  TypeOK'
<1> DEFINE alive == ShiftedAll(alive_apps, now)
           stamped == [k \in Pkg |-> IF k \in Departing(pkg) THEN now ELSE alive[k]]
<1>1. now \in Nat /\ last_event_epoch' \in Nat /\ ListsOK'
  BY StampType DEF on_resume_activity
<1>2. ScreenOK' /\ IntervalOK'
  BY <1>1, ShiftType DEF on_resume_activity, TypeOK
<1>3. GameOK'
  <2>1. Shifted(game_session_start, now) \in Nat \cup {None}
    BY <1>1, ShiftedPast DEF TypeOK
  <2> QED
    BY <1>1, <2>1 DEF on_resume_activity, GameSwitched, GameOK
<1>4. fg_lru' \in Seq(Pkg)
  <2>1. \A lru \in Seq(Pkg) : Promoted(lru, pkg, config.fg_lru_max_depth) \in Seq(Pkg)
    BY PromotedLeads, ParameterAssumption DEF TypeOK, RuntimeConfig
  <2>2. fg_lru \in Seq(Pkg) /\ Without(fg_lru, current_fg) \in Seq(Pkg)
    BY WithoutType DEF TypeOK
  <2>3. \E lru \in {fg_lru, Without(fg_lru, current_fg)} :
          fg_lru' = Promoted(lru, pkg, config.fg_lru_max_depth)
    BY DEF on_resume_activity
  <2> QED
    BY <2>1, <2>2, <2>3
<1>5. HistoryOK'
  <2>1. recent_deaths' \in AnchorTable
    BY <1>1, ShiftType DEF on_resume_activity
  <2> QED
    BY <1>4, <2>1 DEF on_resume_activity, HistoryOK, TypeOK
<1>6. stamped \in AnchorTable
  BY <1>1, ShiftType DEF AnchorTable
<1>7. TablesOK'
  <2> HIDE DEF stamped
  <2>1. \/ evaluate_reaping_pipeline(now, stamped, pid_to_pkg, pkg_to_pids)
        \/ NoPass(stamped, pid_to_pkg, pkg_to_pids)
    BY DEF on_resume_activity, stamped
  <2>2. pid_to_pkg \in PidTable /\ pkg_to_pids \in PidSets
    BY DEF TypeOK, PidTable, PidSets
  <2> QED
    BY <1>1, <1>6, <2>1, <2>2, PassType, NoPassType
<1> QED
  BY <1>1, <1>2, <1>3, <1>5, <1>7 DEF TypeOK, ListsOK, ScreenOK, GameOK, IntervalOK,
     HistoryOK, TablesOK, PidTable, PidSets

LEMMA StartType ==
    ASSUME TypeOK, NEW now \in Epoch, NEW pid \in Pid, NEW uid \in Uid, NEW pkg \in Pkg,
           NEW top \in BOOLEAN, on_proc_start(now, pid, uid, pkg, top)
    PROVE  TypeOK'
<1> DEFINE alive == ShiftedAll(alive_apps, now)
           tracked == IF uid = "app" /\ alive[pkg] = None
                      THEN [alive EXCEPT ![pkg] = now] ELSE alive
           pkg_of == [pid_to_pkg EXCEPT ![pid] = pkg]
           pids_of == [pkg_to_pids EXCEPT ![pkg] = @ \cup {pid}]
<1>1. now \in Nat /\ last_event_epoch' \in Nat /\ ListsOK'
  BY StampType DEF on_proc_start
<1>2. ScreenOK' /\ GameOK' /\ IntervalOK'
  <2>1. (bg_pending \/ current_fg # pkg) \in BOOLEAN
    OBVIOUS
  <2> QED
    BY <1>1, <2>1, ShiftType DEF on_proc_start
<1>3. alive \in AnchorTable /\ ShiftedAll(recent_deaths, now) \in AnchorTable
  BY <1>1, ShiftType
<1>4. HistoryOK'
  <2> HIDE DEF alive
  <2>1. recent_deaths' \in AnchorTable
    BY <1>3 DEF on_proc_start, AnchorTable
  <2>2. pkg_to_uid' \in [Pkg -> Uid \cup {None}]
    BY DEF on_proc_start, TypeOK
  <2> QED
    BY <2>1, <2>2 DEF on_proc_start, HistoryOK, TypeOK
<1>5. tracked \in AnchorTable
  <2> HIDE DEF alive
  <2> QED
    BY <1>1, <1>3 DEF AnchorTable
<1>6. pkg_of \in PidTable /\ pids_of \in PidSets
  BY DEF TypeOK, PidTable, PidSets
<1>7. TablesOK'
  <2>1. \/ evaluate_reaping_pipeline(now, tracked, pkg_of, pids_of)
        \/ NoPass(tracked, pkg_of, pids_of)
    BY DEF on_proc_start
  <2> HIDE DEF tracked, pkg_of, pids_of
  <2> QED
    BY <1>1, <1>5, <1>6, <2>1, PassType, NoPassType
<1> QED
  BY <1>1, <1>2, <1>4, <1>7 DEF TypeOK, ListsOK, ScreenOK, GameOK, IntervalOK,
     HistoryOK, TablesOK, PidTable, PidSets

LEMMA DeathRecordedType ==
    ASSUME NEW deaths \in AnchorTable, NEW pkg \in Pkg, NEW now \in Nat
    PROVE  /\ DeathRecorded(deaths, pkg, now) \in AnchorTable
           /\ \A k \in Pkg : DeathRecorded(deaths, pkg, now)[k] \in {None, now, deaths[k]}
<1> DEFINE recorded == [deaths EXCEPT ![pkg] = now]
<1>1. /\ recorded \in AnchorTable
      /\ \A k \in Pkg : recorded[k] \in {now, deaths[k]}
  BY DEF AnchorTable
<1> HIDE DEF recorded
<1>2. DeathRecorded(deaths, pkg, now) =
        IF Cardinality({k \in Pkg : recorded[k] # None}) > DeathCap
        THEN [k \in Pkg |-> IF recorded[k] # None /\ saturating_sub(now, recorded[k]) > DeathTtlMs
                            THEN None ELSE recorded[k]]
        ELSE recorded
  BY DEF DeathRecorded, recorded
<1> DEFINE kept == [k \in Pkg |-> IF recorded[k] # None /\ saturating_sub(now, recorded[k]) > DeathTtlMs
                                  THEN None ELSE recorded[k]]
<1>3. /\ kept \in AnchorTable
      /\ \A k \in Pkg : kept[k] \in {None, now, deaths[k]}
  <2>1. \A k \in Pkg : recorded[k] \in Nat \cup {None}
    BY <1>1 DEF AnchorTable
  <2>2. \A k \in Pkg : kept[k] \in {None, recorded[k]}
    OBVIOUS
  <2>3. kept \in AnchorTable
    BY <2>1 DEF AnchorTable
  <2> QED
    BY <1>1, <2>2, <2>3
<1> HIDE DEF kept
<1>4. DeathRecorded(deaths, pkg, now) \in {kept, recorded}
  BY <1>2 DEF kept
<1> QED
  BY <1>1, <1>3, <1>4

LEMMA DiedType ==
    ASSUME TypeOK, NEW now \in Epoch, NEW pid \in Pid, on_proc_died(now, pid)
    PROVE  TypeOK'
<1> DEFINE alive == ShiftedAll(alive_apps, now)
           deaths == ShiftedAll(recent_deaths, now)
           pkg == pid_to_pkg[pid]
           left == pkg_to_pids[pkg] \ {pid}
           survivors == IF left = {} THEN [alive EXCEPT ![pkg] = None] ELSE alive
<1>1. now \in Nat /\ last_event_epoch' \in Nat /\ ListsOK'
  BY StampType DEF on_proc_died, Survivors
<1>2. ScreenOK' /\ GameOK'
  BY <1>1, ShiftType DEF on_proc_died, Survivors
<1>3. alive \in AnchorTable /\ deaths \in AnchorTable
  BY <1>1, ShiftType
<1>4. pid_to_pkg \in PidTable /\ pkg_to_pids \in PidSets /\ pkg \in Pkg \cup {None}
  BY DEF TypeOK, PidTable, PidSets
<1>5. IntervalOK'
  <2>1. bg_pending \in BOOLEAN /\ (bg_pending \/ current_fg # pkg) \in BOOLEAN
    BY DEF TypeOK
  <2>2. \/ IntervalShifted(now, bg_pending)
        \/ IntervalShifted(now, bg_pending \/ current_fg # pkg)
    BY DEF on_proc_died, Survivors
  <2> QED
    BY <1>1, <2>1, <2>2, ShiftType
<1>6. recent_deaths' \in AnchorTable
  <2> HIDE DEF deaths, pkg
  <2>1. recent_deaths' = deaths \/ (pkg \in Pkg /\ recent_deaths' = DeathRecorded(deaths, pkg, now))
    BY <1>4 DEF on_proc_died, Survivors, deaths, pkg
  <2> QED
    BY <1>1, <1>3, <2>1, DeathRecordedType
<1>7. HistoryOK'
  BY <1>6 DEF on_proc_died, Survivors, HistoryOK, TypeOK
<1>8. TablesOK'
  <2>1. CASE pkg = None
    BY <1>3, <1>4, <2>1, NoPassType DEF on_proc_died, Survivors
  <2>2. CASE pkg # None
    <3>1. survivors \in AnchorTable
      BY <1>3 DEF AnchorTable
    <3>2. [pid_to_pkg EXCEPT ![pid] = None] \in PidTable
      BY <1>4 DEF PidTable
    <3>3. [pkg_to_pids EXCEPT ![pkg] = left] \in PidSets
      BY <1>4, <2>2 DEF PidSets
    <3>4. NoPass(survivors, [pid_to_pkg EXCEPT ![pid] = None], [pkg_to_pids EXCEPT ![pkg] = left])
      BY <2>2 DEF on_proc_died, Survivors
    <3> HIDE DEF survivors, left, pkg
    <3> QED
      BY <3>1, <3>2, <3>3, <3>4, NoPassType
  <2> QED
    BY <2>1, <2>2
<1> QED
  BY <1>1, <1>2, <1>5, <1>7, <1>8 DEF TypeOK, ListsOK, ScreenOK, GameOK, IntervalOK,
     HistoryOK, TablesOK, PidTable, PidSets

LEMMA ScreenType ==
    ASSUME TypeOK, NEW now \in Epoch, NEW on \in BOOLEAN, on_screen_toggled(now, on)
    PROVE  TypeOK'
<1>1. now \in Nat /\ last_event_epoch' \in Nat /\ ListsOK'
  BY StampType DEF on_screen_toggled
<1>2. GameOK'
  BY <1>1, ShiftType DEF on_screen_toggled
<1>3. ScreenOK' /\ IntervalOK'
  BY <1>1, ShiftType DEF on_screen_toggled, ScreenOK, TypeOK
<1>4. HistoryOK'
  BY <1>1, ShiftType DEF on_screen_toggled, HistoryOK, TypeOK
<1>5. TablesOK'
  BY <1>1, ShiftType, NoPassType DEF on_screen_toggled, TypeOK, PidTable, PidSets
<1> QED
  BY <1>1, <1>2, <1>3, <1>4, <1>5 DEF TypeOK, ListsOK, ScreenOK, GameOK, IntervalOK,
     HistoryOK, TablesOK, PidTable, PidSets

LEMMA DozeType ==
    ASSUME TypeOK, NEW now \in Epoch, on_device_idle_light_step(now)
    PROVE  TypeOK'
<1>1. now \in Nat /\ last_event_epoch' \in Nat /\ ListsOK'
  BY StampType DEF on_device_idle_light_step
<1>2. ScreenOK' /\ GameOK' /\ IntervalOK'
  BY <1>1, ShiftType DEF on_device_idle_light_step, TypeOK
<1>3. HistoryOK'
  BY <1>1, ShiftType DEF on_device_idle_light_step, HistoryOK, TypeOK
<1>4. TablesOK'
  BY <1>1, ShiftType, PassType, NoPassType
     DEF on_device_idle_light_step, TypeOK, PidTable, PidSets
<1> QED
  BY <1>1, <1>2, <1>3, <1>4 DEF TypeOK, ListsOK, ScreenOK, GameOK, IntervalOK,
     HistoryOK, TablesOK, PidTable, PidSets

LEMMA ReloadType == TypeOK /\ reload_configs => TypeOK'
BY ParameterAssumption DEF TypeOK, reload_configs, tables, screen, game

LEMMA InitType == Init => TypeOK
<1> SUFFICES ASSUME Init PROVE TypeOK
  OBVIOUS
<1>1. last_event_epoch \in Nat /\ <<>> \in Seq(Pkg)
  BY ParameterAssumption, EmptySeq DEF Init, new
<1> QED
  BY <1>1, ParameterAssumption DEF Init, new, TypeOK, AnchorTable, seed_initial_state

\* Every step of the daemon keeps its state well typed.
THEOREM TypeCorrect == Spec => []TypeOK
<1>1. Init => TypeOK
  BY InitType
<1>2. TypeOK /\ [Next]_vars => TypeOK'
  <2> SUFFICES ASSUME TypeOK, [Next]_vars PROVE TypeOK'
    OBVIOUS
  <2>1. ASSUME NEW now \in Epoch, NEW pkg \in Pkg, on_resume_activity(now, pkg)
        PROVE  TypeOK'
    BY <2>1, ResumeType
  <2>2. ASSUME NEW now \in Epoch, NEW pid \in Pid, NEW uid \in Uid, NEW pkg \in Pkg,
               NEW top \in BOOLEAN, on_proc_start(now, pid, uid, pkg, top)
        PROVE  TypeOK'
    BY <2>2, StartType
  <2>3. ASSUME NEW now \in Epoch, NEW pid \in Pid, on_proc_died(now, pid)
        PROVE  TypeOK'
    BY <2>3, DiedType
  <2>4. ASSUME NEW now \in Epoch, NEW on \in BOOLEAN, on_screen_toggled(now, on)
        PROVE  TypeOK'
    BY <2>4, ScreenType
  <2>5. ASSUME NEW now \in Epoch, on_device_idle_light_step(now)
        PROVE  TypeOK'
    BY <2>5, DozeType
  <2>6. CASE reload_configs
    BY <2>6, ReloadType
  <2>7. CASE UNCHANGED vars
    BY <2>7 DEF TypeOK, vars, lists, tables, screen, game
  <2> QED
    BY <2>1, <2>2, <2>3, <2>4, <2>5, <2>6, <2>7 DEF Next, dispatch_logcat_line
<1> QED
  BY <1>1, <1>2, PTL DEF Spec

-----------------------------------------------------------------------------
(* The two process indexes.                                                *)

Indexed(pkg_of, pids_of) ==
    \A p \in Pid : pkg_of[p] # None => p \in pids_of[pkg_of[p]]

\* A pass drops a pid from a set only together with its entry in pid_to_pkg.
LEMMA PassIndexed ==
    ASSUME NEW now, NEW alive, NEW pkg_of \in PidTable, NEW pids_of \in PidSets,
           Indexed(pkg_of, pids_of),
           evaluate_reaping_pipeline(now, alive, pkg_of, pids_of)
    PROVE  ForwardIndexSound'
<1>1. PICK is_low_mem \in check_mem_critical :
        \E readable \in SUBSET Pid, taken \in SUBSET Expired(now, alive, is_low_mem) :
          \E protected \in SUBSET taken :
            Reaped(now, alive, pkg_of, pids_of, Expired(now, alive, is_low_mem),
                   readable, taken, protected)
  BY PassShape DEF PidSets
<1> DEFINE expired == Expired(now, alive, is_low_mem)
<1> HIDE DEF expired
<1>2. PICK readable \in SUBSET Pid :
        /\ pid_to_pkg' = [p \in Pid |->
             IF \E k \in expired : p \in pids_of[k] \ readable THEN None ELSE pkg_of[p]]
        /\ pkg_to_pids' = [k \in Pkg |->
             IF k \in expired THEN pids_of[k] \cap readable ELSE pids_of[k]]
  BY <1>1 DEF Reaped, Purged, Retained, expired
<1> SUFFICES ASSUME NEW p \in Pid, pid_to_pkg'[p] # None
             PROVE  p \in pkg_to_pids'[pid_to_pkg'[p]]
  BY DEF ForwardIndexSound
<1>3. pid_to_pkg'[p] = pkg_of[p] /\ ~ \E k \in expired : p \in pids_of[k] \ readable
  BY <1>2
<1>4. pkg_of[p] \in Pkg /\ p \in pids_of[pkg_of[p]]
  BY <1>3 DEF Indexed, PidTable
<1> QED
  BY <1>2, <1>3, <1>4

LEMMA NoPassIndexed ==
    ASSUME NEW alive, NEW pkg_of, NEW pids_of, Indexed(pkg_of, pids_of),
           NoPass(alive, pkg_of, pids_of)
    PROVE  ForwardIndexSound'
BY DEF Indexed, NoPass, ForwardIndexSound

LEMMA IndexStep ==
    ASSUME TypeOK, ForwardIndexSound, [Next]_vars
    PROVE  ForwardIndexSound'
<1> USE DEF PidTable, PidSets
<1>1. /\ pid_to_pkg \in PidTable /\ pkg_to_pids \in PidSets
      /\ Indexed(pid_to_pkg, pkg_to_pids)
  BY DEF TypeOK, ForwardIndexSound, Indexed
<1>2. ASSUME NEW now \in Epoch, NEW pkg \in Pkg, on_resume_activity(now, pkg)
      PROVE  ForwardIndexSound'
  BY <1>1, <1>2, PassIndexed, NoPassIndexed DEF on_resume_activity
<1>3. ASSUME NEW now \in Epoch, NEW pid \in Pid, NEW uid \in Uid, NEW pkg \in Pkg,
             NEW top \in BOOLEAN, on_proc_start(now, pid, uid, pkg, top)
      PROVE  ForwardIndexSound'
  <2> DEFINE pkg_of == [pid_to_pkg EXCEPT ![pid] = pkg]
             pids_of == [pkg_to_pids EXCEPT ![pkg] = @ \cup {pid}]
  <2>1. pkg_of \in PidTable /\ pids_of \in PidSets
    BY <1>1
  <2>2. Indexed(pkg_of, pids_of)
    BY <1>1, NoneAssumption DEF Indexed
  <2>3. \E alive : \/ evaluate_reaping_pipeline(now, alive, pkg_of, pids_of)
                   \/ NoPass(alive, pkg_of, pids_of)
    BY <1>3 DEF on_proc_start
  <2> HIDE DEF pkg_of, pids_of
  <2> QED
    BY <2>1, <2>2, <2>3, PassIndexed, NoPassIndexed
<1>4. ASSUME NEW now \in Epoch, NEW pid \in Pid, on_proc_died(now, pid)
      PROVE  ForwardIndexSound'
  <2> DEFINE pkg == pid_to_pkg[pid]
             pkg_of == [pid_to_pkg EXCEPT ![pid] = None]
             pids_of == [pkg_to_pids EXCEPT ![pkg] = pkg_to_pids[pkg] \ {pid}]
  <2>1. CASE pkg = None
    BY <1>1, <1>4, <2>1, NoPassIndexed DEF on_proc_died, Survivors
  <2>2. CASE pkg # None
    <3>1. Indexed(pkg_of, pids_of)
      BY <1>1, <2>2 DEF Indexed
    <3>2. \E alive : NoPass(alive, pkg_of, pids_of)
      BY <1>4, <2>2 DEF on_proc_died, Survivors
    <3> HIDE DEF pkg_of, pids_of
    <3> QED
      BY <3>1, <3>2, NoPassIndexed
  <2> QED
    BY <2>1, <2>2
<1>5. ASSUME NEW now \in Epoch, NEW on \in BOOLEAN, on_screen_toggled(now, on)
      PROVE  ForwardIndexSound'
  BY <1>1, <1>5, NoPassIndexed DEF on_screen_toggled
<1>6. ASSUME NEW now \in Epoch, on_device_idle_light_step(now)
      PROVE  ForwardIndexSound'
  BY <1>1, <1>6, PassIndexed, NoPassIndexed DEF on_device_idle_light_step
<1>7. CASE reload_configs \/ UNCHANGED vars
  BY <1>7 DEF reload_configs, vars, tables, ForwardIndexSound
<1> QED
  BY <1>2, <1>3, <1>4, <1>5, <1>6, <1>7 DEF Next, dispatch_logcat_line

\* The index by pid never points outside the index by package.
THEOREM ForwardIndexCorrect == Spec => []ForwardIndexSound
<1>1. Init => ForwardIndexSound
  BY DEF Init, new, seed_initial_state, ForwardIndexSound
<1>2. TypeOK /\ ForwardIndexSound /\ [Next]_vars => ForwardIndexSound'
  BY IndexStep
<1> QED
  BY <1>1, <1>2, TypeCorrect, PTL DEF Spec

-----------------------------------------------------------------------------
(* The foreground history.                                                 *)

LEMMA HistoryStep ==
    ASSUME TypeOK, ForegroundLeadsHistory, [Next]_vars
    PROVE  ForegroundLeadsHistory'
<1>1. ASSUME NEW now \in Epoch, NEW pkg \in Pkg, on_resume_activity(now, pkg)
      PROVE  ForegroundLeadsHistory'
  <2>1. fg_lru \in Seq(Pkg) /\ NoRepeats(fg_lru) /\ config.fg_lru_max_depth \in Nat
    BY ParameterAssumption DEF TypeOK, ForegroundLeadsHistory, NoRepeats, RuntimeConfig
  <2>2. PICK lru \in {fg_lru, Without(fg_lru, current_fg)} :
          fg_lru' = Promoted(lru, pkg, config.fg_lru_max_depth)
    BY <1>1 DEF on_resume_activity
  <2>3. lru \in Seq(Pkg) /\ NoRepeats(lru)
    BY <2>1, WithoutType, WithoutRemoves
  <2>4. NoRepeats(fg_lru') /\ (fg_lru' # <<>> => fg_lru'[1] = pkg)
    BY <2>1, <2>2, <2>3, PromotedLeads
  <2>5. current_fg' = pkg
    BY <1>1 DEF on_resume_activity
  <2> QED
    BY <2>4, <2>5 DEF ForegroundLeadsHistory, NoRepeats
<1>2. UNCHANGED <<fg_lru, current_fg>> => ForegroundLeadsHistory'
  BY DEF ForegroundLeadsHistory
<1>3. ASSUME NEW now \in Epoch, NEW pid \in Pid, NEW uid \in Uid, NEW pkg \in Pkg,
             NEW top \in BOOLEAN, on_proc_start(now, pid, uid, pkg, top)
      PROVE  ForegroundLeadsHistory'
  BY <1>2, <1>3 DEF on_proc_start
<1>4. ASSUME NEW now \in Epoch, NEW pid \in Pid, on_proc_died(now, pid)
      PROVE  ForegroundLeadsHistory'
  BY <1>2, <1>4 DEF on_proc_died, Survivors
<1>5. ASSUME NEW now \in Epoch, NEW on \in BOOLEAN, on_screen_toggled(now, on)
      PROVE  ForegroundLeadsHistory'
  BY <1>2, <1>5 DEF on_screen_toggled
<1>6. ASSUME NEW now \in Epoch, on_device_idle_light_step(now)
      PROVE  ForegroundLeadsHistory'
  BY <1>2, <1>6 DEF on_device_idle_light_step
<1>7. CASE reload_configs \/ UNCHANGED vars
  BY <1>2, <1>7 DEF reload_configs, vars
<1> QED
  BY <1>1, <1>3, <1>4, <1>5, <1>6, <1>7 DEF Next, dispatch_logcat_line

\* The history has no duplicates and, unless empty, starts with the
\* foreground package: the shield of depth 1 is the foreground itself.
THEOREM HistoryCorrect == Spec => []ForegroundLeadsHistory
<1>1. Init => ForegroundLeadsHistory
  BY EmptySeq DEF Init, new, ForegroundLeadsHistory
<1>2. TypeOK /\ ForegroundLeadsHistory /\ [Next]_vars => ForegroundLeadsHistory'
  BY HistoryStep
<1> QED
  BY <1>1, <1>2, TypeCorrect, PTL DEF Spec

-----------------------------------------------------------------------------
(* Sessions and anchors.                                                   *)

LEMMA ShiftPairs ==
    ASSUME TypeOK, SessionsPaired, NEW now \in Nat
    PROVE  /\ ScreenShifted(now) => /\ screen_on' <=> screen_on_start' # None
                                    /\ screen_on' <=> screen_off_start' = None
           /\ GameShifted(now) => (is_gaming' <=> game_session_start' # None)
<1>1. \A t \in Nat \cup {None} : Shifted(t, now) = None <=> t = None
  BY ShiftedPast DEF TypeOK
<1> QED
  BY <1>1 DEF TypeOK, SessionsPaired, ScreenShifted, GameShifted

LEMMA SessionsStep ==
    ASSUME TypeOK, SessionsPaired, [Next]_vars
    PROVE  SessionsPaired'
<1> USE ParameterAssumption, ShiftPairs
<1>1. ASSUME NEW now \in Epoch, NEW pkg \in Pkg, on_resume_activity(now, pkg)
      PROVE  SessionsPaired'
  <2>1. now \in Nat /\ now # None
    BY NoneAssumption
  <2>2. Shifted(game_session_start, now) = None <=> game_session_start = None
    BY <2>1, ShiftedPast DEF TypeOK
  <2>3. is_gaming' <=> game_session_start' # None
    BY <1>1, <2>1, <2>2 DEF on_resume_activity, GameSwitched, SessionsPaired, TypeOK
  <2> QED
    BY <1>1, <2>1, <2>3 DEF on_resume_activity, SessionsPaired
<1>2. ASSUME NEW now \in Epoch, NEW pid \in Pid, NEW uid \in Uid, NEW pkg \in Pkg,
             NEW top \in BOOLEAN, on_proc_start(now, pid, uid, pkg, top)
      PROVE  SessionsPaired'
  BY <1>2 DEF on_proc_start, SessionsPaired
<1>3. ASSUME NEW now \in Epoch, NEW pid \in Pid, on_proc_died(now, pid)
      PROVE  SessionsPaired'
  BY <1>3 DEF on_proc_died, Survivors, SessionsPaired
<1>4. ASSUME NEW now \in Epoch, NEW on \in BOOLEAN, on_screen_toggled(now, on)
      PROVE  SessionsPaired'
  <2>1. now \in Nat /\ now # None
    BY NoneAssumption
  <2> QED
    BY <1>4, <2>1 DEF on_screen_toggled, SessionsPaired
<1>5. ASSUME NEW now \in Epoch, on_device_idle_light_step(now)
      PROVE  SessionsPaired'
  BY <1>5 DEF on_device_idle_light_step, SessionsPaired
<1>6. CASE reload_configs \/ UNCHANGED vars
  BY <1>6 DEF reload_configs, vars, screen, game, SessionsPaired
<1> QED
  BY <1>1, <1>2, <1>3, <1>4, <1>5, <1>6 DEF Next, dispatch_logcat_line

\* The flags of the game session and of the display agree with the Options
\* that hold their starts, whatever order events, steps and reloads come in.
THEOREM SessionsCorrect == Spec => []SessionsPaired
<1>1. Init => SessionsPaired
  BY NoneAssumption, ParameterAssumption DEF Init, new, SessionsPaired
<1>2. TypeOK /\ SessionsPaired /\ [Next]_vars => SessionsPaired'
  BY SessionsStep
<1> QED
  BY <1>1, <1>2, TypeCorrect, PTL DEF Spec

\* A pass re-anchors a package at `now`, drops it, or leaves it alone.
LEMMA PassAnchors ==
    ASSUME NEW now, NEW alive \in AnchorTable, NEW pkg_of, NEW pids_of \in PidSets,
           evaluate_reaping_pipeline(now, alive, pkg_of, pids_of)
    PROVE  \A k \in Pkg : alive_apps'[k] \in {None, now, alive[k]}
<1>1. PICK is_low_mem \in check_mem_critical :
        \E readable \in SUBSET Pid, taken \in SUBSET Expired(now, alive, is_low_mem) :
          \E protected \in SUBSET taken :
            Reaped(now, alive, pkg_of, pids_of, Expired(now, alive, is_low_mem),
                   readable, taken, protected)
  BY PassShape DEF PidSets
<1> QED
  BY <1>1 DEF Reaped, Purged, Retained, dispatch_candidate

\* Ahead of nothing: the anchors of a table, as the code leaves them.
TableInPast(table, now) == \A k \in Pkg : table[k] # None => table[k] <= now

LEMMA PastStep ==
    ASSUME TypeOK, AnchorsInPast, NEW now \in Nat
    PROVE  /\ TableInPast(ShiftedAll(alive_apps, now), now)
           /\ TableInPast(ShiftedAll(recent_deaths, now), now)
           /\ \A t \in {screen_on_start, screen_off_start, game_session_start, session_start} :
                Shifted(t, now) # None => Shifted(t, now) <= now
<1>1. \A t \in Nat \cup {None} : (t # None => t <= last_event_epoch) =>
        (Shifted(t, now) # None => Shifted(t, now) <= now)
  BY ShiftedPast DEF TypeOK
<1>2. \A k \in Pkg : /\ ShiftedAll(alive_apps, now)[k] = Shifted(alive_apps[k], now)
                     /\ ShiftedAll(recent_deaths, now)[k] = Shifted(recent_deaths[k], now)
                     /\ alive_apps[k] \in Nat \cup {None}
                     /\ recent_deaths[k] \in Nat \cup {None}
  BY ShiftedAllType DEF TypeOK, AnchorTable
<1>3. /\ TableInPast(ShiftedAll(alive_apps, now), now)
      /\ TableInPast(ShiftedAll(recent_deaths, now), now)
  BY <1>1, <1>2 DEF TableInPast, AnchorsInPast, NotAhead
<1>4. /\ screen_on_start \in Nat \cup {None} /\ NotAhead(screen_on_start)
      /\ screen_off_start \in Nat \cup {None} /\ NotAhead(screen_off_start)
      /\ game_session_start \in Nat \cup {None} /\ NotAhead(game_session_start)
      /\ session_start \in Nat \cup {None} /\ NotAhead(session_start)
  BY DEF TypeOK, AnchorsInPast
<1> QED
  BY <1>1, <1>3, <1>4 DEF NotAhead

AlivePast == \A k \in Pkg : NotAhead(alive_apps[k])
DeathsPast == \A k \in Pkg : NotAhead(recent_deaths[k])
ScreenPast == NotAhead(screen_on_start) /\ NotAhead(screen_off_start)
GamePast == NotAhead(game_session_start)
IntervalPast == NotAhead(session_start)

LEMMA PastParts ==
    ASSUME TypeOK, AnchorsInPast, NEW now \in Epoch, Stamp(now)
    PROVE  /\ ScreenShifted(now) => ScreenPast'
           /\ GameShifted(now) => GamePast'
           /\ \A pending \in BOOLEAN :
                (IntervalShifted(now, pending) \/ emit_bg_summary(now, pending)) => IntervalPast'
           /\ recent_deaths' = ShiftedAll(recent_deaths, now) => DeathsPast'
<1>1. now \in Nat /\ last_event_epoch' = now
  BY ParameterAssumption DEF Stamp
<1>2. ScreenShifted(now) => ScreenPast'
  BY <1>1, PastStep DEF ScreenShifted, ScreenPast, NotAhead
<1>3. GameShifted(now) => GamePast'
  BY <1>1, PastStep DEF GameShifted, GamePast, NotAhead
<1>4. \A pending \in BOOLEAN : (IntervalShifted(now, pending) \/ emit_bg_summary(now, pending)) => IntervalPast'
  BY <1>1, PastStep DEF IntervalShifted, emit_bg_summary, IntervalPast, NotAhead
<1>5. recent_deaths' = ShiftedAll(recent_deaths, now) => DeathsPast'
  BY <1>1, PastStep DEF TableInPast, DeathsPast, NotAhead
<1> QED
  BY <1>2, <1>3, <1>4, <1>5

LEMMA AlivePastStep ==
    ASSUME NEW now \in Epoch, last_event_epoch' = now,
           NEW alive \in AnchorTable, TableInPast(alive, now),
           NEW pkg_of, NEW pids_of \in PidSets,
           \/ evaluate_reaping_pipeline(now, alive, pkg_of, pids_of)
           \/ NoPass(alive, pkg_of, pids_of)
    PROVE  AlivePast'
<1>1. now \in Nat
  BY ParameterAssumption
<1>2. \A k \in Pkg : alive_apps'[k] \in {None, now, alive[k]}
  BY PassAnchors DEF NoPass
<1> QED
  BY <1>1, <1>2 DEF TableInPast, AlivePast, NotAhead

LEMMA AnchorsStep ==
    ASSUME TypeOK, AnchorsInPast, [Next]_vars
    PROVE  AnchorsInPast'
<1> USE DEF PidSets
<1>0. /\ Epoch \subseteq Nat
      /\ \A now \in Epoch : /\ ShiftedAll(alive_apps, now) \in AnchorTable
                            /\ ShiftedAll(recent_deaths, now) \in AnchorTable
                            /\ TableInPast(ShiftedAll(alive_apps, now), now)
                            /\ TableInPast(ShiftedAll(recent_deaths, now), now)
      /\ pkg_to_pids \in PidSets
      /\ bg_pending \in BOOLEAN
  BY ParameterAssumption, ShiftType, PastStep DEF TypeOK
<1>1. ASSUME NEW now \in Epoch, NEW pkg \in Pkg, on_resume_activity(now, pkg)
      PROVE  AnchorsInPast'
  <2> DEFINE stamped == [k \in Pkg |-> IF k \in Departing(pkg) THEN now
                                       ELSE ShiftedAll(alive_apps, now)[k]]
  <2>1. Stamp(now) /\ last_event_epoch' = now
    BY <1>1 DEF on_resume_activity, Stamp
  <2>2. stamped \in AnchorTable /\ TableInPast(stamped, now)
    BY <1>0 DEF AnchorTable, TableInPast
  <2>3. \/ evaluate_reaping_pipeline(now, stamped, pid_to_pkg, pkg_to_pids)
        \/ NoPass(stamped, pid_to_pkg, pkg_to_pids)
    BY <1>1 DEF on_resume_activity
  <2> HIDE DEF stamped
  <2>4. AlivePast'
    BY <1>0, <2>1, <2>2, <2>3, AlivePastStep
  <2>5. ScreenPast' /\ IntervalPast' /\ DeathsPast'
    BY <1>0, <1>1, <2>1, PastParts DEF on_resume_activity
  <2>6. GamePast'
    BY <1>0, <1>1, <2>1, PastStep DEF on_resume_activity, GameSwitched, GamePast, NotAhead
  <2> QED
    BY <2>4, <2>5, <2>6 DEF AnchorsInPast, AlivePast, DeathsPast, ScreenPast, GamePast, IntervalPast
<1>2. ASSUME NEW now \in Epoch, NEW pid \in Pid, NEW uid \in Uid, NEW pkg \in Pkg,
             NEW top \in BOOLEAN, on_proc_start(now, pid, uid, pkg, top)
      PROVE  AnchorsInPast'
  <2> DEFINE alive == ShiftedAll(alive_apps, now)
             deaths == ShiftedAll(recent_deaths, now)
             tracked == IF uid = "app" /\ alive[pkg] = None
                        THEN [alive EXCEPT ![pkg] = now] ELSE alive
             pkg_of == [pid_to_pkg EXCEPT ![pid] = pkg]
             pids_of == [pkg_to_pids EXCEPT ![pkg] = @ \cup {pid}]
  <2>1. Stamp(now) /\ last_event_epoch' = now
    BY <1>2 DEF on_proc_start, Stamp
  <2>2. tracked \in AnchorTable /\ TableInPast(tracked, now)
    <3>1. alive \in AnchorTable /\ TableInPast(alive, now) /\ now \in Nat
      BY <1>0
    <3> HIDE DEF alive
    <3> QED
      BY <3>1 DEF AnchorTable, TableInPast
  <2>3. pids_of \in PidSets
    BY <1>0
  <2>4. \/ evaluate_reaping_pipeline(now, tracked, pkg_of, pids_of)
        \/ NoPass(tracked, pkg_of, pids_of)
    BY <1>2 DEF on_proc_start
  <2>5. AlivePast'
    <3> HIDE DEF tracked, pkg_of, pids_of
    <3> QED
      BY <2>1, <2>2, <2>3, <2>4, AlivePastStep
  <2>6. ScreenPast' /\ GamePast'
    BY <1>2, <2>1, PastParts DEF on_proc_start
  <2>7. IntervalPast'
    <3>1. (bg_pending \/ current_fg # pkg) \in BOOLEAN
      OBVIOUS
    <3> QED
      BY <1>2, <2>1, <3>1, PastParts DEF on_proc_start
  <2>8. DeathsPast'
    <3>1. deaths \in AnchorTable /\ TableInPast(deaths, now)
      BY <1>0
    <3>2. recent_deaths' = [deaths EXCEPT ![pkg] = None]
      BY <1>2 DEF on_proc_start
    <3> HIDE DEF deaths
    <3> QED
      BY <2>1, <3>1, <3>2 DEF AnchorTable, TableInPast, DeathsPast, NotAhead
  <2> QED
    BY <2>5, <2>6, <2>7, <2>8 DEF AnchorsInPast, AlivePast, DeathsPast, ScreenPast, GamePast, IntervalPast
<1>3. ASSUME NEW now \in Epoch, NEW pid \in Pid, on_proc_died(now, pid)
      PROVE  AnchorsInPast'
  <2> DEFINE alive == ShiftedAll(alive_apps, now)
             deaths == ShiftedAll(recent_deaths, now)
             pkg == pid_to_pkg[pid]
  <2>1. Stamp(now) /\ last_event_epoch' = now /\ now \in Nat
    BY <1>0, <1>3 DEF on_proc_died, Survivors, Stamp
  <2>2. /\ alive \in AnchorTable /\ TableInPast(alive, now)
        /\ deaths \in AnchorTable /\ TableInPast(deaths, now)
        /\ pkg \in Pkg \cup {None}
    BY <1>0 DEF TypeOK
  <2>3. AlivePast'
    <3>1. alive_apps' = alive \/ alive_apps' = [alive EXCEPT ![pkg] = None]
      BY <1>3 DEF on_proc_died, Survivors, NoPass
    <3> HIDE DEF alive, pkg
    <3> QED
      BY <2>1, <2>2, <3>1 DEF AnchorTable, TableInPast, AlivePast, NotAhead
  <2>4. DeathsPast'
    <3>1. recent_deaths' = deaths \/ (pkg \in Pkg /\ recent_deaths' = DeathRecorded(deaths, pkg, now))
      BY <1>3, <2>2 DEF on_proc_died, Survivors
    <3> HIDE DEF deaths, pkg
    <3>2. \A k \in Pkg : recent_deaths'[k] \in {None, now, deaths[k]}
      BY <2>1, <2>2, <3>1, DeathRecordedType
    <3> QED
      BY <2>1, <2>2, <3>2 DEF TableInPast, DeathsPast, NotAhead
  <2>5. ScreenPast' /\ GamePast'
    BY <1>3, <2>1, PastParts DEF on_proc_died, Survivors
  <2>6. IntervalPast'
    <3>1. (bg_pending \/ current_fg # pkg) \in BOOLEAN
      OBVIOUS
    <3>2. \/ IntervalShifted(now, bg_pending)
          \/ IntervalShifted(now, bg_pending \/ current_fg # pkg)
      BY <1>3 DEF on_proc_died, Survivors
    <3> QED
      BY <1>0, <2>1, <3>1, <3>2, PastParts
  <2> QED
    BY <2>3, <2>4, <2>5, <2>6 DEF AnchorsInPast, AlivePast, DeathsPast, ScreenPast, GamePast, IntervalPast
<1>4. ASSUME NEW now \in Epoch, NEW on \in BOOLEAN, on_screen_toggled(now, on)
      PROVE  AnchorsInPast'
  <2>1. Stamp(now) /\ last_event_epoch' = now /\ now \in Nat /\ now # None
    BY <1>0, <1>4, NoneAssumption DEF on_screen_toggled, Stamp
  <2>2. AlivePast'
    BY <1>0, <1>4, <2>1, AlivePastStep DEF on_screen_toggled
  <2>3. GamePast' /\ IntervalPast' /\ DeathsPast'
    BY <1>0, <1>4, <2>1, PastParts DEF on_screen_toggled
  <2>4. ScreenPast'
    BY <1>4, <2>1, PastParts DEF on_screen_toggled, ScreenPast, NotAhead
  <2> QED
    BY <2>2, <2>3, <2>4 DEF AnchorsInPast, AlivePast, DeathsPast, ScreenPast, GamePast, IntervalPast
<1>5. ASSUME NEW now \in Epoch, on_device_idle_light_step(now)
      PROVE  AnchorsInPast'
  <2>1. Stamp(now) /\ last_event_epoch' = now
    BY <1>5 DEF on_device_idle_light_step, Stamp
  <2>2. AlivePast'
    BY <1>0, <1>5, <2>1, AlivePastStep DEF on_device_idle_light_step
  <2>3. ScreenPast' /\ GamePast' /\ IntervalPast' /\ DeathsPast'
    BY <1>0, <1>5, <2>1, PastParts DEF on_device_idle_light_step
  <2> QED
    BY <2>2, <2>3 DEF AnchorsInPast, AlivePast, DeathsPast, ScreenPast, GamePast, IntervalPast
<1>6. CASE reload_configs \/ UNCHANGED vars
  BY <1>6 DEF reload_configs, vars, screen, game, AnchorsInPast, NotAhead
<1> QED
  BY <1>1, <1>2, <1>3, <1>4, <1>5, <1>6 DEF Next, dispatch_logcat_line

\* No anchor is ever ahead of the clock, whatever steps the clock makes:
\* the saturating subtractions of the code never hide a negative age.
THEOREM AnchorsCorrect == Spec => []AnchorsInPast
<1>1. Init => AnchorsInPast
  BY ParameterAssumption DEF Init, new, AnchorsInPast, NotAhead
<1>2. TypeOK /\ AnchorsInPast /\ [Next]_vars => AnchorsInPast'
  BY AnchorsStep
<1> QED
  BY <1>1, <1>2, TypeCorrect, PTL DEF Spec
=============================================================================
