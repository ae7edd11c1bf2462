-------------------------------- MODULE Kill --------------------------------
(***************************************************************************)
(* The reaping pipeline (kill.rs): scan the tracked packages, reconcile    *)
(* the process tables with the processes found dead, dispatch the first    *)
(* max_kills_per_pass candidates.                                          *)
(*                                                                         *)
(* It is the last call of the handlers that make it, so it reads what the  *)
(* handler has just written: current_fg', fg_lru', screen_off_start'.  The *)
(* tables it rewrites itself come as arguments.                            *)
(*                                                                         *)
(* /proc is an input read anew by every pass: which pids have a resident   *)
(* set, whether memory is critical, which candidates' oom_score_adj is     *)
(* below min_oom_score_adj.  Resident sets only order the candidates, and  *)
(* any order can be read, so any of them may be the heaviest.  How a       *)
(* dispatch is carried out (observe, AMS, SIGKILL) changes none of this    *)
(* state: only ams_protected does.                                         *)
(***************************************************************************)
EXTENDS DaemonState

effective_lru_depth ==
    IF ~screen_on' /\ config.screen_off_harvest
    THEN SmallerOf(config.lru_protect_depth, 1)
    ELSE config.lru_protect_depth

\* The idle ceiling of the situation the device is in, if there is one.
t_idle_effective_sec(now, alive, is_low_mem) ==
    LET t == config.t_idle_sec
        fg_anchor == IF current_fg' = None THEN None ELSE alive[current_fg']
    IN  IF current_fg' \in games \/ is_low_mem
        THEN SmallerOf(t, EscalatedIdleSec)
        ELSE IF ~screen_on' /\ config.screen_off_harvest
        THEN IF ElapsedSecOpt(now, screen_off_start') > HarvestAfterSec
             THEN SmallerOf(t, HarvestIdleSec)
             ELSE SmallerOf(t, RelaxedIdleSec)
        ELSE IF ElapsedSecOpt(now, fg_anchor) > StationaryAfterSec
             THEN SmallerOf(t, RelaxedIdleSec)
             ELSE t

\* The packages in the first `depth` positions of the foreground history.
Shielded(lru, depth) == {lru[i] : i \in {j \in 1..Len(lru) : j <= depth}}

\* The tracked packages that pass the exclusion, LRU and idle gates.
Expired(now, alive, is_low_mem) ==
    {k \in Pkg :
        /\ alive[k] # None
        /\ ~is_excluded(k, current_fg')
        /\ k \notin Shielded(fg_lru', effective_lru_depth)
        /\ ElapsedSec(now, alive[k]) >= t_idle_effective_sec(now, alive, is_low_mem)}

\* The packages among them that own a process with a resident set.
scan_candidates(expired, pids_of, readable) ==
    {k \in expired : pids_of[k] \cap readable # {}}

\* Mutant: every dispatch re-anchors its package.
AlwaysReanchored(now, ams_protected) == now

\* The anchor a dispatch leaves behind: a protected package is re-anchored,
\* any other leaves the tracked set.
dispatch_candidate(now, ams_protected) == IF ams_protected THEN now ELSE None

check_mem_critical ==
    IF config.mem_critical_percent = 0 THEN {FALSE} ELSE BOOLEAN

\* Mutant: the dead pids stay in the forward index.
DeadKept(pkg_of, pids_of, expired, readable) == pkg_of

\* Mutant: every pid of a scanned package leaves the forward index.
ScannedForgotten(pkg_of, pids_of, expired, readable) ==
    [p \in Pid |-> IF \E k \in expired : p \in pids_of[k] THEN None ELSE pkg_of[p]]

\* A pid found dead under any scanned package loses its forward entry,
\* whichever package that entry names.
Purged(pkg_of, pids_of, expired, readable) ==
    [p \in Pid |->
        IF \E k \in expired : p \in pids_of[k] \ readable THEN None ELSE pkg_of[p]]

Retained(pids_of, expired, readable) ==
    [k \in Pkg |-> IF k \in expired THEN pids_of[k] \cap readable ELSE pids_of[k]]

\* What a pass writes, once it is known which packages expired, which of
\* the scanned pids are alive, which candidates were taken and which of
\* these turned out protected.
Reaped(now, alive, pkg_of, pids_of, expired, readable, taken, protected) ==
    /\ pid_to_pkg' = Purged(pkg_of, pids_of, expired, readable)
    /\ pkg_to_pids' = Retained(pids_of, expired, readable)
    /\ alive_apps' = [k \in Pkg |->
         IF k \in taken THEN dispatch_candidate(now, k \in protected)
         ELSE IF k \in expired /\ pids_of[k] \cap readable = {} THEN None
         ELSE alive[k]]
    /\ pass' = {[pkg |-> k, ams_protected |-> k \in protected] : k \in taken}

evaluate_reaping_pipeline(now, alive, pkg_of, pids_of) ==
    \E is_low_mem \in check_mem_critical :
      LET expired == Expired(now, alive, is_low_mem)
      IN \E readable \in SUBSET UNION {pids_of[k] : k \in expired} :
         LET candidates == scan_candidates(expired, pids_of, readable)
             slots == SmallerOf(config.max_kills_per_pass, Cardinality(candidates))
         IN \E taken \in {s \in SUBSET candidates : Cardinality(s) = slots} :
            \E protected \in SUBSET taken :
              Reaped(now, alive, pkg_of, pids_of, expired, readable, taken, protected)

\* A handler that returns without running the pipeline.
NoPass(alive, pkg_of, pids_of) ==
    /\ alive_apps' = alive
    /\ pid_to_pkg' = pkg_of
    /\ pkg_to_pids' = pids_of
    /\ pass' = {}
=============================================================================
