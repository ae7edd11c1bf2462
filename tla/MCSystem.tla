------------------------------ MODULE MCSystem ------------------------------
(***************************************************************************)
(* Instances of module System for TLC.  The clock stands still: a pass     *)
(* finds every tracked package expired under memory pressure (its ceiling  *)
(* is then 0), and none otherwise.                                         *)
(***************************************************************************)
EXTENDS System, TLC

CONSTANTS LruDepths

MCConfig ==
    [t_idle_sec : {9}, lru_protect_depth : {0}, fg_lru_max_depth : LruDepths,
     mem_critical_percent : {10}, screen_off_harvest : {FALSE},
     max_kills_per_pass : {1}]

\* Nothing is excluded and the display is on.
MCInit == SystemInit /\ dynamic_exclusions = {} /\ screen_on = TRUE

MCSpec == MCInit /\ [][SystemNext]_svars

Symmetry == Permutations(Pkg) \cup Permutations(Pid)

\* What decides the next steps and the properties.
TablesView ==
    <<lists, alive_apps, tables, pkg_to_uid, fg_lru, current_fg,
      proc, last, log, unseeded, attached, history>>
=============================================================================
