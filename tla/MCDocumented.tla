---------------------------- MODULE MCDocumented ----------------------------
(***************************************************************************)
(* Instances of module Documented for TLC, scaled as in MCDaemon.          *)
(***************************************************************************)
EXTENDS Documented

CONSTANTS MaxEpoch, LruDepths

MCEpoch == 0..MaxEpoch

MCConfig ==
    [t_idle_sec : {9}, lru_protect_depth : {1}, fg_lru_max_depth : LruDepths,
     mem_critical_percent : {0}, screen_off_harvest : {TRUE},
     max_kills_per_pass : {1}]

\* Nothing is excluded and the display is on.
MCInit == EnteredInit /\ dynamic_exclusions = {} /\ screen_on = TRUE

MCSpec == MCInit /\ [][EnteredNext]_dvars
=============================================================================
