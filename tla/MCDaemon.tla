------------------------------ MODULE MCDaemon ------------------------------
(***************************************************************************)
(* Instances of module Daemon for TLC.  A second is one millisecond and    *)
(* the thresholds are scaled down, in the order they have in the code.     *)
(***************************************************************************)
EXTENDS Daemon

CONSTANTS MaxEpoch, IdleSecs, ShieldDepths, LruDepths, Kills, MemPercents,
          GameFiles

MCEpoch == 0..MaxEpoch

MCConfig ==
    [t_idle_sec : IdleSecs, lru_protect_depth : ShieldDepths,
     fg_lru_max_depth : LruDepths, mem_critical_percent : MemPercents,
     screen_off_harvest : {TRUE}, max_kills_per_pass : Kills]

MCGames == {{}} \cup {{k} : k \in GameFiles}
=============================================================================
