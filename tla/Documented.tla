----------------------------- MODULE Documented -----------------------------
(***************************************************************************)
(* What README.md, docs/ARCHITECTURE.md and the comments of events.rs say  *)
(* of the daemon's state, stated of module Daemon as they say it.  The     *)
(* runs of this module look for the behaviour of the code that disagrees.  *)
(***************************************************************************)
EXTENDS Daemon

(* Transient sessions, on a device whose clock only shows elapsed time.    *)

VARIABLE entered    \* when the foreground package came to the foreground

dvars == <<vars, entered>>

EnteredInit == Init /\ entered = last_event_epoch

EnteredNext ==
    /\ Next
    /\ last_event_epoch' >= last_event_epoch
    /\ entered' = IF current_fg' # current_fg THEN last_event_epoch' ELSE entered

EnteredSpec == EnteredInit /\ [][EnteredNext]_dvars

\* "If the departed package was only in foreground for < 500ms [...] evict
\* it from fg_lru" (events.rs, on_resume_activity).  A stay of no measured
\* length is left out: the code needs prev_dur_ms > 0.
DepartedAfterFlash ==
    /\ current_fg # None /\ current_fg' # current_fg
    /\ pkg_to_uid[current_fg] = "app"
    /\ entered < last_event_epoch'
    /\ last_event_epoch' - entered < TrampolineMs

FlashesPruned ==
    [][DepartedAfterFlash => \A i \in DOMAIN fg_lru' : fg_lru'[i] # current_fg]_dvars
=============================================================================
