----------------------------- MODULE MCIdleAge -----------------------------
(***************************************************************************)
(* Instances of module IdleAge for TLC.                                    *)
(***************************************************************************)
EXTENDS IdleAge, TLC

CONSTANTS MaxEpoch, Depths, IdleSecs, LruDepths, Harvest

MCEpoch == 0..MaxEpoch

\* The configuration with the shortest ceiling is the one with the shortest
\* history too.
MCConfig ==
    {c \in [t_idle_sec : IdleSecs, lru_protect_depth : Depths, fg_lru_max_depth : LruDepths,
             mem_critical_percent : {0}, screen_off_harvest : Harvest,
             max_kills_per_pass : {1}] : c.t_idle_sec = 0 <=> c.fg_lru_max_depth = 1}

\* No package is a default of the device and nothing runs at startup.
MCInit ==
    /\ AgedInit
    /\ dynamic_exclusions = {}
    /\ \A p \in Pid : pid_to_pkg[p] = None

MCSpec == MCInit /\ [][AgedNext]_avars

Symmetry == Permutations(Pkg)

\* What decides the next steps and the properties: the telemetry sessions
\* and the deaths are written and never read by anything else.  (That the
\* deaths are a function of the packages is always true: asking makes TLC
\* evaluate the table before it stores the state.)
DecisionView ==
    <<config, user_exclusions, games, alive_apps, tables, pkg_to_uid, fg_lru,
      current_fg, screen_on, screen_off_start, last_event_epoch, since_use,
      signalled, recent_deaths \in [Pkg -> Epoch \cup {None}]>>
=============================================================================
