--------------------------- MODULE MCConfigReload ---------------------------
(***************************************************************************)
(* Instances of module ConfigReload for TLC.                               *)
(***************************************************************************)
EXTENDS ConfigReload

CONSTANTS a, b

\* A valid burst among values out of range, unparsed, and of no known key;
\* and a file that has lost the burst.
MCConfText ==
    { <<Assigns("max_kills_per_pass", <<"num", 3>>), Assigns("min_oom_score_adj", <<"num", 300>>)>>,
      <<Assigns("max_kills_per_pass", <<"num", 0>>), Assigns("t_idle_sec", <<"num", -1>>)>>,
      <<Assigns("log_enabled", <<"text">>), Assigns("unknown", <<"bool", TRUE>>)>> }

MCListText == {<<>>, <<a>>}

MCDefaults ==
    LET held(home, dialer, ime) ==
          [q \in Role \cup Setting |-> IF q = "HOME" THEN home
                                       ELSE IF q = "DIALER" THEN dialer
                                       ELSE IF q = "default_input_method" THEN ime
                                       ELSE Absent]
    IN  {held(a, b, Absent), held(b, Absent, a)}
=============================================================================
