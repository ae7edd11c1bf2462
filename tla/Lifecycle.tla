------------------------------ MODULE Lifecycle ------------------------------
(***************************************************************************)
(* The life of the daemon under its supervisor, as operations.log tells it *)
(* (daemon.rs, main.rs, telemetry.rs, run-daemon.sh): initialisation that  *)
(* may fail, the held startup record, records and reloads, rotation, a log *)
(* that the operator switches off and on, and exits of every kind, after   *)
(* which the supervisor starts the next daemon on the same files.          *)
(*                                                                         *)
(* A daemon moves through the phases                                       *)
(*   down -> created (the sink exists) -> loaded (the first reload is      *)
(*   done) -> ready (logcat is watched) -> starting -> idle <-> batch (of  *)
(*   epoll_wait) <-> announcing (a change of the configuration)            *)
(* and any phase ends in down, through failing and exiting where it ends   *)
(* by fatal().  A step is a call of the daemon's main thread on its sink:  *)
(* SIGKILL may fall between any two, and so between the emission of a      *)
(* record and its flush.                                                   *)
(***************************************************************************)
EXTENDS Telemetry

CONSTANTS
    MaxDaemons,     \* bound: the daemons started
    MaxRecords,     \* bound: the records one daemon emits
    MaxEdits        \* bound: the edits of the configuration and of the log

ASSUME LifecycleAssumption ==
    /\ MaxDaemons \in Nat /\ MaxRecords \in Nat /\ MaxEdits \in Nat

VARIABLES
    phase,
    sink,
    conf,           \* daemon.conf: log_enabled, and all else it says
    config,         \* the configuration in force
    no_log_cli,     \* the command line says --no-log
    startup_record, \* the record new() holds for run(), or none

    daemon,         \* history: the number of this daemon
    owed,           \* history: its log was on when it had read its files
    killed,         \* history: it ended by SIGKILL
    edits,          \* history: edits of the configuration and of the log
    meddled         \* history: the log was edited while it was off

files == <<edits, meddled>>
ghosts == <<daemon, owed, killed>>
vars == <<phase, sink, conf, config, no_log_cli, startup_record, ghosts, files>>

Conf == [log_enabled : BOOLEAN, rest : {1, 2}]

Nothing == [log_enabled |-> FALSE, rest |-> 0]

Init ==
    /\ phase = "down"
    /\ sink = NoFiles
    /\ conf \in Conf
    /\ config = Nothing
    /\ no_log_cli = FALSE
    /\ startup_record = Nothing
    /\ daemon = 0
    /\ owed = FALSE
    /\ killed = FALSE
    /\ edits = 0
    /\ meddled = FALSE

-----------------------------------------------------------------------------
(* Records.                                                                *)

want_log(c) == c.log_enabled /\ ~no_log_cli

Record(kind, c, k) ==
    [daemon |-> daemon, seq |-> k, kind |-> kind, log_enabled |-> want_log(c), rest |-> c.rest]

\* A sink that is off is silent: the record is not even rendered.
emit_with(s, kind, c) ==
    IF ~s.open THEN {s}
    ELSE write_to_log([s EXCEPT !.emitted = @ + 1], Record(kind, c, s.emitted + 1))

\* The held startup record, once, is emitted.
emit_startup_record ==
    /\ startup_record' = Nothing
    /\ sink' \in IF startup_record = Nothing THEN {sink} ELSE emit_with(sink, "config", startup_record)

\* And flushed, in whichever of its callers.
StartupFlushed ==
    /\ phase \in {"starting", "failing"}
    /\ phase' = IF phase = "starting" THEN "idle" ELSE "exiting"
    /\ sink' \in flush(sink)
    /\ UNCHANGED <<conf, config, no_log_cli, startup_record, ghosts, files>>

\* What process::exit leaves of a flushed sink.
fatal ==
    /\ phase = "exiting"
    /\ phase' = "down"
    /\ sink' \in {Released(s) : s \in flush(sink)}
    /\ UNCHANGED <<conf, config, no_log_cli, startup_record, ghosts, files>>

-----------------------------------------------------------------------------
(* Initialisation.                                                         *)

NewDaemon ==
    /\ phase = "down"
    /\ daemon < MaxDaemons
    /\ daemon' = daemon + 1
    /\ owed' = FALSE
    /\ killed' = FALSE
    /\ config' = Nothing
    /\ no_log_cli' \in BOOLEAN

\* The supervisor starts the binary, which reads daemon.conf once before the
\* sink exists so that a log that is switched off is not even created.
Start ==
    /\ NewDaemon
    /\ phase' = "created"
    /\ sink' \in with_stdout(sink, conf.log_enabled /\ ~no_log_cli')
    /\ UNCHANGED <<conf, startup_record, files>>

\* epoll_create1, inotify_init1 or epoll_ctl failed: there is no sink yet.
fatal_exit ==
    /\ NewDaemon
    /\ sink' = [sink EXCEPT !.emitted = 0]
    /\ UNCHANGED <<phase, conf, startup_record, files>>

\* The first reload_configs: its record is held for run().
FirstReload ==
    /\ phase = "created"
    /\ phase' = "loaded"
    /\ config' = conf
    /\ startup_record' = conf
    /\ sink' \in IF want_log(conf)
                 THEN Then(set_log_enabled(sink, TRUE), flush)
                 ELSE set_log_enabled(sink, FALSE)
    /\ owed' = sink'.open
    /\ UNCHANGED <<conf, no_log_cli, daemon, killed, files>>

\* What the probe makes of a fresh logcat: it must not have exited, and its
\* pipe must be valid and not hung up.
probe_logcat_stream(child, pipe) == child = "running" /\ pipe = "quiet"

\* Whether logcat was spawned, passed the probe and is watched by epoll.
spawn_logcat_stream(spawned, child, pipe, watched) ==
    spawned /\ probe_logcat_stream(child, pipe) /\ watched

\* The rest of new(): a daemon without its logcat does not come to run().
LogcatSpawned ==
    /\ phase = "loaded"
    /\ \E spawned, watched \in BOOLEAN, child \in {"running", "exited", "unknown"},
          pipe \in {"quiet", "hung up", "invalid"} :
         IF spawn_logcat_stream(spawned, child, pipe, watched)
         THEN /\ phase' = "ready"
              /\ UNCHANGED <<sink, startup_record>>
         ELSE phase' = "failing" /\ emit_startup_record
    /\ UNCHANGED <<conf, config, no_log_cli, daemon, owed, killed, files>>

\* run() begins: the table has its header, the held record is written.
run ==
    /\ phase = "ready"
    /\ phase' = "starting"
    /\ emit_startup_record
    /\ UNCHANGED <<conf, config, no_log_cli, daemon, owed, killed, files>>

-----------------------------------------------------------------------------
(* The batches of run().                                                   *)

\* A handler emits a record.
Event ==
    /\ phase \in {"idle", "batch"}
    /\ phase' = "batch"
    /\ sink.emitted < MaxRecords
    /\ sink' \in emit_with(sink, "event", config)
    /\ UNCHANGED <<conf, config, no_log_cli, startup_record, daemon, owed, killed, files>>

\* Mutant: the switch is applied once the record is written.
SwitchedAfter(s) ==
    Then(emit_with(s, "config", conf), LAMBDA t : set_log_enabled(t, want_log(conf)))

\* A log that is re-enabled is opened before the record that says so.
Announced(s) ==
    IF want_log(conf)
    THEN Then(set_log_enabled(s, TRUE), LAMBDA t : emit_with(t, "config", conf))
    ELSE emit_with(s, "config", conf)

\* reload_configs once the daemon runs: only a change is announced.
reload_configs ==
    /\ phase \in {"idle", "batch"}
    /\ config' = conf
    /\ IF conf = config
       THEN phase' = "batch" /\ UNCHANGED sink
       ELSE sink.emitted < MaxRecords /\ phase' = "announcing" /\ sink' \in Announced(sink)
    /\ UNCHANGED <<conf, no_log_cli, startup_record, daemon, owed, killed, files>>

\* Mutant: the record waits for the end of the batch.
SettledLater(s) == IF want_log(config) THEN {s} ELSE set_log_enabled(s, FALSE)

\* The record is flushed at once, by closing the log if it is now disabled.
Settled(s) == IF want_log(config) THEN flush(s) ELSE set_log_enabled(s, FALSE)

ReloadSettled ==
    /\ phase = "announcing"
    /\ phase' = "batch"
    /\ sink' \in Settled(sink)
    /\ UNCHANGED <<conf, config, no_log_cli, startup_record, ghosts, files>>

EndBatch ==
    /\ phase = "batch"
    /\ phase' = "idle"
    /\ sink' \in flush(sink)
    /\ UNCHANGED <<conf, config, no_log_cli, startup_record, ghosts, files>>

-----------------------------------------------------------------------------
(* Exits.                                                                  *)

\* epoll_wait or read(2) fails, or the pipe of logcat hangs up.
ReactorFails ==
    /\ phase \in {"idle", "batch"}
    /\ phase' = "exiting"
    /\ UNCHANGED <<sink, conf, config, no_log_cli, startup_record, ghosts, files>>

\* SIGTERM ends the loop.
Shutdown ==
    /\ phase = "idle"
    /\ phase' = "down"
    /\ \E s \in flush(sink) : sink' = Released(s)
    /\ UNCHANGED <<conf, config, no_log_cli, startup_record, ghosts, files>>

\* A module upgrade, the low-memory killer or a crash: the buffer is gone,
\* and so is the startup record that is held.
Sigkill ==
    /\ phase # "down"
    /\ phase' = "down"
    /\ sink' = Released(sink)
    /\ startup_record' = Nothing
    /\ killed' = TRUE
    /\ UNCHANGED <<conf, config, no_log_cli, daemon, owed, files>>

-----------------------------------------------------------------------------
(* The operator.                                                           *)

Edit == edits < MaxEdits /\ edits' = edits + 1

EditConf ==
    /\ Edit
    /\ conf' \in Conf \ {conf}
    /\ UNCHANGED <<phase, sink, config, no_log_cli, startup_record, ghosts, meddled>>

Foreign == [daemon |-> 0, seq |-> 0, kind |-> "event", log_enabled |-> FALSE, rest |-> 0]

\* operations.log is truncated or grows while no daemon holds it.
EditLog ==
    /\ Edit
    /\ ~sink.open
    /\ \E log \in {<<>>, sink.log \o [i \in 1..Cap |-> Foreign]} : sink' = [sink EXCEPT !.log = log]
    /\ meddled' = TRUE
    /\ UNCHANGED <<phase, conf, config, no_log_cli, startup_record, ghosts>>

Operator == EditConf \/ EditLog

Daemon ==
    \/ Start \/ fatal_exit \/ FirstReload \/ LogcatSpawned \/ run \/ StartupFlushed
    \/ Event \/ reload_configs \/ ReloadSettled \/ EndBatch
    \/ ReactorFails \/ fatal \/ Shutdown

Next == Daemon \/ Sigkill \/ Operator

Spec == Init /\ [][Next]_vars

-----------------------------------------------------------------------------
(* Properties.                                                             *)

\* The buffer is bounded and exists only while a daemon holds the log; the
\* startup record is held exactly between the first reload and run().
TypeOK ==
    /\ phase \in {"down", "created", "loaded", "ready", "starting", "idle", "batch", "announcing",
                 "failing", "exiting"}
    /\ Len(sink.buffer) <= BufferCap
    /\ sink.buffer # <<>> => sink.open
    /\ sink.open => phase # "down"
    /\ startup_record # Nothing <=> phase \in {"loaded", "ready"}

\* Rotation keeps an open log below its threshold even when the file grew or
\* shrank while it was off, and however often daemons die on it; a rename
\* that fails costs at most one more threshold's worth (telemetry.rs:190-251).
CapHeld ==
    sink.open =>
        LET size == Len(sink.log) + Len(sink.buffer)
        IN  /\ sink.stuck = 0 => size < Cap
            /\ ~meddled => size < Cap * (sink.stuck + 1)

\* Both files, oldest first.
Files == sink.old \o sink.log

Follows(r, s) == r.daemon < s.daemon \/ (r.daemon = s.daemon /\ r.seq < s.seq)

NextTo(r, s) == IF r.daemon = s.daemon THEN s.seq = r.seq + 1 ELSE s.seq = 1

Undisturbed == sink.failed = 0 /\ ~meddled

\* Whatever else the operator put there, the records of the daemons are in
\* the order of emission through both files, rotations, restarts, kills and
\* faults; and unless a call failed or the log was edited, no record between
\* two kept ones is missing.
OrderedLog ==
    /\ \A i, j \in DOMAIN Files :
         i < j /\ Files[i].daemon # 0 /\ Files[j].daemon # 0 => Follows(Files[i], Files[j])
    /\ Undisturbed => \A i \in 1..(Len(Files) - 1) : NextTo(Files[i], Files[i + 1])

\* A configuration record has been emitted, and is yet to be flushed.
Announcing == phase \in {"starting", "failing", "announcing"}

\* Whenever the daemon sleeps, and whenever it has ended other than by
\* SIGKILL, the last record it emitted is on disk; and one that had read its
\* files while the log was on has left its configuration there, however
\* early it failed.  SIGKILL loses what is buffered: the events of a batch,
\* and a configuration record only in the one step between its emission and
\* its flush; and before that the startup record that is held for run()
\* (daemon.rs:226-236, 358-395).
NothingLost ==
    Undisturbed =>
        /\ phase = "idle" \/ (phase = "down" /\ ~killed) =>
             /\ owed => sink.emitted > 0
             /\ sink.emitted > 0 =>
                  /\ Files # <<>>
                  /\ Files[Len(Files)].daemon = daemon
                  /\ Files[Len(Files)].seq = sink.emitted
        /\ \A i \in DOMAIN sink.buffer :
             sink.buffer[i].kind = "config" => Announcing /\ i = Len(sink.buffer)

\* A record in which this daemon tells its configuration.
Announces(r) == r.daemon = daemon /\ r.kind = "config"

\* The last configuration record still in the files tells what is in force,
\* and is the last line of a log that has been switched off (daemon.rs:350-376).
SwitchesAnnounced ==
    Undisturbed /\ phase = "idle" =>
        \A i \in DOMAIN Files :
            Announces(Files[i]) /\ (\A j \in DOMAIN Files : i < j => ~Announces(Files[j])) =>
                /\ Files[i].log_enabled = sink.open
                /\ sink.open => Files[i].rest = config.rest
                /\ ~sink.open => i = Len(Files)
=============================================================================
