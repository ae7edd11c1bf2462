----------------------------- MODULE ConfigReload -----------------------------
(***************************************************************************)
(* How the configuration directory comes into force: the daemon's start    *)
(* and its reloads, one system call at a time, against an operator who     *)
(* writes files in place or renames them in, deletes them or moves them    *)
(* out, and removes or replaces the directory (daemon.rs, config.rs).      *)
(*                                                                         *)
(* inotify is one bit: an event is pending or it is not.  A watch belongs  *)
(* to the directory that was at the path when it was added, and its mask   *)
(* leaves out IN_MOVED_FROM: a file that is moved to another directory     *)
(* goes without an event.                                                  *)
(***************************************************************************)
EXTENDS Configuration, FiniteSets

CONSTANTS
    ConfText,   \* the contents the operator gives daemon.conf
    ListText,   \* the contents the operator gives the list files
    Ram,        \* the megabytes the device may have
    Defaults,   \* who may hold the roles and settings of the device
    MayFail,    \* inotify_add_watch may fail
    MaxEdits    \* bound: the operator's edits

ASSUME ReloadAssumption ==
    /\ ConfText \subseteq Seq(ConfLine)
    /\ ListText \subseteq Seq(App)
    /\ Ram \subseteq Nat
    /\ Defaults \subseteq [Role \cup Setting -> App \cup {Absent}]
    /\ MayFail \in BOOLEAN
    /\ MaxEdits \in Nat

VARIABLES
    disk,       \* daemon.conf, exclude.list and games.list
    exists,     \* the directory does
    watched,    \* the directory at the path is the one watched
    pending,    \* inotify is readable
    writing,    \* the file being written in place, and what it will hold
    pc,         \* the next call of the daemon
    started,    \* new() has returned
    config, user_exclusions, games, dynamic_exclusions,
    defaults,       \* who holds each role and setting
    role_manager,   \* the device has one (API 29)
    edits,          \* history: the operator's edits
    moved_out,      \* history: the files moved out since they were last read
    watch_failed,   \* history: the last inotify_add_watch failed
    answered        \* history: the components whose query succeeded

device == <<defaults, role_manager>>
inForce == <<config, user_exclusions, games>>
directory == <<disk, exists, writing, edits>>
notices == <<watched, pending, watch_failed>>
vars == <<directory, moved_out, notices, pc, started, inForce, dynamic_exclusions, answered, device>>

File == {"conf", "exclude", "games"}

Idle == [file |-> Absent]

\* No file yet: the daemon is about to make sure that they exist.
Init ==
    /\ exists \in BOOLEAN
    /\ disk \in [conf : ConfText \cup {Absent}, exclude : ListText \cup {Absent}, games : {Absent}]
    /\ exists \/ \A f \in File : disk[f] = Absent
    /\ watched = FALSE
    /\ pending = FALSE
    /\ writing = Idle
    /\ pc = "files"
    /\ started = FALSE
    /\ config \in {DefaultConfig(detected_default_kills(ram)) : ram \in Ram}
    /\ user_exclusions = {}
    /\ games = {}
    /\ dynamic_exclusions = {}
    /\ defaults \in Defaults
    /\ role_manager \in BOOLEAN
    /\ edits = 0
    /\ moved_out = {}
    /\ watch_failed = FALSE
    /\ answered = {}

-----------------------------------------------------------------------------
(* The daemon.                                                             *)

\* Mutant: the queue is emptied after the files have been read.
DrainedLast(call) ==
    CASE call = "asleep" -> "watch"
      [] call \in {"files", "drain"} -> IF started THEN "asleep" ELSE "watch"
      [] call = "watch" -> "conf"
      [] call = "conf" -> "exclude"
      [] call = "exclude" -> "games"
      [] call = "games" -> IF started THEN "drain" ELSE "detect"
      [] call = "detect" -> "asleep"

\* The order of the calls: new() makes sure of the files, watches and reads
\* them, and asks for the device's components; a reload empties the queue,
\* watches and reads.
After(call) ==
    CASE call = "asleep" -> "drain"
      [] call \in {"files", "drain"} -> "watch"
      [] call = "watch" -> "conf"
      [] call = "conf" -> "exclude"
      [] call = "exclude" -> "games"
      [] call = "games" -> IF started THEN "asleep" ELSE "detect"
      [] call = "detect" -> "asleep"

Call(call) == pc = call /\ pc' = After(call)

\* The files that are missing are created, with what they hold by default.
ensure_default_files ==
    /\ Call("files")
    /\ exists' = TRUE
    /\ disk' = [f \in File |-> IF disk[f] # Absent THEN disk[f]
                               ELSE IF f = "conf" THEN DEFAULT_DAEMON_CONF ELSE <<>>]
    /\ UNCHANGED <<writing, edits, moved_out, notices, started, inForce, dynamic_exclusions, answered, device>>

Wake ==
    /\ Call("asleep")
    /\ pending
    /\ UNCHANGED <<directory, moved_out, notices, started, inForce, dynamic_exclusions, answered, device>>

\* Mutant: only the first event is read.
DrainedOnce == pending

\* What drain leaves of the queue.
Drained == FALSE

drain ==
    /\ Call("drain")
    /\ pending' = Drained
    /\ UNCHANGED <<directory, moved_out, watched, watch_failed, started, inForce, dynamic_exclusions,
                   answered, device>>

\* Mutant: the directory is watched at startup only.
WatchedOnce == exists' = TRUE /\ IF started THEN UNCHANGED <<watched, watch_failed>>
                                ELSE watched' = TRUE /\ watch_failed' = FALSE

\* The directory at the path is created if need be and watched; neither
\* failure is noticed.
ensure_inotify_watch ==
    /\ exists' = TRUE
    /\ \/ watched' = TRUE /\ watch_failed' = FALSE
       \/ MayFail /\ ~watched /\ watched' = FALSE /\ watch_failed' = TRUE

Watch ==
    /\ Call("watch")
    /\ ensure_inotify_watch
    /\ UNCHANGED <<disk, writing, edits, moved_out, pending, started, inForce, dynamic_exclusions,
                   answered, device>>

ReadConf ==
    /\ Call("conf")
    /\ config' = load_from_file(config, disk["conf"])
    /\ moved_out' = moved_out \ {"conf"}
    /\ UNCHANGED <<directory, notices, started, user_exclusions, games, dynamic_exclusions, answered, device>>

ReadExclude ==
    /\ Call("exclude")
    /\ user_exclusions' = load_file_lines(user_exclusions, disk["exclude"])
    /\ moved_out' = moved_out \ {"exclude"}
    /\ UNCHANGED <<directory, notices, started, config, games, dynamic_exclusions, answered, device>>

ReadGames ==
    /\ Call("games")
    /\ games' = load_file_lines(games, disk["games"])
    /\ moved_out' = moved_out \ {"games"}
    /\ UNCHANGED <<directory, notices, started, config, user_exclusions, dynamic_exclusions, answered, device>>

\* What the queries return: the device answers each, or it fails.
RoleReplies(failing) ==
    [r \in Role |-> IF role_manager /\ r \notin failing THEN Answer(defaults[r]) ELSE Failed]

SettingReplies(failing) ==
    [s \in Setting |-> IF s \in failing THEN Failed ELSE Answer(defaults[s])]

HomeReply(failing) == IF "resolve" \in failing THEN Failed ELSE Answer(defaults["HOME"])

Detect ==
    /\ Call("detect")
    /\ started' = TRUE
    /\ \E failing \in SUBSET (Role \cup Setting \cup {"resolve"}) :
         /\ dynamic_exclusions' =
              detect_system_components(RoleReplies(failing), HomeReply(failing), SettingReplies(failing))
         /\ answered' = Named(HomeReply(failing)) \cup NamedByAny(RoleReplies(failing))
                          \cup NamedByAny(SettingReplies(failing))
    /\ UNCHANGED <<directory, moved_out, notices, inForce, device>>

Daemon ==
    \/ ensure_default_files \/ Wake \/ drain \/ Watch
    \/ ReadConf \/ ReadExclude \/ ReadGames \/ Detect

-----------------------------------------------------------------------------
(* The operator and the device.                                            *)

Text(f) == IF f = "conf" THEN ConfText ELSE ListText

\* An event of the directory at the path.
Noticed == pending' = (pending \/ watched)

Others == <<pc, started, inForce, dynamic_exclusions, answered>>

Edit == edits < MaxEdits /\ edits' = edits + 1 /\ UNCHANGED <<Others, watch_failed>>

\* A file is opened for writing, which truncates it (or creates it, and only
\* that is an event).
OpenToWrite(f, text) ==
    /\ Edit
    /\ exists
    /\ writing = Idle
    /\ writing' = [file |-> f, text |-> text]
    /\ disk' = [disk EXCEPT ![f] = <<>>]
    /\ IF disk[f] = Absent THEN Noticed ELSE UNCHANGED pending
    /\ UNCHANGED <<exists, moved_out, watched, device>>

\* Some lines reach the file.
WriteLines ==
    /\ writing # Idle
    /\ LET f == writing.file
       IN  /\ Len(disk[f]) < Len(writing.text)
           /\ disk' = [disk EXCEPT ![f] = SubSeq(writing.text, 1, Len(disk[f]) + 1)]
    /\ UNCHANGED <<exists, writing, edits, moved_out, notices, Others, device>>

CloseWritten ==
    /\ writing # Idle
    /\ writing' = Idle
    /\ disk' = [disk EXCEPT ![writing.file] = writing.text]
    /\ Noticed
    /\ UNCHANGED <<exists, watched, edits, moved_out, watch_failed, Others, device>>

\* A file is renamed over another, or is deleted or renamed within the
\* directory (Absent).
Replace(f, text) ==
    /\ Edit
    /\ exists
    /\ writing = Idle
    /\ disk[f] # text
    /\ disk' = [disk EXCEPT ![f] = text]
    /\ Noticed
    /\ UNCHANGED <<exists, moved_out, watched, writing, device>>

\* A file is moved to another directory, of which nothing is told.
MoveOut(f) ==
    /\ Edit
    /\ exists
    /\ writing = Idle
    /\ disk[f] # Absent
    /\ disk' = [disk EXCEPT ![f] = Absent]
    /\ moved_out' = moved_out \cup {f}
    /\ UNCHANGED <<exists, watched, pending, writing, device>>

\* The directory is removed, or moved away (a parent that is moved would tell
\* nothing: parents stay).
RemoveDirectory ==
    /\ Edit
    /\ exists
    /\ writing = Idle
    /\ exists' = FALSE
    /\ disk' = [f \in File |-> Absent]
    /\ Noticed
    /\ watched' = FALSE
    /\ UNCHANGED <<writing, moved_out, device>>

\* A directory with other files is put in its place, and nothing watches it.
InstallDirectory ==
    /\ Edit
    /\ ~exists
    /\ exists' = TRUE
    /\ \E conf \in ConfText, list \in ListText :
         disk' = [conf |-> conf, exclude |-> list, games |-> list]
    /\ UNCHANGED <<watched, pending, writing, moved_out, device>>

\* The user chooses another default application.
ChooseDefaults ==
    /\ Edit
    /\ defaults' \in Defaults \ {defaults}
    /\ UNCHANGED <<disk, exists, writing, moved_out, watched, pending, role_manager>>

Outside ==
    \/ \E f \in File : \/ \E text \in Text(f) : OpenToWrite(f, text)
                       \/ \E text \in Text(f) \cup {Absent} : Replace(f, text)
                       \/ MoveOut(f)
    \/ WriteLines \/ CloseWritten
    \/ RemoveDirectory \/ InstallDirectory
    \/ ChooseDefaults

Next == Daemon \/ Outside

\* The daemon goes on whenever it can, and a file is not written for ever.
Spec == Init /\ [][Next]_vars /\ WF_vars(Daemon) /\ WF_vars(CloseWritten)

-----------------------------------------------------------------------------
(* Properties.                                                             *)

\* Whatever the files say, the values in force are within their bounds.
TypeOK ==
    /\ config.min_oom_score_adj \in 500..900
    /\ config.max_kills_per_pass \in Nat \ {0}
    /\ \A key \in NumberKey : config[key] \in Nat
    /\ \A key \in BooleanKey : config[key] \in BOOLEAN
    /\ user_exclusions \cup games \cup dynamic_exclusions \subseteq App
    /\ \A f \in File : ~exists => disk[f] = Absent

\* Reading the file once more would change nothing.
InSync(f) ==
    CASE f = "conf" -> load_from_file(config, disk["conf"]) = config
      [] f = "exclude" -> load_file_lines({}, disk["exclude"]) = user_exclusions
      [] f = "games" -> load_file_lines({}, disk["games"]) = games

\* The directory is watched, and so are in force all files but those that
\* were moved out of it since.
UpToDate == watched /\ \A f \in File \ moved_out : InSync(f)

Quiet == started /\ pc = "asleep" /\ ~pending /\ writing = Idle

\* A sleeping daemon that no event is waiting for has in force what the files
\* say - every value for the keys daemon.conf holds - however the edits fell
\* between its calls, and the directory removed or replaced.  Two things leave
\* it behind: an inotify_add_watch that fails, which it does not notice, and
\* a file moved to another directory, whose entries stay in force until the
\* next event of any file (daemon.rs:295-379, 718-739).
InForce == Quiet /\ ~watch_failed => UpToDate

\* The daemon catches up: once the operator rests, it sleeps for good with
\* the files in force - but for one moved out, or a watch that failed - and
\* its own reloads do not wake it again.
EditsTakeEffect == <>[](watch_failed \/ (Quiet /\ UpToDate))

\* Every component the device named at startup stays out of reach of the
\* reaping pipeline through all reloads; the home screen does even where the
\* role manager is missing or does not answer (daemon.rs:435-509).
DefaultsShielded == answered \subseteq dynamic_exclusions
=============================================================================
