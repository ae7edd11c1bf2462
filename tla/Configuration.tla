---------------------------- MODULE Configuration ----------------------------
(***************************************************************************)
(* What the three files of the configuration directory mean (config.rs,    *)
(* load_file_lines of daemon.rs), and which packages the device itself     *)
(* makes untouchable (detect_system_components).                           *)
(*                                                                         *)
(* daemon.conf is a sequence of lines [key, value], blank lines and        *)
(* comments left out; a value is <<"num", n>>, <<"bool", b>> or <<"text">>,*)
(* which is neither.  A list file is a sequence of packages.               *)
(***************************************************************************)
EXTENDS Integers, Sequences, SequencesExt

CONSTANTS
    App,        \* packages
    Absent      \* the content of a file that does not exist; nobody

ASSUME AbsentAssumption == Absent \notin App

NumberKey == {"t_idle_sec", "lru_protect_depth", "mem_critical_percent", "fg_lru_max_depth"}

BooleanKey == {"screen_off_harvest", "log_enabled"}

ConfigKey == NumberKey \cup BooleanKey \cup {"max_kills_per_pass", "min_oom_score_adj"}

\* RuntimeConfig::default; new() has replaced max_kills_per_pass by RAM size.
DefaultConfig(kills) ==
    [t_idle_sec |-> 180, lru_protect_depth |-> 3, mem_critical_percent |-> 10,
     fg_lru_max_depth |-> 10, screen_off_harvest |-> TRUE, max_kills_per_pass |-> kills,
     min_oom_score_adj |-> 900, log_enabled |-> TRUE]

\* The burst a device of so many megabytes gets.
detected_default_kills(total_ram_mb) ==
    IF total_ram_mb <= 4608 THEN 4 ELSE IF total_ram_mb <= 8704 THEN 2 ELSE 1

\* What a line may hold; "unknown" is any other key.
Value == ({"num"} \X Int) \cup ({"bool"} \X BOOLEAN) \cup {<<"text">>}

ConfLine == [key : ConfigKey \cup {"unknown"}, value : Value]

Assigns(key, value) == [key |-> key, value |-> value]

\* DEFAULT_DAEMON_CONF: every key but the burst.
DEFAULT_DAEMON_CONF ==
    <<Assigns("t_idle_sec", <<"num", 180>>), Assigns("lru_protect_depth", <<"num", 3>>),
      Assigns("mem_critical_percent", <<"num", 10>>), Assigns("fg_lru_max_depth", <<"num", 10>>),
      Assigns("screen_off_harvest", <<"bool", TRUE>>), Assigns("min_oom_score_adj", <<"num", 900>>),
      Assigns("log_enabled", <<"bool", TRUE>>)>>

Clamped(n, low, high) == IF n < low THEN low ELSE IF n > high THEN high ELSE n

\* The line sets the key: it names it, and its value is of the key's type.
Sets(line, key) ==
    /\ line.key = key
    /\ \/ /\ key \in NumberKey \cup {"max_kills_per_pass"}
          /\ line.value[1] = "num"
          /\ line.value[2] >= 0
       \/ key = "min_oom_score_adj" /\ line.value[1] = "num"
       \/ key \in BooleanKey /\ line.value[1] = "bool"

\* Mutant: the floor of the burst is forgotten.
Unfloored(key, value) == IF key = "min_oom_score_adj" THEN Clamped(value, 500, 900) ELSE value

\* What a key becomes when a line sets it.
Admitted(key, value) ==
    CASE key = "max_kills_per_pass" -> IF value = 0 THEN 1 ELSE value
      [] key = "min_oom_score_adj" -> Clamped(value, 500, 900)
      [] OTHER -> value

\* The lines are applied in turn, so a key has the value of the last line
\* that sets it; a line that sets none, or does not parse, is ignored.
parse_str(c, text) ==
    [key \in DOMAIN c |->
        LET setting == {i \in DOMAIN text : Sets(text[i], key)}
        IN  IF setting = {} THEN c[key] ELSE Admitted(key, text[Max(setting)].value[2])]

\* A file that cannot be read leaves the configuration as it is.
load_from_file(c, file) == IF file = Absent THEN c ELSE parse_str(c, file)

\* Mutant: an unreadable list keeps what an earlier one held.
ListKept(set, file) == IF file = Absent THEN set ELSE set \cup Range(file)

\* A list is cleared before its file is read.
load_file_lines(set, file) == IF file = Absent THEN {} ELSE Range(file)

-----------------------------------------------------------------------------
(* The device's own components.  A query answers with lines, each a        *)
(* package or Absent - a message, "null" or nothing - or it fails.         *)

Role == {"HOME", "DIALER", "SMS"}
Setting == {"default_input_method", "wallpaper_service"}

Failed == [ok |-> FALSE, lines |-> {}]
Answer(k) == [ok |-> TRUE, lines |-> {k}]

\* The packages an answer names.
Named(answer) == IF answer.ok THEN answer.lines \ {Absent} ELSE {}

NamedByAny(answers) == UNION {Named(answers[q]) : q \in DOMAIN answers}

\* Mutant: any role found stands for HOME.
AnyRoleIsHome(role, resolved, setting) ==
    LET holders == NamedByAny(role)
    IN  holders \cup (IF holders = {} THEN Named(resolved) ELSE {}) \cup NamedByAny(setting)

\* The role holders, the home screen the package manager resolves when
\* nobody holds HOME, and the components of two settings.
detect_system_components(role, resolved, setting) ==
    NamedByAny(role) \cup (IF Named(role["HOME"]) = {} THEN Named(resolved) ELSE {})
                     \cup NamedByAny(setting)
=============================================================================
