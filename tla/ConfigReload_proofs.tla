------------------------- MODULE ConfigReload_proofs -------------------------
(***************************************************************************)
(* Proofs about module ConfigReload: for any contents of the files, any    *)
(* number of edits and any device, the values in force are within bounds,  *)
(* a sleeping daemon is up to date, and the device's components are        *)
(* shielded.                                                               *)
(***************************************************************************)
EXTENDS ConfigReload, SequenceTheorems, WellFoundedInduction, TLAPS

-----------------------------------------------------------------------------
(* The files.                                                              *)

\* A configuration whose values are of their keys' types and within bounds.
ConfigOK(c) ==
    /\ c = [key \in ConfigKey |-> c[key]]
    /\ \A key \in NumberKey : c[key] \in Nat
    /\ \A key \in BooleanKey : c[key] \in BOOLEAN
    /\ c["max_kills_per_pass"] \in Nat \ {0}
    /\ c["min_oom_score_adj"] \in 500..900

\* A set of positions that is not empty has a last one.
LEMMA LastOne ==
    ASSUME NEW n \in Nat, NEW S \in SUBSET (1..n), S # {}
    PROVE  Max(S) \in S
<1> DEFINE R == OpToRel(<, Nat)
           T == {m \in Nat : n - m \in S}
<1>1. IsWellFoundedOn(R, Nat)
  BY NatLessThanWellFounded
<1>2. \A x \in Nat, y \in Nat : x < y => <<x, y>> \in R
  BY DEF OpToRel
<1>3. T \subseteq Nat /\ T # {}
  <2>1. PICK k \in S : TRUE
    OBVIOUS
  <2>2. n - k \in Nat /\ n - (n - k) = k
    OBVIOUS
  <2> QED
    BY <2>1, <2>2
<1> HIDE DEF R
<1>4. PICK x \in T : \A y \in T : <<y, x>> \notin R
  BY <1>1, <1>3, WFMin
<1>5. \A k \in S : k <= n - x
  <2> SUFFICES ASSUME NEW k \in S, k > n - x PROVE FALSE
    BY <1>4
  <2>1. n - k \in T /\ n - k < x /\ n - k \in Nat /\ x \in Nat
    BY <1>4
  <2> QED
    BY <1>2, <1>4, <2>1
<1>6. n - x \in S /\ \A k \in S : n - x >= k
  BY <1>4, <1>5
<1> QED
  BY <1>6 DEF Max

\* A line that sets a key holds a value of its type.
LEMMA SetsType ==
    ASSUME NEW line \in ConfLine, NEW key \in ConfigKey, Sets(line, key)
    PROVE  /\ key \in NumberKey => Admitted(key, line.value[2]) \in Nat
           /\ key \in BooleanKey => Admitted(key, line.value[2]) \in BOOLEAN
           /\ key = "max_kills_per_pass" => Admitted(key, line.value[2]) \in Nat \ {0}
           /\ key = "min_oom_score_adj" => Admitted(key, line.value[2]) \in 500..900
<1>1. /\ line.value[1] = "num" => line.value[2] \in Int
      /\ line.value[1] = "bool" => line.value[2] \in BOOLEAN
  BY DEF ConfLine, Value
<1> QED
  BY <1>1 DEF Sets, Admitted, Clamped, NumberKey, BooleanKey, ConfigKey

\* What the lines say depends on the configuration only where they say
\* nothing, so reading them twice is reading them once.
LEMMA LoadTwice ==
    ASSUME NEW c, NEW file
    PROVE  load_from_file(load_from_file(c, file), file) = load_from_file(c, file)
BY DEF load_from_file, parse_str

LEMMA LoadType ==
    ASSUME NEW c, ConfigOK(c), NEW file, file \in Seq(ConfLine) \/ file = Absent
    PROVE  ConfigOK(load_from_file(c, file))
<1>1. CASE file = Absent
  BY <1>1 DEF load_from_file
<1>2. CASE file # Absent
  <2> DEFINE new == parse_str(c, file)
  <2>1. load_from_file(c, file) = new /\ file \in Seq(ConfLine)
    BY <1>2 DEF load_from_file
  <2>2. DOMAIN c = ConfigKey
    BY DEF ConfigOK
  <2>3. new = [key \in ConfigKey |-> new[key]]
    BY <2>2 DEF parse_str
  <2>4. ASSUME NEW key \in ConfigKey
        PROVE  \/ new[key] = c[key]
               \/ \E i \in DOMAIN file : /\ Sets(file[i], key)
                                         /\ new[key] = Admitted(key, file[i].value[2])
    <3> DEFINE setting == {i \in DOMAIN file : Sets(file[i], key)}
    <3>1. new[key] = IF setting = {} THEN c[key] ELSE Admitted(key, file[Max(setting)].value[2])
      BY <2>2 DEF parse_str
    <3>2. setting \in SUBSET (1..Len(file)) /\ Len(file) \in Nat
      BY <2>1
    <3>3. CASE setting = {}
      BY <3>1, <3>3
    <3>4. CASE setting # {}
      <4>1. Max(setting) \in setting
        BY <3>2, <3>4, LastOne
      <4> QED
        BY <3>1, <3>4, <4>1
    <3> QED
      BY <3>3, <3>4
  <2>5. \A i \in DOMAIN file : file[i] \in ConfLine
    BY <2>1
  <2> HIDE DEF new
  <2>6. ASSUME NEW key \in ConfigKey
        PROVE  /\ key \in NumberKey => new[key] \in Nat
               /\ key \in BooleanKey => new[key] \in BOOLEAN
               /\ key = "max_kills_per_pass" => new[key] \in Nat \ {0}
               /\ key = "min_oom_score_adj" => new[key] \in 500..900
    <3>1. CASE new[key] = c[key]
      BY <3>1, ZenonT(30) DEF ConfigOK
    <3>2. ASSUME NEW i \in DOMAIN file, Sets(file[i], key),
                 new[key] = Admitted(key, file[i].value[2])
          PROVE  /\ key \in NumberKey => new[key] \in Nat
                 /\ key \in BooleanKey => new[key] \in BOOLEAN
                 /\ key = "max_kills_per_pass" => new[key] \in Nat \ {0}
                 /\ key = "min_oom_score_adj" => new[key] \in 500..900
      <4>1. file[i] \in ConfLine
        BY <2>5
      <4> QED
        BY <3>2, <4>1, SetsType, SMTT(30)
    <3> QED
      BY <2>4, <3>1, <3>2
  <2>7. /\ NumberKey \subseteq ConfigKey /\ BooleanKey \subseteq ConfigKey
        /\ "max_kills_per_pass" \in ConfigKey /\ "min_oom_score_adj" \in ConfigKey
    BY DEF ConfigKey
  <2> HIDE DEF ConfigKey
  <2>8. /\ \A key \in NumberKey : new[key] \in Nat
        /\ \A key \in BooleanKey : new[key] \in BOOLEAN
    BY <2>6, <2>7
  <2>9. new["max_kills_per_pass"] \in Nat \ {0} /\ new["min_oom_score_adj"] \in 500..900
    BY <2>6, <2>7
  <2>10. ConfigOK(new)
    BY <2>3, <2>8, <2>9, ZenonT(30) DEF ConfigOK
  <2> QED
    BY <2>1, <2>10
<1> QED
  BY <1>1, <1>2

-----------------------------------------------------------------------------
(* Types.                                                                  *)

\* What a file may hold at any time.
Content(f) == IF f = "conf" THEN Seq(ConfLine) ELSE Seq(App)

\* TypeOK, together with what makes it inductive: the files and what is
\* being written to them, and a directory that cannot go away under a write.
FilesOK ==
    /\ \A f \in File : disk[f] \in Content(f) \cup {Absent}
    /\ disk = [f \in File |-> disk[f]]
    /\ \A f \in File : ~exists => disk[f] = Absent
    /\ writing # Idle => /\ exists
                         /\ writing.file \in File
                         /\ writing.text \in Content(writing.file)
                         /\ disk[writing.file] \in Content(writing.file)

TypeInv ==
    /\ ConfigOK(config)
    /\ user_exclusions \cup games \cup dynamic_exclusions \subseteq App
    /\ defaults \in Defaults
    /\ FilesOK

LEMMA OpenNotIdle ==
    ASSUME NEW f, NEW text
    PROVE  [file |-> f, text |-> text] # Idle
<1>1. "text" \in DOMAIN [file |-> f, text |-> text] /\ "text" \notin DOMAIN Idle
  BY DEF Idle
<1> QED
  BY <1>1

LEMMA TextsOK ==
    ASSUME NEW f \in File, NEW text \in Text(f)
    PROVE  text \in Content(f)
BY ReloadAssumption DEF Text, Content

LEMMA ListType ==
    ASSUME NEW set, NEW file, file \in Seq(App) \/ file = Absent
    PROVE  load_file_lines(set, file) \subseteq App
BY DEF load_file_lines, Range

\* What is detected are packages, and all that an answer named.
LEMMA DetectType ==
    ASSUME TypeInv, Detect
    PROVE  dynamic_exclusions' \subseteq App /\ answered' \subseteq dynamic_exclusions'
<1>1. PICK failing \in SUBSET (Role \cup Setting \cup {"resolve"}) :
        /\ dynamic_exclusions' =
             detect_system_components(RoleReplies(failing), HomeReply(failing), SettingReplies(failing))
        /\ answered' = Named(HomeReply(failing)) \cup NamedByAny(RoleReplies(failing))
                         \cup NamedByAny(SettingReplies(failing))
  BY DEF Detect
<1> DEFINE role == RoleReplies(failing)
           setting == SettingReplies(failing)
           resolved == HomeReply(failing)
<1>2. \A q \in Role \cup Setting : defaults[q] \in App \cup {Absent}
  BY ReloadAssumption DEF TypeInv
<1>3. Named(Failed) = {} /\ \A k : Named(Answer(k)) = {k} \ {Absent}
  BY DEF Named, Failed, Answer
<1>4. /\ \A r \in Role : Named(role[r]) \subseteq {defaults[r]} \ {Absent}
      /\ \A s \in Setting : Named(setting[s]) \subseteq {defaults[s]} \ {Absent}
      /\ Named(resolved) \subseteq {defaults["HOME"]} \ {Absent}
      /\ DOMAIN role = Role /\ DOMAIN setting = Setting
  BY <1>3 DEF RoleReplies, SettingReplies, HomeReply
<1>5. /\ dynamic_exclusions' =
           NamedByAny(role) \cup (IF Named(role["HOME"]) = {} THEN Named(resolved) ELSE {})
                            \cup NamedByAny(setting)
      /\ answered' = Named(resolved) \cup NamedByAny(role) \cup NamedByAny(setting)
  BY <1>1 DEF detect_system_components
<1>6. "HOME" \in Role
  BY DEF Role
<1> HIDE DEF role, setting, resolved
<1>7. NamedByAny(role) \subseteq App /\ NamedByAny(setting) \subseteq App /\ Named(resolved) \subseteq App
  BY <1>2, <1>4, <1>6 DEF NamedByAny
<1>8. Named(role["HOME"]) # {} => Named(resolved) \subseteq NamedByAny(role)
  BY <1>4, <1>6 DEF NamedByAny
<1> QED
  BY <1>5, <1>7, <1>8

LEMMA InitTypeInv == Init => TypeInv
<1> SUFFICES ASSUME Init PROVE TypeInv
  OBVIOUS
<1>1. ConfigOK(config)
  <2>1. PICK ram \in Ram : config = DefaultConfig(detected_default_kills(ram))
    BY DEF Init
  <2>2. detected_default_kills(ram) \in Nat \ {0}
    BY DEF detected_default_kills
  <2> QED
    BY <2>1, <2>2 DEF ConfigOK, DefaultConfig, ConfigKey, NumberKey, BooleanKey
<1>2. FilesOK
  BY ReloadAssumption DEF Init, FilesOK, Content, File
<1> QED
  BY <1>1, <1>2 DEF Init, TypeInv

LEMMA SevenLines ==
    ASSUME NEW a \in ConfLine, NEW b \in ConfLine, NEW c \in ConfLine, NEW d \in ConfLine,
           NEW e \in ConfLine, NEW f \in ConfLine, NEW g \in ConfLine
    PROVE  <<a, b, c, d, e, f, g>> \in Seq(ConfLine)
<1> DEFINE lines == <<a, b, c, d, e, f, g>>
<1>1. lines = [i \in 1..7 |-> lines[i]] /\ \A i \in 1..7 : lines[i] \in ConfLine
  OBVIOUS
<1> HIDE DEF lines
<1>2. lines \in [1..7 -> ConfLine]
  BY <1>1
<1>3. lines \in Seq(ConfLine)
  BY <1>2, SeqDef
<1> QED
  BY <1>3 DEF lines

LEMMA NumberLine ==
    ASSUME NEW key \in ConfigKey, NEW n \in Int
    PROVE  Assigns(key, <<"num", n>>) \in ConfLine
<1>1. <<"num", n>> \in Value
  BY DEF Value
<1> QED
  BY <1>1 DEF Assigns, ConfLine

LEMMA BooleanLine ==
    ASSUME NEW key \in ConfigKey
    PROVE  Assigns(key, <<"bool", TRUE>>) \in ConfLine
<1>1. <<"bool", TRUE>> \in Value
  BY Zenon DEF Value
<1> QED
  BY <1>1 DEF Assigns, ConfLine

\* The files that are created hold lines: what daemon.conf documents.
LEMMA DefaultConf == DEFAULT_DAEMON_CONF \in Seq(ConfLine)
<1> DEFINE a == Assigns("t_idle_sec", <<"num", 180>>)
           b == Assigns("lru_protect_depth", <<"num", 3>>)
           c == Assigns("mem_critical_percent", <<"num", 10>>)
           d == Assigns("fg_lru_max_depth", <<"num", 10>>)
           e == Assigns("screen_off_harvest", <<"bool", TRUE>>)
           f == Assigns("min_oom_score_adj", <<"num", 900>>)
           g == Assigns("log_enabled", <<"bool", TRUE>>)
<1>1. a \in ConfLine
  BY NumberLine DEF ConfigKey, NumberKey, BooleanKey
<1>2. b \in ConfLine
  BY NumberLine DEF ConfigKey, NumberKey, BooleanKey
<1>3. c \in ConfLine
  BY NumberLine DEF ConfigKey, NumberKey, BooleanKey
<1>4. d \in ConfLine
  BY NumberLine DEF ConfigKey, NumberKey, BooleanKey
<1>5. e \in ConfLine
  BY BooleanLine DEF ConfigKey, NumberKey, BooleanKey
<1>6. f \in ConfLine
  BY NumberLine DEF ConfigKey, NumberKey, BooleanKey
<1>7. g \in ConfLine
  BY BooleanLine DEF ConfigKey, NumberKey, BooleanKey
<1>8. DEFAULT_DAEMON_CONF = <<a, b, c, d, e, f, g>>
  BY DEF DEFAULT_DAEMON_CONF
<1> HIDE DEF a, b, c, d, e, f, g
<1> QED
  BY <1>1, <1>2, <1>3, <1>4, <1>5, <1>6, <1>7, <1>8, SevenLines

LEMMA DaemonTypeInv ==
    ASSUME TypeInv, Daemon
    PROVE  TypeInv'
<1> USE DEF TypeInv
<1>1. CASE ensure_default_files
  <2>1. \A f \in File : disk'[f] \in Content(f) \cup {Absent}
    BY <1>1, DefaultConf, EmptySeq DEF ensure_default_files, FilesOK, Content
  <2>2. \A f \in File : disk[f] # Absent => disk'[f] = disk[f]
    BY <1>1 DEF ensure_default_files
  <2>3. FilesOK'
    BY <1>1, <2>1, <2>2 DEF ensure_default_files, FilesOK
  <2> QED
    BY <1>1, <2>3 DEF ensure_default_files, inForce, device
<1>2. CASE Wake \/ drain
  BY <1>2 DEF Wake, drain, directory, inForce, device, FilesOK
<1>3. CASE Watch
  BY <1>3 DEF Watch, ensure_inotify_watch, inForce, device, FilesOK
<1>4. CASE ReadConf
  <2>1. disk["conf"] \in Seq(ConfLine) \/ disk["conf"] = Absent
    BY DEF FilesOK, Content, File
  <2>2. ConfigOK(config')
    BY <1>4, <2>1, LoadType DEF ReadConf
  <2> QED
    BY <1>4, <2>2 DEF ReadConf, directory, device, FilesOK
<1>5. CASE ReadExclude \/ ReadGames
  <2>1. \A f \in {"exclude", "games"} : disk[f] \in Seq(App) \/ disk[f] = Absent
    BY DEF FilesOK, Content, File
  <2>2. user_exclusions' \cup games' \subseteq App
    BY <1>5, <2>1, ListType DEF ReadExclude, ReadGames
  <2> QED
    BY <1>5, <2>2 DEF ReadExclude, ReadGames, directory, device, FilesOK
<1>6. CASE Detect
  BY <1>6, DetectType DEF Detect, directory, inForce, device, FilesOK
<1> QED
  BY <1>1, <1>2, <1>3, <1>4, <1>5, <1>6 DEF Daemon

LEMMA OutsideTypeInv ==
    ASSUME TypeInv, Outside
    PROVE  TypeInv'
<1>1. ASSUME NEW f \in File, NEW text \in Text(f), OpenToWrite(f, text)
      PROVE  TypeInv'
  <2>1. text \in Content(f) /\ <<>> \in Content(f)
    BY TextsOK DEF Content
  <2>2. writing' # Idle /\ writing'.file = f /\ writing'.text = text
    BY <1>1, OpenNotIdle DEF OpenToWrite
  <2>3. /\ disk' = [disk EXCEPT ![f] = <<>>] /\ exists /\ exists' = exists
        /\ FilesOK
    BY <1>1 DEF OpenToWrite, TypeInv
  <2>4. /\ \A g \in File : disk'[g] \in Content(g) \cup {Absent}
        /\ disk' = [g \in File |-> disk'[g]]
        /\ disk'[f] \in Content(f)
    BY <2>1, <2>3 DEF FilesOK
  <2>5. FilesOK'
    <3>1. /\ writing'.file \in File /\ writing'.text \in Content(writing'.file)
          /\ disk'[writing'.file] \in Content(writing'.file)
      BY <2>1, <2>2, <2>4
    <3> QED
      BY <2>3, <2>4, <3>1 DEF FilesOK
  <2> QED
    BY <1>1, <2>5 DEF OpenToWrite, Edit, Others, inForce, device, TypeInv
<1>2. CASE WriteLines
  <2> DEFINE f == writing.file
             text == writing.text
             n == Len(disk[f])
  <2>1. /\ writing # Idle /\ n < Len(text)
        /\ disk' = [disk EXCEPT ![f] = SubSeq(text, 1, n + 1)]
        /\ UNCHANGED <<exists, writing>>
    BY <1>2 DEF WriteLines
  <2>2. f \in File /\ text \in Content(f) /\ disk[f] \in Content(f) /\ exists
    BY <2>1 DEF TypeInv, FilesOK
  <2>3. SubSeq(text, 1, n + 1) \in Content(f)
    <3>1. ASSUME NEW S, text \in Seq(S), disk[f] \in Seq(S)
          PROVE  SubSeq(text, 1, n + 1) \in Seq(S)
      <4>1. n \in Nat /\ Len(text) \in Nat /\ \A i \in 1..Len(text) : text[i] \in S
        BY <3>1, LenProperties, ElementOfSeq
      <4> HIDE DEF n, text
      <4>2. n + 1 \in Int /\ \A i \in 1..(n + 1) : text[i] \in S
        BY <2>1, <4>1
      <4> QED
        BY <4>2, SubSeqProperties
    <3> HIDE DEF text, n
    <3> QED
      BY <2>2, <3>1 DEF Content
  <2>4. FilesOK'
    BY <2>1, <2>2, <2>3 DEF TypeInv, FilesOK
  <2> QED
    BY <1>2, <2>4 DEF WriteLines, Others, inForce, device, TypeInv
<1>3. CASE CloseWritten
  BY <1>3 DEF CloseWritten, Others, inForce, device, TypeInv, FilesOK
<1>4. ASSUME NEW f \in File, NEW text \in Text(f) \cup {Absent}, Replace(f, text)
      PROVE  TypeInv'
  <2>1. text \in Content(f) \cup {Absent}
    BY TextsOK
  <2> QED
    BY <1>4, <2>1 DEF Replace, Edit, Others, inForce, device, TypeInv, FilesOK
<1>5. ASSUME NEW f \in File, MoveOut(f)
      PROVE  TypeInv'
  BY <1>5 DEF MoveOut, Edit, Others, inForce, device, TypeInv, FilesOK
<1>6. CASE RemoveDirectory
  BY <1>6 DEF RemoveDirectory, Edit, Others, inForce, device, TypeInv, FilesOK
<1>7. CASE InstallDirectory
  BY <1>7, ReloadAssumption
     DEF InstallDirectory, Edit, Others, inForce, device, TypeInv, FilesOK, File, Content
<1>8. CASE ChooseDefaults
  BY <1>8 DEF ChooseDefaults, Edit, Others, inForce, TypeInv, FilesOK
<1> QED
  BY <1>1, <1>2, <1>3, <1>4, <1>6, <1>7, <1>8, <1>5 DEF Outside

LEMMA TypeInvCorrect == Spec => []TypeInv
<1>1. TypeInv /\ [Next]_vars => TypeInv'
  <2> SUFFICES ASSUME TypeInv, [Next]_vars PROVE TypeInv'
    OBVIOUS
  <2>1. CASE UNCHANGED vars
    BY <2>1 DEF vars, directory, inForce, device, TypeInv, FilesOK
  <2> QED
    BY <2>1, DaemonTypeInv, OutsideTypeInv DEF Next
<1> QED
  BY <1>1, InitTypeInv, PTL DEF Spec

\* Whatever lines the files hold, the values in force are within bounds.
THEOREM ReloadTypeCorrect == Spec => []TypeOK
<1>1. TypeInv => TypeOK
  BY DEF TypeInv, ConfigOK, FilesOK, TypeOK
<1> QED
  BY <1>1, TypeInvCorrect, PTL

\* Every component the device names, and its home screen, are shielded.
THEOREM DefaultsShieldedCorrect == Spec => []DefaultsShielded
<1>1. Init => DefaultsShielded
  BY DEF Init, DefaultsShielded
<1>2. TypeInv /\ DefaultsShielded /\ [Next]_vars => DefaultsShielded'
  <2> SUFFICES ASSUME TypeInv, DefaultsShielded, [Next]_vars PROVE DefaultsShielded'
    OBVIOUS
  <2>1. CASE Detect
    BY <2>1, DetectType DEF DefaultsShielded
  <2>2. CASE Daemon /\ ~Detect
    BY <2>2 DEF Daemon, ensure_default_files, Wake, drain, Watch, ReadConf, ReadExclude,
                ReadGames, DefaultsShielded
  <2>3. CASE Outside
    BY <2>3 DEF Outside, OpenToWrite, WriteLines, CloseWritten, Replace, MoveOut, RemoveDirectory,
                InstallDirectory, ChooseDefaults, Edit, Others, DefaultsShielded
  <2>4. CASE UNCHANGED vars
    BY <2>4 DEF vars, DefaultsShielded
  <2> QED
    BY <2>1, <2>2, <2>3, <2>4 DEF Next
<1> QED
  BY <1>1, <1>2, TypeInvCorrect, PTL DEF Spec

-----------------------------------------------------------------------------
(* The files in force.                                                     *)

\* The files that have been read since the queue was last emptied.
ReadAt(call) ==
    CASE call = "exclude" -> {"conf"}
      [] call = "games" -> {"conf", "exclude"}
      [] call \in {"detect", "asleep"} -> File
      [] OTHER -> {}

\* InForce, together with what makes it inductive.  From the watch on, either
\* the directory is watched, or an event tells that it is not: so a file that
\* changes after it was read, and was not moved out, is noticed, at the latest
\* when it is closed.
NoticeInv ==
    /\ watched => exists
    /\ pc \in {"conf", "exclude", "games", "detect", "asleep"} =>
         watched \/ pending \/ watch_failed
    /\ \A f \in ReadAt(pc) :
         \/ InSync(f) \/ f \in moved_out
         \/ pending \/ watch_failed \/ (writing # Idle /\ writing.file = f)

-----------------------------------------------------------------------------

\* A file changes only in the directory that is there, and while it is being
\* written or with an event to tell of it.
LEMMA Unnoticed ==
    ASSUME NEW f \in File, InSync(f), UNCHANGED inForce, disk'[f] = disk[f]
    PROVE  InSync(f)'
BY DEF InSync, inForce, File

LEMMA NoticeDaemon ==
    ASSUME NoticeInv, Daemon
    PROVE  NoticeInv'
<1> USE DEF NoticeInv, ReadAt, Call, After
<1>1. CASE ensure_default_files
  BY <1>1 DEF ensure_default_files, notices
<1>2. CASE Wake
  BY <1>2 DEF Wake, notices, directory
<1>3. CASE drain
  BY <1>3 DEF drain, directory
<1>4. CASE Watch
  BY <1>4 DEF Watch, ensure_inotify_watch
<1>5. CASE ReadConf
  <2>1. load_from_file(config', disk["conf"]) = config'
    BY <1>5, LoadTwice DEF ReadConf
  <2>2. InSync("conf")'
    BY <1>5, <2>1 DEF ReadConf, InSync, directory
  <2> QED
    BY <1>5, <2>2 DEF ReadConf, directory, notices
<1>6. CASE ReadExclude
  <2>1. InSync("exclude")' /\ (InSync("conf") => InSync("conf")')
    BY <1>6 DEF ReadExclude, InSync, directory, load_file_lines
  <2> QED
    BY <1>6, <2>1 DEF ReadExclude, directory, notices
<1>7. CASE ReadGames
  <2>1. /\ InSync("games")'
        /\ \A f \in {"conf", "exclude"} : InSync(f) => InSync(f)'
    BY <1>7 DEF ReadGames, InSync, directory, load_file_lines
  <2> QED
    BY <1>7, <2>1 DEF ReadGames, directory, notices, File
<1>8. CASE Detect
  BY <1>8, Unnoticed DEF Detect, directory, notices
<1> QED
  BY <1>1, <1>2, <1>3, <1>4, <1>5, <1>6, <1>7, <1>8 DEF Daemon

LEMMA NoticeOutside ==
    ASSUME TypeInv, NoticeInv, Outside
    PROVE  NoticeInv'
<1> USE DEF NoticeInv
<1>1. UNCHANGED <<pc, inForce, watch_failed>>
  BY DEF Outside, OpenToWrite, WriteLines, CloseWritten, Replace, MoveOut, RemoveDirectory,
         InstallDirectory, ChooseDefaults, Edit, Others, notices
<1>2. moved_out \subseteq moved_out'
  BY DEF Outside, OpenToWrite, WriteLines, CloseWritten, Replace, MoveOut, RemoveDirectory,
         InstallDirectory, ChooseDefaults
<1>3. /\ ReadAt(pc) \subseteq File
      /\ ReadAt(pc) # {} => pc \in {"conf", "exclude", "games", "detect", "asleep"}
  BY DEF ReadAt, File
<1> SUFFICES
      /\ watched' => exists'
      /\ watched \/ pending => watched' \/ pending'
      /\ \A f \in File :
           \/ f \in moved_out'
           \/ pending' \/ (~watched /\ ~pending)
           \/ writing' # Idle /\ writing'.file = f
           \/ /\ disk'[f] = disk[f]
              /\ (writing # Idle /\ writing.file = f) => (writing' # Idle /\ writing'.file = f)
              /\ pending' = pending
  <2> SUFFICES ASSUME NEW f \in ReadAt(pc)
               PROVE  (\/ InSync(f) \/ f \in moved_out
                       \/ pending \/ watch_failed \/ (writing # Idle /\ writing.file = f))'
    BY <1>1
  <2>1. f \in File /\ (watched \/ pending \/ watch_failed)
    BY <1>3
  <2> QED
    BY <1>1, <1>2, <2>1, Unnoticed
<1>4. ASSUME NEW g \in File, NEW text, OpenToWrite(g, text)
      PROVE  /\ watched' => exists'
             /\ watched \/ pending => watched' \/ pending'
             /\ \A f \in File :
                  \/ pending' \/ (~watched /\ ~pending)
                  \/ writing' # Idle /\ writing'.file = f
                  \/ disk'[f] = disk[f] /\ writing = Idle /\ pending' = pending
  <2>1. writing' # Idle /\ writing'.file = g /\ writing = Idle /\ UNCHANGED <<exists, watched>>
    BY <1>4, OpenNotIdle DEF OpenToWrite
  <2>2. \A f \in File : f # g => disk'[f] = disk[f]
    BY <1>4 DEF OpenToWrite, TypeInv, FilesOK
  <2>3. pending' = pending \/ pending' = (pending \/ watched)
    BY <1>4 DEF OpenToWrite, Noticed
  <2>4. CASE pending' = pending
    BY <2>1, <2>2, <2>4
  <2>5. CASE pending' = (pending \/ watched)
    BY <2>1, <2>5
  <2> QED
    BY <2>3, <2>4, <2>5
<1>5. CASE WriteLines
  <2>1. UNCHANGED <<exists, writing, watched, pending>> /\ writing # Idle
    BY <1>5 DEF WriteLines, notices
  <2>2. \A f \in File : f # writing.file => disk'[f] = disk[f]
    BY <1>5 DEF WriteLines, TypeInv, FilesOK
  <2> QED
    BY <2>1, <2>2
<1>6. CASE CloseWritten \/ RemoveDirectory \/ \E f \in File : \E text \in Text(f) \cup {Absent} : Replace(f, text)
  <2>1. /\ pending' = (pending \/ watched)
        /\ watched' = FALSE \/ UNCHANGED <<watched, exists>>
    BY <1>6 DEF CloseWritten, RemoveDirectory, Replace, Noticed
  <2>2. watched' => exists'
    BY <2>1
  <2>3. CASE watched \/ pending
    BY <2>1, <2>2, <2>3
  <2>4. CASE ~watched /\ ~pending
    BY <2>2, <2>4
  <2> QED
    BY <2>3, <2>4
<1>7. CASE InstallDirectory
  BY <1>7 DEF InstallDirectory
<1>8. ASSUME NEW g \in File, MoveOut(g)
      PROVE  /\ UNCHANGED <<exists, watched, pending, writing>>
             /\ \A f \in File : f \in moved_out' \/ disk'[f] = disk[f]
  <2>1. moved_out' = moved_out \cup {g} /\ UNCHANGED <<exists, watched, pending, writing>>
    BY <1>8 DEF MoveOut
  <2>2. \A f \in File : f # g => disk'[f] = disk[f]
    BY <1>8 DEF MoveOut, TypeInv, FilesOK
  <2> QED
    BY <2>1, <2>2
<1>9. CASE ChooseDefaults
  BY <1>9 DEF ChooseDefaults, Edit
<1> QED
  BY <1>4, <1>5, <1>6, <1>7, <1>9, <1>8 DEF Outside

LEMMA NoticeCorrect == Spec => []NoticeInv
<1>1. Init => NoticeInv
  BY DEF Init, NoticeInv, ReadAt
<1>2. TypeInv /\ NoticeInv /\ [Next]_vars => NoticeInv'
  <2> SUFFICES ASSUME TypeInv, NoticeInv, [Next]_vars PROVE NoticeInv'
    OBVIOUS
  <2>1. CASE UNCHANGED vars
    BY <2>1 DEF vars, directory, notices, inForce, NoticeInv, InSync
  <2> QED
    BY <2>1, NoticeDaemon, NoticeOutside DEF Next
<1> QED
  BY <1>1, <1>2, TypeInvCorrect, PTL DEF Spec

\* A sleeping daemon that no event waits for has in force what the files say,
\* for any files and however many edits fell wherever between its calls, but
\* for the files moved out of the directory and unless its watch failed.
THEOREM InForceCorrect == Spec => []InForce
<1>1. NoticeInv => InForce
  BY DEF NoticeInv, InForce, Quiet, UpToDate, InSync, ReadAt, File
<1> QED
  BY <1>1, NoticeCorrect, PTL
=============================================================================
