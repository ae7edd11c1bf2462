--------------------------- MODULE System_proofs ---------------------------
(***************************************************************************)
(* Proofs about module System: for any packages, pids, stream length and   *)
(* losses, what the daemon believes of a pid it can have heard about is    *)
(* what the kernel runs.                                                   *)
(***************************************************************************)
EXTENDS System, Daemon_proofs

-----------------------------------------------------------------------------
(* Lines, and the stream without one of them.                              *)

LEMMA LineShape ==
    ASSUME NEW l \in Line
    PROVE  /\ l.pid \in Pid
           /\ l.pkg \in Pkg \cup {None}
           /\ l.tag \in {"start", "died"}
           /\ l.tag = "start" <=> l.pkg \in Pkg
           /\ l.tag = "died" <=> l.pkg = None
BY NoneAssumption DEF Line, Started, Died

\* Only a free pid is started, only a process dies.
LEMMA HappensLine ==
    ASSUME Forks \/ Exits
    PROVE  \E l \in Line : Happens(l) /\ (l.tag = "start" <=> proc[l.pid] = None)
<1>1. ASSUME NEW p \in Pid, NEW k \in Pkg, proc[p] = None, Happens(Started(p, k))
      PROVE  \E l \in Line : Happens(l) /\ (l.tag = "start" <=> proc[l.pid] = None)
  <2>1. Started(p, k) \in Line
    BY DEF Line
  <2>2. Started(p, k).tag = "start" /\ Started(p, k).pid = p
    BY DEF Started
  <2> QED
    BY <1>1, <2>1, <2>2
<1>2. ASSUME NEW p \in Pid, proc[p] # None, Happens(Died(p))
      PROVE  \E l \in Line : Happens(l) /\ (l.tag = "start" <=> proc[l.pid] = None)
  <2>1. Died(p) \in Line
    BY DEF Line
  <2>2. Died(p).tag = "died" /\ Died(p).pid = p
    BY DEF Died
  <2> QED
    BY <1>2, <2>1, <2>2
<1> QED
  BY <1>1, <1>2 DEF Forks, Exits

\* cut is lines without the line at i.
CutAt(lines, cut, i) ==
    /\ cut \in Seq(Line)
    /\ Len(cut) = Len(lines) - 1
    /\ \A j \in 1..Len(cut) : cut[j] = lines[IF j < i THEN j ELSE j + 1]

LEMMA TailCuts ==
    ASSUME NEW lines \in Seq(Line), lines # <<>>
    PROVE  CutAt(lines, Tail(lines), 1)
<1>1. /\ Tail(lines) \in Seq(Line) /\ Len(Tail(lines)) = Len(lines) - 1
      /\ \A j \in 1..Len(Tail(lines)) : Tail(lines)[j] = lines[j + 1]
  BY HeadTailProperties
<1>2. Len(Tail(lines)) \in Nat
  BY <1>1, LenProperties
<1> QED
  BY <1>1, <1>2 DEF CutAt

LEMMA LossCuts ==
    ASSUME NEW lines \in Seq(Line), NEW i \in DOMAIN lines
    PROVE  LET rest == SubSeq(lines, i + 1, Len(lines))
           IN  /\ CutAt(lines, SubSeq(lines, 1, i - 1) \o rest, i)
               /\ \A p : About(p, rest) <=> \E m \in DOMAIN lines : i < m /\ lines[m].pid = p
<1> DEFINE front == SubSeq(lines, 1, i - 1)
           rest == SubSeq(lines, i + 1, Len(lines))
<1>1. /\ Len(lines) \in Nat /\ DOMAIN lines = 1..Len(lines) /\ i \in 1..Len(lines)
      /\ \A j \in 1..Len(lines) : lines[j] \in Line
  BY LenProperties, ElementOfSeq
<1>2. front \in Seq(Line) /\ Len(front) = i - 1 /\ \A j \in 1..(i - 1) : front[j] = lines[j]
  <2>1. 1 \in Int /\ i - 1 \in Int /\ \A j \in 1..(i - 1) : lines[j] \in Line
    BY <1>1
  <2>2. /\ front \in Seq(Line) /\ Len(front) = IF 1 <= i - 1 THEN i - 1 - 1 + 1 ELSE 0
        /\ \A j \in 1..(i - 1 - 1 + 1) : front[j] = lines[1 + j - 1]
    BY <2>1, SubSeqProperties
  <2> HIDE DEF front
  <2> QED
    BY <1>1, <2>2
<1>3. /\ rest \in Seq(Line) /\ Len(rest) = Len(lines) - i
      /\ \A j \in 1..(Len(lines) - i) : rest[j] = lines[i + j]
  <2>1. i + 1 \in Int /\ Len(lines) \in Int /\ \A j \in (i + 1)..Len(lines) : lines[j] \in Line
    BY <1>1
  <2>2. /\ rest \in Seq(Line)
        /\ Len(rest) = IF i + 1 <= Len(lines) THEN Len(lines) - (i + 1) + 1 ELSE 0
        /\ \A j \in 1..(Len(lines) - (i + 1) + 1) : rest[j] = lines[i + 1 + j - 1]
    BY <2>1, SubSeqProperties
  <2>3. Len(lines) - (i + 1) + 1 = Len(lines) - i
    BY <1>1
  <2>4. \A j \in 1..(Len(lines) - i) : i + 1 + j - 1 = i + j
    BY <1>1
  <2> HIDE DEF rest
  <2>5. Len(rest) = Len(lines) - i
    BY <1>1, <2>2
  <2>6. \A j \in 1..(Len(lines) - i) : rest[j] = lines[i + j]
    BY <2>2, <2>3, <2>4
  <2> QED
    BY <2>2, <2>5, <2>6
<1> HIDE DEF front, rest
<1>4. CutAt(lines, front \o rest, i)
  <2>1. /\ front \o rest \in Seq(Line)
        /\ Len(front \o rest) = Len(front) + Len(rest)
        /\ \A j \in 1..(Len(front) + Len(rest)) :
             (front \o rest)[j] = IF j <= Len(front) THEN front[j] ELSE rest[j - Len(front)]
    BY <1>2, <1>3, ConcatProperties
  <2>2. Len(front) + Len(rest) = Len(lines) - 1
    BY <1>1, <1>2, <1>3
  <2>3. ASSUME NEW j \in 1..(Len(lines) - 1)
        PROVE  (front \o rest)[j] = lines[IF j < i THEN j ELSE j + 1]
    <3>1. CASE j < i
      <4>1. j \in 1..(i - 1) /\ j <= Len(front)
        BY <1>1, <1>2, <3>1
      <4> QED
        BY <1>2, <2>1, <2>2, <3>1, <4>1
    <3>2. CASE ~(j < i)
      <4>1. /\ ~(j <= Len(front)) /\ j - Len(front) = j - i + 1
            /\ j - i + 1 \in 1..(Len(lines) - i) /\ i + (j - i + 1) = j + 1
        BY <1>1, <1>2, <3>2
      <4> QED
        BY <1>3, <2>1, <2>2, <3>2, <4>1
    <3> QED
      BY <3>1, <3>2
  <2> QED
    BY <2>1, <2>2, <2>3 DEF CutAt
<1>5. ASSUME NEW p
      PROVE  About(p, rest) <=> \E m \in DOMAIN lines : i < m /\ lines[m].pid = p
  <2>1. DOMAIN rest = 1..(Len(lines) - i)
    BY <1>3, LenProperties
  <2>2. \A j \in 1..(Len(lines) - i) : i + j \in 1..Len(lines) /\ i < i + j /\ rest[j] = lines[i + j]
    BY <1>1, <1>3
  <2>3. \A m \in 1..Len(lines) :
          i < m => m - i \in 1..(Len(lines) - i) /\ rest[m - i] = lines[m]
    BY <1>1, <1>3
  <2> QED
    BY <1>1, <2>1, <2>2, <2>3 DEF About
<1> QED
  BY <1>4, <1>5 DEF front, rest

LEMMA AppendShape ==
    ASSUME NEW lines \in Seq(Line), NEW l \in Line
    PROVE  /\ Append(lines, l) \in Seq(Line)
           /\ Len(lines) \in Nat /\ DOMAIN lines = 1..Len(lines)
           /\ DOMAIN Append(lines, l) = 1..(Len(lines) + 1)
           /\ Append(lines, l)[Len(lines) + 1] = l
           /\ \A i \in 1..Len(lines) : Append(lines, l)[i] = lines[i]
BY AppendProperties, LenProperties

-----------------------------------------------------------------------------
(* Type correctness.                                                       *)

\* The variables of the device and of the stream.
DeviceOK ==
    /\ proc \in [Pid -> Pkg \cup {None}]
    /\ last \in Line \cup {None}
    /\ log \in Seq(Line) /\ Len(log) <= MaxLog
    /\ unseeded \subseteq Pid
    /\ attached => unseeded = {}
    /\ unheard \subseteq Pid

LEMMA SystemTypeParts == SystemTypeOK <=> TypeOK /\ DeviceOK
BY DEF SystemTypeOK, DeviceOK

LEMMA SystemInitType == SystemInit => SystemTypeOK
<1> SUFFICES ASSUME SystemInit PROVE SystemTypeOK
  OBVIOUS
<1>1. last_event_epoch \in Nat /\ <<>> \in Seq(Pkg)
  BY ParameterAssumption, EmptySeq DEF SystemInit, new
<1>2. TypeOK
  BY <1>1, ParameterAssumption DEF SystemInit, new, TypeOK, AnchorTable
<1>3. <<>> \in Seq(Line) /\ Len(<<>>) = 0
  BY EmptySeq
<1>4. DeviceOK
  BY <1>3, SystemAssumption DEF SystemInit, DeviceOK
<1> QED
  BY <1>2, <1>4, SystemTypeParts

LEMMA HappensType ==
    ASSUME DeviceOK, NEW l \in Line, Happens(l)
    PROVE  DeviceOK'
<1>1. l.pid \in Pid /\ l.pkg \in Pkg \cup {None}
  BY LineShape
<1>2. proc' \in [Pid -> Pkg \cup {None}]
  BY <1>1 DEF Happens, DeviceOK
<1>3. log' \in Seq(Line) /\ Len(log') <= MaxLog
  <2>1. CASE attached
    <3>1. log' = Append(log, l) /\ Len(log) < MaxLog
      BY <2>1 DEF Happens
    <3>2. Len(log') = Len(log) + 1 /\ log' \in Seq(Line) /\ Len(log) \in Nat
      BY <3>1, AppendProperties, LenProperties DEF DeviceOK
    <3> QED
      BY <3>1, <3>2, SystemAssumption
  <2>2. CASE ~attached
    BY <2>2 DEF Happens, DeviceOK
  <2> QED
    BY <2>1, <2>2
<1>4. last' \in Line \cup {None} /\ unheard' \subseteq Pid
  BY <1>1 DEF Happens, DeviceOK
<1> QED
  BY <1>2, <1>3, <1>4 DEF Happens, DeviceOK

LEMMA DeviceType ==
    ASSUME SystemTypeOK, Device
    PROVE  SystemTypeOK'
<1>1. TypeOK /\ DeviceOK
  BY SystemTypeParts
<1>2. TypeOK'
  <2>1. UNCHANGED vars
    BY DEF Device, Forks, Exits, LogsOther, Loses, Happens
  <2> QED
    BY <1>1, <2>1 DEF TypeOK, vars, lists, tables, screen, game
<1>3. CASE Forks \/ Exits
  <2>1. PICK l \in Line : Happens(l)
    BY <1>3, HappensLine
  <2> QED
    BY <1>1, <1>2, <2>1, HappensType, SystemTypeParts DEF SystemTypeOK, DeviceOK
<1>4. CASE LogsOther
  BY <1>1, <1>2, <1>4 DEF LogsOther, SystemTypeOK, DeviceOK, history
<1>5. CASE Loses
  <2>1. PICK i \in DOMAIN log :
          /\ log' = SubSeq(log, 1, i - 1) \o SubSeq(log, i + 1, Len(log))
          /\ unheard' \subseteq unheard \cup {log[i].pid}
          /\ UNCHANGED <<vars, proc, last, unseeded, attached>>
    BY <1>5 DEF Loses
  <2>2. CutAt(log, log', i)
    BY <1>1, <2>1, LossCuts DEF DeviceOK
  <2>3. log[i].pid \in Pid /\ Len(log) \in Nat
    BY <1>1, LenProperties, ElementOfSeq, LineShape DEF DeviceOK
  <2>4. log' \in Seq(Line) /\ Len(log') <= MaxLog
    BY <1>1, <2>2, <2>3, SystemAssumption DEF CutAt, DeviceOK
  <2> QED
    BY <1>1, <1>2, <2>1, <2>3, <2>4 DEF SystemTypeOK, DeviceOK
<1> QED
  BY <1>3, <1>4, <1>5 DEF Device

LEMMA SeedType ==
    ASSUME SystemTypeOK, NEW p \in Pid, SeedEntry(p)
    PROVE  SystemTypeOK'
<1>1. TypeOK /\ DeviceOK
  BY SystemTypeParts
<1>2. DeviceOK'
  BY <1>1 DEF SeedEntry, DeviceOK, history
<1>3. /\ pid_to_pkg' \in PidTable /\ pkg_to_pids' \in PidSets
      /\ pkg_to_uid' \in [Pkg -> Uid \cup {None}]
  <2>1. proc[p] \in Pkg \cup {None} /\ UidOf(proc[p]) \in Uid
    BY <1>1 DEF DeviceOK, UidOf, Uid
  <2> QED
    BY <1>1, <2>1 DEF SeedEntry, TypeOK, PidTable, PidSets, tables
<1>4. TypeOK'
  BY <1>1, <1>3 DEF SeedEntry, TypeOK, PidTable, PidSets, lists, screen, game
<1> QED
  BY <1>2, <1>4, SystemTypeParts DEF SystemTypeOK, DeviceOK

LEMMA AttachType ==
    ASSUME SystemTypeOK, Attaches
    PROVE  SystemTypeOK'
<1>1. TypeOK /\ DeviceOK
  BY SystemTypeParts
<1>2. TypeOK'
  BY <1>1 DEF Attaches, TypeOK, vars, lists, tables, screen, game
<1>3. log' \in Seq(Line) /\ Len(log') <= MaxLog
  <2>1. <<>> \in Seq(Line) /\ Len(<<>>) = 0
    BY EmptySeq
  <2>2. last # None => <<last>> \in Seq(Line) /\ Len(<<last>>) = 1
    BY <1>1, <2>1 DEF DeviceOK
  <2> QED
    BY <2>1, <2>2, SystemAssumption DEF Attaches
<1> QED
  BY <1>1, <1>2, <1>3 DEF Attaches, SystemTypeOK, DeviceOK

LEMMA HearsType ==
    ASSUME SystemTypeOK, Hears
    PROVE  SystemTypeOK'
<1>1. TypeOK /\ DeviceOK
  BY SystemTypeParts
<1>2. /\ Head(log) \in Line /\ log' \in Seq(Line)
      /\ Len(log') = Len(log) - 1 /\ Len(log) \in Nat
  BY <1>1, HeadTailProperties, LenProperties DEF Hears, DeviceOK
<1>3. TypeOK'
  <2>1. PICK now \in Epoch :
          IF Head(log).tag = "start"
          THEN \E top \in BOOLEAN :
                 on_proc_start(now, Head(log).pid, UidOf(Head(log).pkg), Head(log).pkg, top)
          ELSE on_proc_died(now, Head(log).pid)
    BY DEF Hears
  <2>2. /\ Head(log).pid \in Pid
        /\ Head(log).tag = "start" => Head(log).pkg \in Pkg
        /\ UidOf(Head(log).pkg) \in Uid
    BY <1>2, LineShape DEF UidOf, Uid
  <2> QED
    BY <1>1, <2>1, <2>2, StartType, DiedType
<1> QED
  BY <1>1, <1>2, <1>3, SystemAssumption DEF Hears, SystemTypeOK, DeviceOK, history

LEMMA HearsOtherType ==
    ASSUME SystemTypeOK, HearsOther
    PROVE  SystemTypeOK'
<1>1. TypeOK /\ DeviceOK
  BY SystemTypeParts
<1>2. TypeOK'
  BY <1>1, ResumeType, ScreenType, DozeType, ReloadType DEF HearsOther
<1> QED
  BY <1>1, <1>2 DEF HearsOther, SystemTypeOK, DeviceOK, history

\* The tables and the stream keep their types, the stream its bound, and it
\* is not read before the scan of /proc is over.
THEOREM SystemTypeCorrect == SystemSpec => []SystemTypeOK
<1>1. SystemInit => SystemTypeOK
  BY SystemInitType
<1>2. SystemTypeOK /\ [SystemNext]_svars => SystemTypeOK'
  <2> SUFFICES ASSUME SystemTypeOK, [SystemNext]_svars PROVE SystemTypeOK'
    OBVIOUS
  <2>1. CASE UNCHANGED svars
    BY <2>1 DEF svars, vars, history, lists, tables, screen, game, SystemTypeOK, TypeOK
  <2> QED
    BY <2>1, DeviceType, SeedType, AttachType, HearsType, HearsOtherType
       DEF SystemNext, TheDaemon
<1> QED
  BY <1>1, <1>2, PTL DEF SystemSpec

-----------------------------------------------------------------------------
(* The daemon within the system.                                           *)

LEMMA HearsNext ==
    ASSUME SystemTypeOK, Hears
    PROVE  Next
<1> DEFINE l == Head(log)
<1>1. /\ l.pid \in Pid
      /\ l.tag = "start" => l.pkg \in Pkg
  BY HeadTailProperties, LineShape DEF Hears, SystemTypeOK
<1>2. UidOf(l.pkg) \in Uid
  BY DEF UidOf, Uid
<1>3. PICK now \in Epoch :
        IF l.tag = "start"
        THEN \E top \in BOOLEAN : on_proc_start(now, l.pid, UidOf(l.pkg), l.pkg, top)
        ELSE on_proc_died(now, l.pid)
  BY DEF Hears
<1> QED
  BY <1>1, <1>2, <1>3 DEF Next, dispatch_logcat_line

\* What the device does is nothing to the daemon, and what the daemon does
\* about it, module Daemon admits; only the scan of /proc comes on top.
LEMMA DaemonStep ==
    ASSUME SystemTypeOK, [SystemNext]_svars
    PROVE  [Next]_vars \/ \E p \in Pid : SeedEntry(p)
<1>1. CASE UNCHANGED svars
  BY <1>1 DEF svars
<1>2. CASE Device \/ Attaches
  BY <1>2 DEF Device, Forks, Exits, LogsOther, Loses, Happens, Attaches
<1>3. CASE Hears
  BY <1>3, HearsNext
<1>4. CASE HearsOther
  BY <1>4 DEF HearsOther, Next, dispatch_logcat_line
<1> QED
  BY <1>1, <1>2, <1>3, <1>4 DEF SystemNext, TheDaemon

\* Once logcat is attached, the daemon of the system is the daemon of module
\* Daemon: whatever is proved of the steps there holds here.
THEOREM AttachedDaemon == SystemSpec => [][attached => Next]_vars
<1>1. SystemTypeOK /\ [SystemNext]_svars => [attached => Next]_vars
  <2> SUFFICES ASSUME SystemTypeOK, [SystemNext]_svars, attached PROVE [Next]_vars
    OBVIOUS
  <2>1. \A p \in Pid : ~SeedEntry(p)
    BY DEF SystemTypeOK, SeedEntry
  <2> QED
    BY <2>1, DaemonStep
<1> QED
  BY <1>1, SystemTypeCorrect, PTL DEF SystemSpec

\* From the scan of /proc on, a pid attributed to a package is in that
\* package's pid set.
THEOREM SystemIndexCorrect == SystemSpec => []ForwardIndexSound
<1>1. SystemInit => ForwardIndexSound
  BY DEF SystemInit, ForwardIndexSound
<1>2. SystemTypeOK /\ ForwardIndexSound /\ [SystemNext]_svars => ForwardIndexSound'
  <2> SUFFICES ASSUME SystemTypeOK, ForwardIndexSound, [SystemNext]_svars
               PROVE  ForwardIndexSound'
    OBVIOUS
  <2>1. TypeOK
    BY DEF SystemTypeOK
  <2>2. CASE [Next]_vars
    BY <2>1, <2>2, IndexStep
  <2>3. ASSUME NEW q \in Pid, SeedEntry(q) PROVE ForwardIndexSound'
    <3>1. CASE UNCHANGED tables
      BY <3>1 DEF tables, ForwardIndexSound
    <3>2. CASE /\ proc[q] # None
               /\ pid_to_pkg' = [pid_to_pkg EXCEPT ![q] = proc[q]]
               /\ pkg_to_pids' = [pkg_to_pids EXCEPT ![proc[q]] = @ \cup {q}]
      BY <2>1, <3>2 DEF SystemTypeOK, TypeOK, ForwardIndexSound
    <3> QED
      BY <2>3, <3>1, <3>2 DEF SeedEntry
  <2> QED
    BY <2>2, <2>3, DaemonStep
<1> QED
  BY <1>1, <1>2, SystemTypeCorrect, PTL DEF SystemSpec

\* The foreground package leads the history, whatever the device does.
THEOREM SystemHistoryCorrect == SystemSpec => []ForegroundLeadsHistory
<1>1. SystemInit => ForegroundLeadsHistory
  BY EmptySeq DEF SystemInit, new, ForegroundLeadsHistory
<1>2. SystemTypeOK /\ ForegroundLeadsHistory /\ [SystemNext]_svars => ForegroundLeadsHistory'
  <2> SUFFICES ASSUME SystemTypeOK, ForegroundLeadsHistory, [SystemNext]_svars
               PROVE  ForegroundLeadsHistory'
    OBVIOUS
  <2>1. CASE [Next]_vars
    BY <2>1, HistoryStep DEF SystemTypeOK
  <2>2. CASE \E q \in Pid : SeedEntry(q)
    BY <2>2 DEF SeedEntry, ForegroundLeadsHistory
  <2> QED
    BY <2>1, <2>2, DaemonStep
<1> QED
  BY <1>1, <1>2, SystemTypeCorrect, PTL DEF SystemSpec

-----------------------------------------------------------------------------
(* What the stream still has to tell.                                      *)

Latest(lines, i) == \A j \in DOMAIN lines : i < j => lines[j].pid # lines[i].pid

\* The latest line about a pid says what the kernel runs there.
Told(lines, kernel, deaf) ==
    \A i \in DOMAIN lines :
        Latest(lines, i) /\ lines[i].pid \notin deaf => lines[i].pkg = kernel[lines[i].pid]

LEMMA CutDomain ==
    ASSUME NEW lines \in Seq(Line), NEW cut, NEW i \in DOMAIN lines, CutAt(lines, cut, i)
    PROVE  /\ DOMAIN cut = 1..(Len(lines) - 1) /\ DOMAIN lines = 1..Len(lines)
           /\ Len(lines) \in Nat /\ i \in 1..Len(lines)
           /\ \A j \in DOMAIN cut : cut[j] = lines[IF j < i THEN j ELSE j + 1]
BY LenProperties DEF CutAt

LEMMA CutAbout ==
    ASSUME NEW lines \in Seq(Line), NEW cut, NEW i \in DOMAIN lines, CutAt(lines, cut, i),
           NEW p
    PROVE  About(p, cut) <=> \E m \in DOMAIN lines : m # i /\ lines[m].pid = p
<1>1. /\ DOMAIN cut = 1..(Len(lines) - 1) /\ DOMAIN lines = 1..Len(lines)
      /\ Len(lines) \in Nat /\ i \in 1..Len(lines)
      /\ \A j \in DOMAIN cut : cut[j] = lines[IF j < i THEN j ELSE j + 1]
  BY CutDomain
<1>2. ASSUME NEW j \in DOMAIN cut, cut[j].pid = p
      PROVE  \E m \in DOMAIN lines : m # i /\ lines[m].pid = p
  <2> DEFINE m == IF j < i THEN j ELSE j + 1
  <2>1. m \in DOMAIN lines /\ m # i
    BY <1>1
  <2>2. lines[m].pid = p
    BY <1>1, <1>2
  <2> QED
    BY <2>1, <2>2
<1>3. ASSUME NEW m \in DOMAIN lines, m # i, lines[m].pid = p
      PROVE  \E j \in DOMAIN cut : cut[j].pid = p
  <2> DEFINE j == IF m < i THEN m ELSE m - 1
  <2>1. j \in DOMAIN cut /\ (IF j < i THEN j ELSE j + 1) = m
    BY <1>1, <1>3
  <2>2. cut[j] = lines[m]
    BY <1>1, <2>1
  <2> HIDE DEF j
  <2> QED
    BY <1>3, <2>1, <2>2
<1> QED
  BY <1>2, <1>3 DEF About

\* A line that is read, that a later one about its pid makes up for, or whose
\* pid is given up, leaves the rest of the stream true.
LEMMA CutTold ==
    ASSUME NEW lines \in Seq(Line), NEW cut, NEW i \in DOMAIN lines, CutAt(lines, cut, i),
           NEW kernel, NEW deaf, NEW deafer, deaf \subseteq deafer,
           Told(lines, kernel, deaf),
           \/ i = 1
           \/ lines[i].pid \in deafer
           \/ \E m \in DOMAIN lines : i < m /\ lines[m].pid = lines[i].pid
    PROVE  Told(cut, kernel, deafer)
<1>1. /\ DOMAIN cut = 1..(Len(lines) - 1) /\ DOMAIN lines = 1..Len(lines)
      /\ Len(lines) \in Nat /\ i \in 1..Len(lines)
      /\ \A j \in DOMAIN cut : cut[j] = lines[IF j < i THEN j ELSE j + 1]
  BY CutDomain
<1> SUFFICES ASSUME NEW j \in DOMAIN cut, Latest(cut, j), cut[j].pid \notin deafer
             PROVE  cut[j].pkg = kernel[cut[j].pid]
  BY DEF Told
<1> DEFINE up(k) == IF k < i THEN k ELSE k + 1
<1>2. up(j) \in DOMAIN lines /\ cut[j] = lines[up(j)]
  BY <1>1
<1>3. ASSUME NEW k \in DOMAIN lines, up(j) < k, k # i, lines[k].pid = lines[up(j)].pid
      PROVE  FALSE
  <2> DEFINE d == IF k < i THEN k ELSE k - 1
  <2>1. d \in DOMAIN cut /\ up(d) = k /\ j < d
    BY <1>1, <1>3
  <2>2. cut[d] = lines[k]
    BY <1>1, <2>1
  <2> HIDE DEF d, up
  <2> QED
    BY <1>2, <1>3, <2>1, <2>2 DEF Latest
<1>4. ~(up(j) < i /\ lines[i].pid = lines[up(j)].pid)
  <2> SUFFICES ASSUME up(j) < i, lines[i].pid = lines[up(j)].pid PROVE FALSE
    OBVIOUS
  <2>1. i # 1
    BY <1>1
  <2>2. PICK m \in DOMAIN lines : i < m /\ lines[m].pid = lines[i].pid
    BY <1>2, <2>1
  <2> HIDE DEF up
  <2>3. up(j) < m /\ m # i
    BY <1>1, <1>2, <2>2
  <2> QED
    BY <1>3, <2>2, <2>3
<1> HIDE DEF up
<1>5. Latest(lines, up(j))
  BY <1>1, <1>2, <1>3, <1>4 DEF Latest
<1> QED
  BY <1>2, <1>5 DEF Told

\* A line that has just happened is the latest about its pid.
LEMMA AppendTold ==
    ASSUME NEW lines \in Seq(Line), NEW l \in Line, NEW kernel \in [Pid -> Pkg \cup {None}],
           NEW deaf, Told(lines, kernel, deaf)
    PROVE  /\ Told(Append(lines, l), [kernel EXCEPT ![l.pid] = l.pkg], deaf \ {l.pid})
           /\ \A p : About(p, Append(lines, l)) <=> p = l.pid \/ About(p, lines)
<1> DEFINE longer == Append(lines, l)
           n == Len(lines)
<1>1. /\ n \in Nat /\ DOMAIN lines = 1..n /\ DOMAIN longer = 1..(n + 1)
      /\ longer[n + 1] = l
      /\ \A i \in 1..n : longer[i] = lines[i]
  BY AppendShape
<1>2. l.pid \in Pid
  BY LineShape
<1>3. \A i \in 1..n : lines[i].pid \in Pid
  BY ElementOfSeq, LineShape
<1> HIDE DEF longer, n
<1>4. Told(longer, [kernel EXCEPT ![l.pid] = l.pkg], deaf \ {l.pid})
  <2> SUFFICES ASSUME NEW i \in 1..(n + 1), Latest(longer, i), longer[i].pid \notin deaf \ {l.pid}
               PROVE  longer[i].pkg = [kernel EXCEPT ![l.pid] = l.pkg][longer[i].pid]
    BY <1>1 DEF Told
  <2>1. CASE i = n + 1
    BY <1>1, <1>2, <2>1
  <2>2. CASE i \in 1..n
    <3>1. i < n + 1 /\ n + 1 \in DOMAIN longer
      BY <1>1, <2>2
    <3>2. lines[i].pid # l.pid
      BY <1>1, <2>2, <3>1 DEF Latest
    <3>3. \A j \in 1..n : j \in 1..(n + 1)
      BY <1>1
    <3>4. Latest(lines, i)
      BY <1>1, <2>2, <3>3 DEF Latest
    <3>5. lines[i].pkg = kernel[lines[i].pid]
      BY <1>1, <2>2, <3>2, <3>4 DEF Told
    <3> QED
      BY <1>1, <1>3, <2>2, <3>2, <3>5
  <2> QED
    BY <1>1, <2>1, <2>2
<1>5. ASSUME NEW p
      PROVE  About(p, longer) <=> p = l.pid \/ About(p, lines)
  <2>1. \A i \in 1..(n + 1) : i = n + 1 \/ i \in 1..n
    BY <1>1
  <2>2. n + 1 \in 1..(n + 1) /\ \A i \in 1..n : i \in 1..(n + 1)
    BY <1>1
  <2> QED
    BY <1>1, <2>1, <2>2 DEF About
<1> QED
  BY <1>4, <1>5 DEF longer

-----------------------------------------------------------------------------
(* What a pass does to the tables, when it sees the kernel's processes.    *)

\* One index is the other read backwards.
Converse(pkg_of, pids_of) == \A p \in Pid, k \in Pkg : p \in pids_of[k] <=> pkg_of[p] = k

\* A pass forgets only pids that are gone, and in both indexes.
Settles(pkg_of, pids_of) ==
    /\ \A p \in Pid : pid_to_pkg'[p] = pkg_of[p] \/ (pid_to_pkg'[p] = None /\ proc[p] = None)
    /\ Converse(pkg_of, pids_of) => Converse(pid_to_pkg', pkg_to_pids')

LEMMA PassSettles ==
    ASSUME NEW now, NEW alive, NEW pkg_of \in PidTable, NEW pids_of \in PidSets,
           evaluate_reaping_pipeline(now, alive, pkg_of, pids_of),
           SeesTheKernel(pids_of)
    PROVE  Settles(pkg_of, pids_of)
<1>1. PICK is_low_mem \in check_mem_critical :
        \E readable \in SUBSET Pid, taken \in SUBSET Expired(now, alive, is_low_mem) :
          \E protected \in SUBSET taken :
            Reaped(now, alive, pkg_of, pids_of, Expired(now, alive, is_low_mem),
                   readable, taken, protected)
  BY PassShape DEF PidSets
<1> DEFINE expired == Expired(now, alive, is_low_mem)
<1>2. expired \subseteq Pkg
  BY DEF Expired
<1> HIDE DEF expired
<1>3. PICK readable \in SUBSET Pid :
        /\ pid_to_pkg' = [p \in Pid |->
             IF \E k \in expired : p \in pids_of[k] \ readable THEN None ELSE pkg_of[p]]
        /\ pkg_to_pids' = [k \in Pkg |->
             IF k \in expired THEN pids_of[k] \cap readable ELSE pids_of[k]]
  BY <1>1 DEF Reaped, Purged, Retained, expired
<1>4. ASSUME NEW p \in Pid, NEW k \in expired, p \in pids_of[k] \ readable
      PROVE  proc[p] = None
  <2>1. p \notin pkg_to_pids'[k]
    BY <1>2, <1>3, <1>4
  <2> QED
    BY <1>2, <1>4, <2>1 DEF SeesTheKernel
<1>5. \A p \in Pid : pid_to_pkg'[p] = pkg_of[p] \/ (pid_to_pkg'[p] = None /\ proc[p] = None)
  BY <1>3, <1>4
<1>6. ASSUME Converse(pkg_of, pids_of), NEW p \in Pid, NEW k \in Pkg
      PROVE  p \in pkg_to_pids'[k] <=> pid_to_pkg'[p] = k
  <2>1. p \in pids_of[k] <=> pkg_of[p] = k
    BY <1>6 DEF Converse
  <2>2. \A j \in expired : p \in pids_of[j] <=> pkg_of[p] = j
    BY <1>2, <1>6 DEF Converse
  <2> QED
    BY <1>2, <1>3, <2>1, <2>2, NoneAssumption
<1> QED
  BY <1>5, <1>6 DEF Settles, Converse

LEMMA NoPassSettles ==
    ASSUME NEW alive, NEW pkg_of, NEW pids_of, NoPass(alive, pkg_of, pids_of)
    PROVE  Settles(pkg_of, pids_of)
BY DEF NoPass, Settles

\* The tables a start and a death hand on.
AfterStart(pid, pkg) ==
    Settles([pid_to_pkg EXCEPT ![pid] = pkg], [pkg_to_pids EXCEPT ![pkg] = @ \cup {pid}])

AfterDeath(pid) ==
    /\ pid_to_pkg' = [pid_to_pkg EXCEPT ![pid] = None]
    /\ pkg_to_pids' = IF pid_to_pkg[pid] = None THEN pkg_to_pids
                      ELSE [pkg_to_pids EXCEPT ![pid_to_pkg[pid]] = @ \ {pid}]

LEMMA HearsTables ==
    ASSUME SystemTypeOK, Hears
    PROVE  /\ Head(log) \in Line /\ log' = Tail(log) /\ log # <<>>
           /\ UNCHANGED <<proc, last, unseeded, attached, unheard, lossy>>
           /\ Head(log).tag = "start" => AfterStart(Head(log).pid, Head(log).pkg)
           /\ Head(log).tag = "died" => AfterDeath(Head(log).pid)
<1> DEFINE l == Head(log)
<1>1. l \in Line
  BY HeadTailProperties DEF Hears, SystemTypeOK
<1>2. l.pid \in Pid /\ (l.tag = "start" => l.pkg \in Pkg)
  BY <1>1, LineShape
<1>3. pid_to_pkg \in PidTable /\ pkg_to_pids \in PidSets
  BY DEF SystemTypeOK, TypeOK, PidTable, PidSets
<1>4. PICK now \in Epoch :
        IF l.tag = "start"
        THEN /\ \E top \in BOOLEAN : on_proc_start(now, l.pid, UidOf(l.pkg), l.pkg, top)
             /\ SeesTheKernel([pkg_to_pids EXCEPT ![l.pkg] = @ \cup {l.pid}])
        ELSE on_proc_died(now, l.pid)
  BY DEF Hears
<1> HIDE DEF l
<1>5. CASE l.tag = "start"
  <2> DEFINE pkg_of == [pid_to_pkg EXCEPT ![l.pid] = l.pkg]
             pids_of == [pkg_to_pids EXCEPT ![l.pkg] = @ \cup {l.pid}]
  <2>1. pkg_of \in PidTable /\ pids_of \in PidSets
    BY <1>2, <1>3, <1>5 DEF PidTable, PidSets
  <2>2. SeesTheKernel(pids_of)
    BY <1>4, <1>5
  <2>3. \E alive : \/ evaluate_reaping_pipeline(now, alive, pkg_of, pids_of)
                   \/ NoPass(alive, pkg_of, pids_of)
    BY <1>4, <1>5 DEF on_proc_start
  <2> HIDE DEF pkg_of, pids_of
  <2>4. Settles(pkg_of, pids_of)
    BY <2>1, <2>2, <2>3, PassSettles, NoPassSettles
  <2>5. AfterStart(l.pid, l.pkg)
    BY <2>4 DEF AfterStart, pkg_of, pids_of
  <2> QED
    BY <1>1, <1>5, <2>5 DEF Hears, history, l
<1>6. CASE l.tag = "died"
  <2>1. on_proc_died(now, l.pid)
    BY <1>4, <1>6
  <2>2. AfterDeath(l.pid)
    <3>1. CASE pid_to_pkg[l.pid] = None
      <4>1. [pid_to_pkg EXCEPT ![l.pid] = None] = pid_to_pkg
        BY <1>2, <1>3, <3>1 DEF PidTable
      <4> QED
        BY <2>1, <3>1, <4>1 DEF on_proc_died, NoPass, AfterDeath
    <3>2. CASE pid_to_pkg[l.pid] # None
      BY <2>1, <3>2 DEF on_proc_died, NoPass, Survivors, AfterDeath
    <3> QED
      BY <3>1, <3>2
  <2> QED
    BY <1>1, <1>6, <2>2 DEF Hears, history, l
<1> QED
  BY <1>1, <1>5, <1>6, LineShape DEF l

LEMMA HearsOtherTables ==
    ASSUME SystemTypeOK, HearsOther
    PROVE  /\ UNCHANGED <<proc, last, log, unseeded, attached, unheard, lossy>>
           /\ Settles(pid_to_pkg, pkg_to_pids)
<1>1. pid_to_pkg \in PidTable /\ pkg_to_pids \in PidSets
  BY DEF SystemTypeOK, TypeOK, PidTable, PidSets
<1>2. CASE reload_configs
  BY <1>2 DEF HearsOther, history, reload_configs, tables, Settles
<1>3. CASE \E now \in Epoch : \/ \E pkg \in Pkg : on_resume_activity(now, pkg)
                              \/ \E on \in BOOLEAN : on_screen_toggled(now, on)
                              \/ on_device_idle_light_step(now)
  <2>1. \E now \in Epoch : \E alive :
          \/ evaluate_reaping_pipeline(now, alive, pid_to_pkg, pkg_to_pids)
          \/ NoPass(alive, pid_to_pkg, pkg_to_pids)
    BY <1>3 DEF on_resume_activity, on_screen_toggled, on_device_idle_light_step
  <2>2. SeesTheKernel(pkg_to_pids) \/ reload_configs
    BY DEF HearsOther
  <2> QED
    BY <1>1, <1>2, <2>1, <2>2, PassSettles, NoPassSettles DEF HearsOther, history
<1> QED
  BY <1>2, <1>3 DEF HearsOther

-----------------------------------------------------------------------------
(* What the daemon believes.                                               *)

\* ForwardExact, together with what makes it inductive: what the stream and
\* the replayed line have to tell is true, a pid that is not scanned yet is
\* unknown, and before the attachment there is no stream.
ForwardInv ==
    /\ last # None => last.pkg = proc[last.pid]
    /\ Told(log, proc, unheard)
    /\ \A p \in unseeded : pid_to_pkg[p] = None
    /\ IF attached THEN last = None ELSE log = <<>>
    /\ ForwardExact

LEMMA NothingTold ==
    ASSUME NEW kernel, NEW deaf
    PROVE  Told(<<>>, kernel, deaf) /\ \A p : ~About(p, <<>>)
<1>1. DOMAIN <<>> = {}
  OBVIOUS
<1> QED
  BY <1>1 DEF Told, About

LEMMA HappensForward ==
    ASSUME SystemTypeOK, ForwardInv, NEW l \in Line, Happens(l)
    PROVE  ForwardInv'
<1>1. l.pid \in Pid /\ l.pkg \in Pkg \cup {None} 
  BY LineShape
<1>2. /\ proc' = [proc EXCEPT ![l.pid] = l.pkg]
      /\ UNCHANGED <<pid_to_pkg, unseeded, attached>>
  BY DEF Happens, vars, tables
<1>3. CASE attached
  <2>1. /\ log' = Append(log, l) /\ last' = None /\ unseeded = {}
        /\ unheard' = unheard \ {l.pid}
    BY <1>3 DEF Happens, SystemTypeOK, ForwardInv
  <2>2. /\ Told(log', proc', unheard')
        /\ \A p : About(p, log') <=> p = l.pid \/ About(p, log)
    BY <1>2, <2>1, AppendTold DEF SystemTypeOK, ForwardInv
  <2>3. ForwardExact'
    BY <1>1, <1>2, <2>1, <2>2 DEF ForwardInv, ForwardExact, SystemTypeOK
  <2> QED
    BY <1>1, <1>2, <1>3, <2>1, <2>2, <2>3 DEF ForwardInv, SystemTypeOK
<1>4. CASE ~attached
  <2>1. /\ last' = l /\ log' = log /\ log = <<>>
        /\ unheard' = IF l.pid \in unseeded THEN unheard ELSE unheard \cup {l.pid}
    BY <1>4 DEF Happens, ForwardInv
  <2>2. last'.pkg = proc'[last'.pid]
    BY <1>1, <1>2, <2>1 DEF SystemTypeOK
  <2>3. ForwardExact'
    BY <1>1, <1>2, <2>1, NothingTold DEF ForwardInv, ForwardExact, SystemTypeOK
  <2> QED
    BY <1>2, <1>4, <2>1, <2>2, <2>3, NothingTold DEF ForwardInv
<1> QED
  BY <1>3, <1>4

LEMMA LosesForward ==
    ASSUME SystemTypeOK, ForwardInv, Loses
    PROVE  ForwardInv'
<1>1. PICK i \in DOMAIN log :
        LET rest == SubSeq(log, i + 1, Len(log))
        IN  /\ log' = SubSeq(log, 1, i - 1) \o rest
            /\ unheard' = IF About(log[i].pid, rest) THEN unheard
                          ELSE unheard \cup {log[i].pid}
            /\ UNCHANGED <<vars, proc, last, unseeded, attached>>
  BY DEF Loses
<1>2. log \in Seq(Line) /\ attached
  BY EmptySeq, LenProperties DEF SystemTypeOK, ForwardInv
<1>3. /\ CutAt(log, log', i)
      /\ About(log[i].pid, SubSeq(log, i + 1, Len(log)))
           <=> \E m \in DOMAIN log : i < m /\ log[m].pid = log[i].pid
  BY <1>1, <1>2, LossCuts
<1>4. /\ unheard \subseteq unheard'
      /\ \/ log[i].pid \in unheard'
         \/ \E m \in DOMAIN log : i < m /\ log[m].pid = log[i].pid
  BY <1>1, <1>3
<1>5. UNCHANGED <<pid_to_pkg, proc, last, unseeded, attached>>
  BY <1>1 DEF vars, tables
<1>6. Told(log', proc', unheard')
  BY <1>2, <1>3, <1>4, <1>5, CutTold DEF ForwardInv
<1>7. ForwardExact'
  <2> SUFFICES ASSUME NEW p \in Pid, p \notin unseeded', p \notin unheard', ~About(p, log')
               PROVE  pid_to_pkg'[p] = proc'[p]
    BY DEF ForwardExact
  <2>1. \A m \in DOMAIN log : m # i => log[m].pid # p
    BY <1>2, <1>3, CutAbout
  <2>2. log[i].pid # p
    <3>1. Len(log) \in Nat /\ DOMAIN log = 1..Len(log)
      BY <1>2, LenProperties
    <3>2. \A m \in DOMAIN log : i < m => m # i
      BY <3>1
    <3> QED
      BY <1>4, <2>1, <3>2
  <2>3. ~About(p, log)
    BY <2>1, <2>2 DEF About
  <2> QED
    BY <1>4, <1>5, <2>3 DEF ForwardInv, ForwardExact
<1> QED
  BY <1>2, <1>5, <1>6, <1>7 DEF ForwardInv

LEMMA SeedForward ==
    ASSUME SystemTypeOK, ForwardInv, NEW q \in Pid, SeedEntry(q)
    PROVE  ForwardInv'
<1>1. /\ q \in unseeded /\ unseeded' = unseeded \ {q} /\ pid_to_pkg[q] = None /\ ~attached
      /\ UNCHANGED <<proc, last, log, attached>>
  BY DEF SeedEntry, ForwardInv, SystemTypeOK
<1>2. pid_to_pkg \in [Pid -> Pkg \cup {None}]
  BY DEF SystemTypeOK, TypeOK
<1>3. \/ /\ pid_to_pkg' = [pid_to_pkg EXCEPT ![q] = proc[q]]
         /\ unheard' = unheard
      \/ /\ pid_to_pkg' = pid_to_pkg
         /\ proc[q] = None /\ unheard' = unheard
      \/ /\ pid_to_pkg' = pid_to_pkg
         /\ unheard' = unheard \cup {q}
  BY DEF SeedEntry, history, tables
<1>4. \A p \in unseeded' : pid_to_pkg'[p] = None
  BY <1>1, <1>2, <1>3 DEF ForwardInv, SystemTypeOK
<1>5. ForwardExact'
  BY <1>1, <1>2, <1>3 DEF ForwardInv, ForwardExact, SystemTypeOK
<1>6. Told(log', proc', unheard')
  BY <1>1, NothingTold DEF ForwardInv
<1> QED
  BY <1>1, <1>4, <1>5, <1>6 DEF ForwardInv

LEMMA AttachForward ==
    ASSUME SystemTypeOK, ForwardInv, Attaches
    PROVE  ForwardInv'
<1>1. /\ attached' /\ last' = None /\ unseeded = {} /\ unseeded' = {} /\ log = <<>>
      /\ UNCHANGED <<proc, pid_to_pkg>>
  BY DEF Attaches, ForwardInv, vars, tables
<1>2. CASE last = None
  BY <1>1, <1>2, NothingTold DEF Attaches, ForwardInv, ForwardExact
<1>3. CASE last # None
  <2>1. log' = <<last>> /\ unheard' = unheard \ {last.pid}
    BY <1>3 DEF Attaches
  <2>2. DOMAIN log' = {1} /\ log'[1] = last
    BY <2>1
  <2>3. last.pkg = proc[last.pid]
    BY <1>3 DEF ForwardInv
  <2>4. Told(log', proc', unheard')
    BY <1>1, <2>2, <2>3 DEF Told
  <2>5. ForwardExact'
    BY <1>1, <2>1, <2>2, NothingTold DEF ForwardInv, ForwardExact, About
  <2> QED
    BY <1>1, <2>4, <2>5 DEF ForwardInv
<1> QED
  BY <1>2, <1>3

\* Neither a pass nor a line can part the belief from the kernel: a pass
\* forgets what is gone, and the last line about a pid is true.
LEMMA HearsForward ==
    ASSUME SystemTypeOK, ForwardInv, Hears
    PROVE  ForwardInv'
<1> DEFINE l == Head(log)
<1>1. /\ l \in Line /\ log' = Tail(log) /\ log # <<>>
      /\ UNCHANGED <<proc, last, unseeded, attached, unheard, lossy>>
      /\ l.tag = "start" => AfterStart(l.pid, l.pkg)
      /\ l.tag = "died" => AfterDeath(l.pid)
  BY HearsTables
<1>2. /\ l.pid \in Pid /\ l.pkg \in Pkg \cup {None} /\ l.tag \in {"start", "died"}
      /\ l.tag = "died" <=> l.pkg = None
  BY <1>1, LineShape
<1>3. attached /\ unseeded = {} /\ log \in Seq(Line) /\ pid_to_pkg \in [Pid -> Pkg \cup {None}]
  BY <1>1 DEF ForwardInv, SystemTypeOK, TypeOK
<1>4. /\ CutAt(log, Tail(log), 1) /\ 1 \in DOMAIN log /\ l = log[1]
      /\ DOMAIN log = 1..Len(log) /\ Len(log) \in Nat
  <2>1. Len(log) \in Nat \ {0} /\ DOMAIN log = 1..Len(log)
    BY <1>1, <1>3, EmptySeq, LenProperties
  <2> QED
    BY <1>1, <1>3, <2>1, TailCuts
<1> HIDE DEF l
<1>5. Told(log', proc', unheard')
  BY <1>1, <1>3, <1>4, CutTold DEF ForwardInv
<1>6. \A p \in Pid : \/ pid_to_pkg'[p] = [pid_to_pkg EXCEPT ![l.pid] = l.pkg][p]
                     \/ pid_to_pkg'[p] = None /\ proc[p] = None
  BY <1>1, <1>2, <1>3 DEF AfterStart, AfterDeath, Settles
<1>7. ForwardExact'
  <2> SUFFICES ASSUME NEW p \in Pid, p \notin unheard, ~About(p, log')
               PROVE  pid_to_pkg'[p] = proc[p]
    BY <1>1 DEF ForwardExact
  <2>1. \A m \in DOMAIN log : m # 1 => log[m].pid # p
    BY <1>1, <1>3, <1>4, CutAbout
  <2>2. CASE p = l.pid
    <3>1. Latest(log, 1)
      BY <1>4, <2>1, <2>2 DEF Latest
    <3>2. l.pkg = proc[p]
      BY <1>4, <2>2, <3>1 DEF ForwardInv, Told
    <3> QED
      BY <1>3, <1>6, <2>2, <3>2
  <2>3. CASE p # l.pid
    <3>1. ~About(p, log)
      BY <1>4, <2>1, <2>3 DEF About
    <3> QED
      BY <1>3, <1>6, <2>3, <3>1 DEF ForwardInv, ForwardExact
  <2> QED
    BY <2>2, <2>3
<1> QED
  BY <1>1, <1>3, <1>5, <1>7 DEF ForwardInv

LEMMA HearsOtherForward ==
    ASSUME SystemTypeOK, ForwardInv, HearsOther
    PROVE  ForwardInv'
<1>1. /\ UNCHANGED <<proc, last, log, unseeded, attached, unheard, lossy>>
      /\ Settles(pid_to_pkg, pkg_to_pids)
      /\ attached /\ unseeded = {}
  BY HearsOtherTables DEF HearsOther, SystemTypeOK
<1>2. ForwardExact'
  BY <1>1 DEF ForwardInv, ForwardExact, Settles
<1> QED
  BY <1>1, <1>2 DEF ForwardInv

LEMMA DeviceForward ==
    ASSUME SystemTypeOK, ForwardInv, Device
    PROVE  ForwardInv'
<1>1. CASE Forks \/ Exits
  BY <1>1, HappensLine, HappensForward
<1>2. CASE LogsOther
  BY <1>2 DEF LogsOther, ForwardInv, ForwardExact, vars, tables, history
<1>3. CASE Loses
  BY <1>3, LosesForward
<1> QED
  BY <1>1, <1>2, <1>3 DEF Device

LEMMA SystemInitForward == SystemInit => ForwardInv
<1> SUFFICES ASSUME SystemInit PROVE ForwardInv
  OBVIOUS
<1>1. last # None => last.pkg = proc[last.pid]
  BY DEF SystemInit
<1> QED
  BY <1>1, NothingTold DEF SystemInit, ForwardInv, ForwardExact

LEMMA ForwardStep ==
    ASSUME SystemTypeOK, ForwardInv, [SystemNext]_svars
    PROVE  ForwardInv'
<1>1. CASE UNCHANGED svars
  BY <1>1 DEF svars, vars, history, tables, ForwardInv, ForwardExact
<1> QED
  BY <1>1, DeviceForward, SeedForward, AttachForward, HearsForward, HearsOtherForward
     DEF SystemNext, TheDaemon

\* The belief and the stream: what the daemon holds to be true of a pid is,
\* or the stream will tell, or it was lost.
THEOREM ForwardExactCorrect == SystemSpec => []ForwardExact
<1>1. SystemInit => ForwardInv
  BY SystemInitForward
<1>2. SystemTypeOK /\ ForwardInv /\ [SystemNext]_svars => ForwardInv'
  BY ForwardStep
<1>3. ForwardInv => ForwardExact
  BY DEF ForwardInv
<1> QED
  BY <1>1, <1>2, <1>3, SystemTypeCorrect, PTL DEF SystemSpec

-----------------------------------------------------------------------------
(* The pid sets, as long as nothing is lost.                               *)

Oldest(lines, i) == \A j \in DOMAIN lines : j < i => lines[j].pid # lines[i].pid

\* The next start of a pid finds it unknown, or repeats what is known.
Fresh(lines, pkg_of) ==
    \A i \in DOMAIN lines :
        lines[i].tag = "start" /\ Oldest(lines, i) => pkg_of[lines[i].pid] \in {None, lines[i].pkg}

\* The line after a start is the death.
Alternates(lines) ==
    \A i \in DOMAIN lines :
        lines[i].tag = "start" =>
            \/ Latest(lines, i)
            \/ \E m \in DOMAIN lines :
                 /\ i < m /\ lines[m].pid = lines[i].pid /\ lines[m].tag = "died"
                 /\ \A n \in DOMAIN lines : i < n /\ n < m => lines[n].pid # lines[i].pid

\* SetsExact, together with what makes it inductive: the two indexes agree,
\* and the stream tells of every pid's starts and deaths in turn.
SetsInv ==
    ~lossy =>
        /\ unheard = {}
        /\ Converse(pid_to_pkg, pkg_to_pids)
        /\ Fresh(log, pid_to_pkg)
        /\ Alternates(log)

LEMMA NothingAlternates ==
    ASSUME NEW pkg_of
    PROVE  Fresh(<<>>, pkg_of) /\ Alternates(<<>>)
<1>1. DOMAIN <<>> = {}
  OBVIOUS
<1> QED
  BY <1>1 DEF Fresh, Alternates

LEMMA HappensSets ==
    ASSUME SystemTypeOK, ForwardInv, SetsInv, NEW l \in Line, Happens(l),
           l.tag = "start" <=> proc[l.pid] = None
    PROVE  SetsInv'
<1>1. /\ l.pid \in Pid /\ l.pkg \in Pkg \cup {None} /\ l.tag \in {"start", "died"}
      /\ \A i \in DOMAIN log : log[i].tag = "start" => log[i].pkg # None
  BY LineShape, LenProperties, ElementOfSeq, NoneAssumption DEF SystemTypeOK
<1>2. UNCHANGED <<pid_to_pkg, pkg_to_pids>>
  BY DEF Happens, vars, tables
<1> SUFFICES ASSUME ~lossy'
             PROVE  /\ unheard' = {} /\ Converse(pid_to_pkg', pkg_to_pids')
                    /\ Fresh(log', pid_to_pkg') /\ Alternates(log')
  BY DEF SetsInv
<1>3. /\ ~lossy /\ unheard = {} /\ unheard' = {}
      /\ Converse(pid_to_pkg, pkg_to_pids) /\ Fresh(log, pid_to_pkg) /\ Alternates(log)
  BY DEF Happens, SetsInv
<1>4. Converse(pid_to_pkg', pkg_to_pids')
  BY <1>2, <1>3
<1>5. CASE ~attached
  BY <1>3, <1>4, <1>5, NothingAlternates DEF Happens, ForwardInv
<1>6. CASE attached
  <2> DEFINE n == Len(log)
  <2>1. log' = Append(log, l) /\ unseeded = {}
    BY <1>6 DEF Happens, SystemTypeOK
  <2>2. /\ n \in Nat /\ DOMAIN log = 1..n /\ DOMAIN log' = 1..(n + 1)
        /\ log'[n + 1] = l
        /\ \A i \in 1..n : log'[i] = log[i]
    BY <2>1, AppendShape DEF SystemTypeOK
  <2> HIDE DEF n
  <2>3. \A i \in 1..n : i \in 1..(n + 1) /\ i < n + 1
    BY <2>2
  <2>4. ASSUME NEW i \in DOMAIN log', log'[i].tag = "start", Oldest(log', i)
        PROVE  pid_to_pkg'[log'[i].pid] \in {None, log'[i].pkg}
    <3>1. CASE i \in 1..n
      <4>1. Oldest(log, i)
        BY <2>2, <2>3, <2>4, <3>1 DEF Oldest
      <4> QED
        BY <1>2, <1>3, <2>2, <2>4, <3>1, <4>1 DEF Fresh
    <3>2. CASE i = n + 1
      <4>1. ~About(l.pid, log)
        BY <2>2, <2>3, <2>4, <3>2 DEF Oldest, About
      <4>2. pid_to_pkg[l.pid] = proc[l.pid]
        BY <1>1, <1>3, <2>1, <4>1 DEF ForwardInv, ForwardExact
      <4> QED
        BY <1>2, <2>2, <2>4, <3>2, <4>2
    <3> QED
      BY <2>2, <3>1, <3>2
  <2>5. ASSUME NEW i \in DOMAIN log', log'[i].tag = "start", ~Latest(log', i)
        PROVE  \E m \in DOMAIN log' :
                 /\ i < m /\ log'[m].pid = log'[i].pid /\ log'[m].tag = "died"
                 /\ \A k \in DOMAIN log' : i < k /\ k < m => log'[k].pid # log'[i].pid
    <3>1. i \in 1..n
      <4>1. \A j \in 1..(n + 1) : ~(n + 1 < j)
        BY <2>2
      <4> QED
        BY <2>2, <2>5, <4>1 DEF Latest
    <3>2. log[i] = log'[i] /\ log[i].tag = "start"
      BY <2>2, <2>5, <3>1
    <3>3. CASE Latest(log, i)
      <4>1. l.pid = log[i].pid
        BY <2>2, <2>3, <2>5, <3>1, <3>3 DEF Latest
      <4>2. log[i].pkg = proc[l.pid] /\ log[i].pkg # None
        BY <1>1, <1>3, <2>2, <3>1, <3>2, <3>3, <4>1 DEF ForwardInv, Told
      <4>3. l.tag = "died"
        BY <1>1, <4>2
      <4>4. \A k \in DOMAIN log' : i < k /\ k < n + 1 => log'[k].pid # log'[i].pid
        BY <2>2, <3>1, <3>2, <3>3 DEF Latest
      <4>5. n + 1 \in DOMAIN log' /\ i < n + 1
        BY <2>2, <3>1
      <4> QED
        BY <2>2, <3>2, <4>1, <4>3, <4>4, <4>5
    <3>4. CASE ~Latest(log, i)
      <4>1. PICK m \in 1..n :
              /\ i < m /\ log[m].pid = log[i].pid /\ log[m].tag = "died"
              /\ \A k \in 1..n : i < k /\ k < m => log[k].pid # log[i].pid
        BY <1>3, <2>2, <3>1, <3>2, <3>4, SMTT(30) DEF Alternates
      <4>2. \A k \in 1..(n + 1) : k < m => k \in 1..n
        BY <2>2, <4>1
      <4> QED
        BY <2>2, <2>3, <3>2, <4>1, <4>2
    <3> QED
      BY <3>3, <3>4
  <2> QED
    BY <1>3, <1>4, <2>4, <2>5 DEF Fresh, Alternates
<1> QED
  BY <1>5, <1>6

LEMMA SeedSets ==
    ASSUME SystemTypeOK, ForwardInv, SetsInv, NEW q \in Pid, SeedEntry(q)
    PROVE  SetsInv'
<1>1. /\ q \in unseeded /\ pid_to_pkg[q] = None /\ log = <<>> /\ log' = <<>>
      /\ proc[q] \in Pkg \cup {None}
      /\ pid_to_pkg \in [Pid -> Pkg \cup {None}] /\ pkg_to_pids \in [Pkg -> SUBSET Pid]
  BY DEF SeedEntry, ForwardInv, SystemTypeOK, TypeOK
<1> SUFFICES ASSUME ~lossy'
             PROVE  unheard' = {} /\ Converse(pid_to_pkg', pkg_to_pids')
  BY <1>1, NothingAlternates DEF SetsInv
<1>2. ~lossy /\ unheard' = unheard
  <2>1. CASE UNCHANGED history
    BY <2>1 DEF history
  <2>2. CASE /\ unheard' = IF proc[q] = None THEN unheard ELSE unheard \cup {q}
             /\ lossy' = (lossy \/ proc[q] # None)
    BY <2>2, Zenon
  <2> QED
    BY <2>1, <2>2 DEF SeedEntry
<1>3. unheard' = {} /\ Converse(pid_to_pkg, pkg_to_pids)
  BY <1>2 DEF SetsInv
<1>4. CASE UNCHANGED tables
  BY <1>3, <1>4 DEF tables
<1>5. CASE /\ proc[q] # None
           /\ pid_to_pkg' = [pid_to_pkg EXCEPT ![q] = proc[q]]
           /\ pkg_to_pids' = [pkg_to_pids EXCEPT ![proc[q]] = @ \cup {q}]
  BY <1>1, <1>3, <1>5, NoneAssumption DEF Converse
<1> QED
  BY <1>3, <1>4, <1>5 DEF SeedEntry

LEMMA AttachSets ==
    ASSUME SystemTypeOK, ForwardInv, SetsInv, Attaches
    PROVE  SetsInv'
<1>1. /\ unseeded = {} /\ log = <<>> /\ lossy' = lossy
      /\ UNCHANGED <<pid_to_pkg, pkg_to_pids>>
  BY DEF Attaches, ForwardInv, vars, tables
<1> SUFFICES ASSUME ~lossy
             PROVE  unheard' = {} /\ Fresh(log', pid_to_pkg) /\ Alternates(log')
  BY <1>1 DEF SetsInv
<1>2. unheard = {} /\ unheard' = {}
  BY DEF Attaches, SetsInv
<1>3. CASE last = None
  BY <1>2, <1>3, NothingAlternates DEF Attaches
<1>4. CASE last # None
  <2>1. DOMAIN log' = {1} /\ log'[1] = last /\ last \in Line
    BY <1>4 DEF Attaches, SystemTypeOK
  <2>2. last.pkg = proc[last.pid] /\ last.pid \in Pid
    BY <1>4, <2>1, LineShape DEF ForwardInv
  <2>3. pid_to_pkg[last.pid] = proc[last.pid]
    BY <1>1, <1>2, <2>2, NothingTold DEF ForwardInv, ForwardExact
  <2>4. Fresh(log', pid_to_pkg)
    BY <2>1, <2>2, <2>3 DEF Fresh
  <2>5. Latest(log', 1)
    BY <2>1 DEF Latest
  <2> QED
    BY <1>2, <2>1, <2>4, <2>5 DEF Alternates
<1> QED
  BY <1>3, <1>4

LEMMA HearsSets ==
    ASSUME SystemTypeOK, ForwardInv, SetsInv, Hears
    PROVE  SetsInv'
<1> DEFINE l == Head(log)
           n == Len(log)
<1>1. /\ l \in Line /\ log' = Tail(log) /\ log # <<>>
      /\ UNCHANGED <<proc, last, unseeded, attached, unheard, lossy>>
      /\ l.tag = "start" => AfterStart(l.pid, l.pkg)
      /\ l.tag = "died" => AfterDeath(l.pid)
  BY HearsTables
<1>2. /\ l.pid \in Pid /\ l.pkg \in Pkg \cup {None} /\ l.tag \in {"start", "died"}
      /\ l.tag = "start" <=> l.pkg \in Pkg
  BY <1>1, LineShape
<1>3. /\ log \in Seq(Line) /\ pid_to_pkg \in [Pid -> Pkg \cup {None}]
      /\ pkg_to_pids \in [Pkg -> SUBSET Pid]
  BY DEF SystemTypeOK, TypeOK
<1>4. /\ n \in Nat \ {0} /\ DOMAIN log = 1..n /\ l = log[1]
      /\ DOMAIN log' = 1..(n - 1) /\ \A j \in 1..(n - 1) : log'[j] = log[j + 1]
      /\ \A j \in 1..n : log[j].pid \in Pid
  <2>1. n \in Nat \ {0} /\ DOMAIN log = 1..n
    BY <1>1, <1>3, EmptySeq, LenProperties
  <2>2. /\ log' \in Seq(Line) /\ Len(log') = n - 1
        /\ \A j \in 1..(n - 1) : log'[j] = log[j + 1]
    BY <1>1, <1>3, HeadTailProperties
  <2>3. DOMAIN log' = 1..(n - 1)
    BY <2>2, LenProperties
  <2> QED
    BY <1>3, <2>1, <2>2, <2>3, ElementOfSeq, LineShape
<1> HIDE DEF l, n
<1> SUFFICES ASSUME ~lossy
             PROVE  /\ Converse(pid_to_pkg', pkg_to_pids')
                    /\ Fresh(log', pid_to_pkg') /\ Alternates(log')
  BY <1>1 DEF SetsInv
<1>5. /\ Converse(pid_to_pkg, pkg_to_pids) /\ Fresh(log, pid_to_pkg) /\ Alternates(log)
  BY DEF SetsInv
<1>6. \A j \in 1..(n - 1) : j + 1 \in 1..n /\ 1 < j + 1
  BY <1>4
<1>7. \A j \in 1..n : j = 1 \/ (j - 1 \in 1..(n - 1) /\ j = j - 1 + 1)
  BY <1>4
<1>8. /\ 1 \in 1..n
      /\ l.tag = "start" => pid_to_pkg[l.pid] \in {None, l.pkg}
  <2>1. 1 \in 1..n /\ Oldest(log, 1)
    BY <1>4 DEF Oldest
  <2> QED
    BY <1>4, <1>5, <2>1 DEF Fresh
<1>9. Converse(pid_to_pkg', pkg_to_pids')
  <2>1. CASE l.tag = "start"
    <3>1. Converse([pid_to_pkg EXCEPT ![l.pid] = l.pkg],
                  [pkg_to_pids EXCEPT ![l.pkg] = @ \cup {l.pid}])
      BY <1>2, <1>3, <1>5, <1>8, <2>1, NoneAssumption DEF Converse
    <3> QED
      BY <1>1, <2>1, <3>1 DEF AfterStart, Settles
  <2>2. CASE l.tag = "died"
    <3>1. CASE pid_to_pkg[l.pid] = None
      BY <1>1, <1>2, <1>3, <1>5, <2>2, <3>1, NoneAssumption DEF AfterDeath, Converse
    <3>2. CASE pid_to_pkg[l.pid] # None
      BY <1>1, <1>2, <1>3, <1>5, <2>2, <3>2, NoneAssumption DEF AfterDeath, Converse
    <3> QED
      BY <3>1, <3>2
  <2> QED
    BY <1>2, <2>1, <2>2
<1>10. \A p \in Pid : p # l.pid => pid_to_pkg'[p] \in {None, pid_to_pkg[p]}
  BY <1>1, <1>2, <1>3 DEF AfterStart, AfterDeath, Settles
<1>11. Fresh(log', pid_to_pkg')
  <2> SUFFICES ASSUME NEW j \in 1..(n - 1), log'[j].tag = "start", Oldest(log', j)
               PROVE  pid_to_pkg'[log'[j].pid] \in {None, log'[j].pkg}
    BY <1>4 DEF Fresh
  <2>1. log'[j] = log[j + 1] /\ j + 1 \in 1..n
    BY <1>4, <1>6
  <2>2. \A i \in 1..n : 1 < i /\ i < j + 1 => log[i].pid # log[j + 1].pid
    <3> SUFFICES ASSUME NEW i \in 1..n, 1 < i, i < j + 1 PROVE log[i].pid # log[j + 1].pid
      OBVIOUS
    <3>1. i - 1 \in 1..(n - 1) /\ i - 1 < j /\ log'[i - 1] = log[i]
      BY <1>4, <1>7
    <3> QED
      BY <1>4, <2>1, <3>1 DEF Oldest
  <2>3. CASE log[j + 1].pid # l.pid
    <3>1. Oldest(log, j + 1)
      BY <1>4, <1>7, <2>1, <2>2, <2>3 DEF Oldest
    <3> QED
      BY <1>4, <1>5, <1>10, <2>1, <2>3, <3>1 DEF Fresh
  <2>4. CASE log[j + 1].pid = l.pid /\ l.tag = "died"
    BY <1>1, <1>2, <1>3, <2>1, <2>4 DEF AfterDeath
  <2>5. CASE log[j + 1].pid = l.pid /\ l.tag = "start"
    <3>1. ~Latest(log, 1)
      BY <1>4, <1>6, <2>1, <2>5 DEF Latest
    <3>2. PICK m \in 1..n :
            /\ 1 < m /\ log[m].pid = l.pid /\ log[m].tag = "died"
            /\ \A k \in 1..n : 1 < k /\ k < m => log[k].pid # l.pid
      <4>1. log[1].tag = "start" /\ log[1].pid = l.pid /\ 1 \in DOMAIN log
        BY <1>4, <1>8, <2>5
      <4>2. \E m \in DOMAIN log :
              /\ 1 < m /\ log[m].pid = log[1].pid /\ log[m].tag = "died"
              /\ \A k \in DOMAIN log : 1 < k /\ k < m => log[k].pid # log[1].pid
        BY <1>5, <3>1, <4>1 DEF Alternates
      <4> QED
        BY <1>4, <4>1, <4>2
    <3>3. ~(j + 1 < m) /\ ~(m < j + 1) /\ m # j + 1
      BY <1>4, <1>6, <2>1, <2>2, <2>5, <3>2
    <3> QED
      BY <1>4, <3>3
  <2> QED
    BY <1>2, <2>3, <2>4, <2>5
<1>12. Alternates(log')
  <2> SUFFICES ASSUME NEW j \in 1..(n - 1), log'[j].tag = "start", ~Latest(log', j)
               PROVE  \E m \in 1..(n - 1) :
                        /\ j < m /\ log'[m].pid = log'[j].pid /\ log'[m].tag = "died"
                        /\ \A k \in 1..(n - 1) : j < k /\ k < m => log'[k].pid # log'[j].pid
    BY <1>4, SMTT(30) DEF Alternates
  <2>1. log'[j] = log[j + 1] /\ j + 1 \in 1..n
    BY <1>4, <1>6
  <2>2. ~Latest(log, j + 1)
    <3>1. PICK i \in 1..(n - 1) : j < i /\ log'[i].pid = log'[j].pid
      BY <1>4 DEF Latest
    <3>2. i + 1 \in 1..n /\ j + 1 < i + 1 /\ log[i + 1].pid = log[j + 1].pid
      BY <1>4, <1>6, <2>1, <3>1
    <3> QED
      BY <1>4, <3>2 DEF Latest
  <2>3. PICK m \in 1..n :
          /\ j + 1 < m /\ log[m].pid = log[j + 1].pid /\ log[m].tag = "died"
          /\ \A k \in 1..n : j + 1 < k /\ k < m => log[k].pid # log[j + 1].pid
    BY <1>4, <1>5, <2>1, <2>2, ZenonT(30) DEF Alternates
  <2>4. m - 1 \in 1..(n - 1) /\ j < m - 1 /\ log'[m - 1] = log[m]
    BY <1>4, <2>1, <2>3
  <2>5. ASSUME NEW k \in 1..(n - 1), j < k, k < m - 1
        PROVE  log'[k].pid # log'[j].pid
    <3>1. k + 1 \in 1..n /\ j + 1 < k + 1 /\ k + 1 < m /\ log'[k] = log[k + 1]
      BY <1>4, <1>6, <2>3, <2>5
    <3> QED
      BY <2>1, <2>3, <3>1
  <2> QED
    BY <2>1, <2>3, <2>4, <2>5
<1> QED
  BY <1>9, <1>11, <1>12

LEMMA HearsOtherSets ==
    ASSUME SystemTypeOK, SetsInv, HearsOther
    PROVE  SetsInv'
<1>1. /\ UNCHANGED <<log, unheard, lossy>>
      /\ Settles(pid_to_pkg, pkg_to_pids)
  BY HearsOtherTables
<1>2. \A i \in DOMAIN log : log[i].pid \in Pid
  BY LenProperties, ElementOfSeq, LineShape DEF SystemTypeOK
<1>3. Fresh(log, pid_to_pkg) => Fresh(log, pid_to_pkg')
  BY <1>1, <1>2 DEF Fresh, Settles
<1> QED
  BY <1>1, <1>3 DEF SetsInv, Settles

LEMMA DeviceSets ==
    ASSUME SystemTypeOK, ForwardInv, SetsInv, Device
    PROVE  SetsInv'
<1>1. CASE Forks \/ Exits
  BY <1>1, HappensLine, HappensSets
<1>2. CASE LogsOther
  BY <1>2 DEF LogsOther, SetsInv, vars, tables, history
<1>3. CASE Loses
  BY <1>3 DEF Loses, SetsInv
<1> QED
  BY <1>1, <1>2, <1>3 DEF Device

\* As long as no line is lost, the daemon's process table is the kernel's
\* whenever nothing is on its way.
THEOREM SetsExactCorrect == SystemSpec => []SetsExact
<1> DEFINE Inv == ForwardInv /\ SetsInv
<1>1. SystemInit => Inv
  <2> SUFFICES ASSUME SystemInit PROVE Inv
    OBVIOUS
  <2>1. ForwardInv
    BY SystemInitForward
  <2>2. Converse(pid_to_pkg, pkg_to_pids)
    BY NoneAssumption DEF SystemInit, Converse
  <2> QED
    BY <2>1, <2>2, NothingAlternates DEF SystemInit, SetsInv
<1>2. SystemTypeOK /\ Inv /\ [SystemNext]_svars => Inv'
  <2> SUFFICES ASSUME SystemTypeOK, ForwardInv, SetsInv, [SystemNext]_svars PROVE Inv'
    OBVIOUS
  <2>1. ForwardInv'
    BY ForwardStep
  <2>2. CASE UNCHANGED svars
    BY <2>1, <2>2 DEF svars, vars, history, tables, SetsInv
  <2>3. CASE SystemNext
    BY <2>1, <2>3, DeviceSets, SeedSets, AttachSets, HearsSets, HearsOtherSets
       DEF SystemNext, TheDaemon
  <2> QED
    BY <2>1, <2>2, <2>3
<1>3. SystemTypeOK /\ Inv => SetsExact
  <2> SUFFICES ASSUME SystemTypeOK, ForwardInv, SetsInv, attached, ~lossy, log = <<>>, NEW k \in Pkg
               PROVE  pkg_to_pids[k] = {p \in Pid : proc[p] = k}
    BY DEF SetsExact
  <2>1. \A p \in Pid : pid_to_pkg[p] = proc[p]
    BY NothingTold DEF ForwardInv, ForwardExact, SetsInv, SystemTypeOK
  <2>2. pkg_to_pids[k] \subseteq Pid
    BY DEF SystemTypeOK, TypeOK
  <2> QED
    BY <2>1, <2>2 DEF SetsInv, Converse
<1> QED
  BY <1>1, <1>2, <1>3, SystemTypeCorrect, PTL DEF SystemSpec
=============================================================================
