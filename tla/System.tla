------------------------------- MODULE System -------------------------------
(***************************************************************************)
(* The daemon and the device it watches: the process table of the kernel,  *)
(* the event log the framework writes about it, and the stream through     *)
(* which the daemon hears of it.  Module Daemon takes any line at any      *)
(* time; here a start or a death is logged because it happened, waits in   *)
(* the stream, and may never arrive: logd drops lines of a full buffer,    *)
(* and what happens between the daemon's look at a pid in /proc and the    *)
(* attachment of `logcat -T 1` is lost, except for the last line.          *)
(*                                                                         *)
(* The daemon keeps nothing on disk, so a restart is a behaviour that      *)
(* begins here: SystemInit admits every process table and last line.       *)
(***************************************************************************)
EXTENDS Daemon

CONSTANTS
    Apps,       \* the packages whose uid is an application's
    MaxLog      \* bound: the lines waiting in the stream

ASSUME SystemAssumption == Apps \subseteq Pkg /\ MaxLog \in Nat \ {0}

VARIABLES
    proc,       \* the kernel: pid -> the package it runs
    last,       \* before the attachment: the event log's last line, if it
                \* is about a process
    log,        \* the lines in the stream, oldest first
    unseeded,   \* the entries of /proc the daemon has not looked at yet
    attached,   \* logcat runs
    unheard,    \* history: pids whose last start or death will not be heard of
    lossy       \* history: some start or death has not been or will not be

history == <<unheard, lossy>>
svars == <<vars, proc, last, log, unseeded, attached, history>>

Started(pid, pkg) == [tag |-> "start", pid |-> pid, pkg |-> pkg]

Died(pid) == [tag |-> "died", pid |-> pid, pkg |-> None]

Line == {Started(pid, pkg) : pid \in Pid, pkg \in Pkg} \cup {Died(pid) : pid \in Pid}

UidOf(pkg) == IF pkg \in Apps THEN "app" ELSE "system"

About(pid, lines) == \E i \in DOMAIN lines : lines[i].pid = pid

SystemInit ==
    /\ new
    /\ pid_to_pkg = [p \in Pid |-> None]
    /\ pkg_to_pids = [k \in Pkg |-> {}]
    /\ pkg_to_uid = [k \in Pkg |-> None]
    /\ proc \in [Pid -> Pkg \cup {None}]
    /\ last \in {l \in Line : proc[l.pid] = l.pkg} \cup {None}
    /\ log = <<>>
    /\ unseeded = Pid
    /\ attached = FALSE
    /\ unheard = {}
    /\ lossy = FALSE

-----------------------------------------------------------------------------
(* The device.                                                             *)

\* A process starts or exits, and the framework logs it: nobody reads the
\* line before the attachment.
Happens(line) ==
    /\ proc' = [proc EXCEPT ![line.pid] = line.pkg]
    /\ IF attached
       THEN /\ Len(log) < MaxLog
            /\ log' = Append(log, line)
            /\ unheard' = unheard \ {line.pid}
            /\ UNCHANGED <<last, lossy>>
       ELSE /\ last' = line
            /\ unheard' = IF line.pid \in unseeded THEN unheard ELSE unheard \cup {line.pid}
            /\ lossy' = (lossy \/ line.pid \notin unseeded)
            /\ UNCHANGED log
    /\ UNCHANGED <<vars, unseeded, attached>>

Forks == \E p \in Pid, k \in Pkg : proc[p] = None /\ Happens(Started(p, k))

Exits == \E p \in Pid : proc[p] # None /\ Happens(Died(p))

\* Before the attachment, a line about something else becomes the last.
LogsOther ==
    /\ ~attached /\ last # None
    /\ last' = None
    /\ UNCHANGED <<vars, proc, log, unseeded, attached, history>>

\* logd drops a line that logcat has not read yet.
Loses ==
    \E i \in DOMAIN log :
        LET rest == SubSeq(log, i + 1, Len(log))
        IN  /\ log' = SubSeq(log, 1, i - 1) \o rest
            /\ unheard' = IF About(log[i].pid, rest) THEN unheard
                          ELSE unheard \cup {log[i].pid}
            /\ lossy' = TRUE
            /\ UNCHANGED <<vars, proc, last, unseeded, attached>>

Device == Forks \/ Exits \/ LogsOther \/ Loses

-----------------------------------------------------------------------------
(* The daemon.                                                             *)

\* One entry of /proc.  A process whose cmdline is unreadable, or does not
\* yet name a package, is passed over.
SeedEntry(p) ==
    /\ p \in unseeded
    /\ unseeded' = unseeded \ {p}
    /\ \/ /\ proc[p] # None
          /\ pid_to_pkg' = [pid_to_pkg EXCEPT ![p] = proc[p]]
          /\ pkg_to_pids' = [pkg_to_pids EXCEPT ![proc[p]] = @ \cup {p}]
          /\ pkg_to_uid' = [pkg_to_uid EXCEPT ![proc[p]] = UidOf(proc[p])]
          /\ UNCHANGED history
       \/ /\ unheard' = IF proc[p] = None THEN unheard ELSE unheard \cup {p}
          /\ lossy' = (lossy \/ proc[p] # None)
          /\ UNCHANGED <<tables, pkg_to_uid>>
    /\ UNCHANGED <<lists, alive_apps, recent_deaths, fg_lru, current_fg, screen,
                   game, session_start, bg_pending, last_event_epoch, pass,
                   proc, last, log, attached>>

\* Mutant: logcat is spawned before the scan of /proc is over.
AttachesEarly ==
    /\ ~attached
    /\ attached' = TRUE
    /\ log' = IF last = None THEN <<>> ELSE <<last>>
    /\ last' = None
    /\ unheard' = IF last = None THEN unheard ELSE unheard \ {last.pid}
    /\ UNCHANGED <<vars, proc, unseeded, lossy>>

\* spawn_logcat_stream: `-T 1` replays the last line.
Attaches ==
    /\ unseeded = {} /\ ~attached
    /\ attached' = TRUE
    /\ log' = IF last = None THEN <<>> ELSE <<last>>
    /\ last' = None
    /\ unheard' = IF last = None THEN unheard ELSE unheard \ {last.pid}
    /\ UNCHANGED <<vars, proc, unseeded, lossy>>

\* The pass of a handler, over the pid sets it was given, purges only pids
\* that are gone and takes only candidates with a live pid.  (Which of the
\* pids that are gone it finds is open: they may have exited behind it.)
SeesTheKernel(pids_of) ==
    /\ \A k \in Pkg : \A p \in pids_of[k] \ pkg_to_pids'[k] : proc[p] = None
    /\ \A r \in pass' : \E p \in pkg_to_pids'[r.pkg] : proc[p] # None

\* The next line about a process.
Hears ==
    /\ log # <<>>
    /\ log' = Tail(log)
    /\ \E now \in Epoch :
         LET line == Head(log)
         IN  IF line.tag = "start"
             THEN /\ \E top \in BOOLEAN :
                       on_proc_start(now, line.pid, UidOf(line.pkg), line.pkg, top)
                  /\ SeesTheKernel([pkg_to_pids EXCEPT ![line.pkg] = @ \cup {line.pid}])
             ELSE on_proc_died(now, line.pid)
    /\ UNCHANGED <<proc, last, unseeded, attached, history>>

\* A line about anything else, or a reload: where it stands among the lines
\* about processes is when it is handled.
HearsOther ==
    /\ attached
    /\ \/ /\ \E now \in Epoch :
               \/ \E pkg \in Pkg : on_resume_activity(now, pkg)
               \/ \E on \in BOOLEAN : on_screen_toggled(now, on)
               \/ on_device_idle_light_step(now)
          /\ SeesTheKernel(pkg_to_pids)
       \/ reload_configs
    /\ UNCHANGED <<proc, last, log, unseeded, attached, history>>

TheDaemon == (\E p \in Pid : SeedEntry(p)) \/ Attaches \/ Hears \/ HearsOther

SystemNext == Device \/ TheDaemon

SystemSpec == SystemInit /\ [][SystemNext]_svars

-----------------------------------------------------------------------------

\* The stream is read only when the scan of /proc is over (DaemonState::new),
\* and what it holds are lines about processes.
SystemTypeOK ==
    /\ TypeOK
    /\ proc \in [Pid -> Pkg \cup {None}]
    /\ last \in Line \cup {None}
    /\ log \in Seq(Line) /\ Len(log) <= MaxLog
    /\ unseeded \subseteq Pid
    /\ attached => unseeded = {}
    /\ unheard \subseteq Pid

\* However many lines are lost, a pid the daemon has had the chance to hear
\* about runs what the daemon believes: one lost line misleads it about one
\* pid, until the next line about that pid.  The scan of /proc, the replay
\* of the last line and the purges of the passes never spoil this.
ForwardExact ==
    \A p \in Pid \ (unseeded \cup unheard) :
        ~About(p, log) => pid_to_pkg[p] = proc[p]

\* As long as no line has been lost, the pid sets are those of the kernel
\* whenever the stream is empty: a pass that purges a process before its
\* am_proc_died arrives leaves nothing behind.
SetsExact ==
    attached /\ ~lossy /\ log = <<>> =>
        \A k \in Pkg : pkg_to_pids[k] = {p \in Pid : proc[p] = k}
=============================================================================
