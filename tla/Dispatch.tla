------------------------------ MODULE Dispatch ------------------------------
(***************************************************************************)
(* One dispatch of the pipeline (kill.rs: the oom_score_adj gate of        *)
(* evaluate_reaping_pipeline, then dispatch_candidate) against a process   *)
(* table that does not stand still.  The daemon looks at one pid of the    *)
(* candidate at a time; between any two looks, and between a look and a    *)
(* signal, processes change their priority, exit, and their pids are       *)
(* reused by processes of any package.                                     *)
(*                                                                         *)
(* Module Kill holds what the dispatch writes to the tables; this module   *)
(* what it does to processes.                                              *)
(***************************************************************************)
EXTENDS Integers, Sequences, Spawner

CONSTANTS
    Pid,            \* process ids
    Pkg,            \* packages
    AppPkg,         \* those whose processes have an application's uid
    Candidate,      \* the package being dispatched
    Excluded,       \* the packages exclude.list names
    PidLists,       \* the pids a scan may have found, in the order it did
    Tables,         \* the descriptors the daemon may hold
    None            \* no process

ASSUME DispatchAssumption ==
    /\ AppPkg \subseteq Pkg
    /\ Candidate \in Pkg \ Excluded
    /\ \A s \in PidLists :
         /\ s \in Seq(Pid) /\ Len(s) > 0
         /\ \A i, j \in DOMAIN s : s[i] = s[j] => i = j
    /\ Tables \subseteq Inherited
    /\ None \notin [pkg : Pkg, adj : 0..2]

\* oom_score_adj, in the three bands the code tells apart: below 500, from
\* 500 to 899, and cached (SIGKILL_MIN_ADJ and above).
Foreground == 0
Service == 1
Cached == 2
Adj == {Foreground, Service, Cached}

Process == [pkg : Pkg, adj : Adj]

VARIABLES
    act_mode, is_root,
    min_oom_score_adj,  \* the least band it admits: 500 or 900
    live_pids,          \* of the candidate, as the scan found them
    proc,               \* the process table
    pc,                 \* where in the dispatch the daemon is
    next,               \* the position in live_pids its loop has reached
    oom_adj,            \* the minimum read so far by the gate
    method, spawn_errno,    \* the record, once there is one
    children,           \* the children the spawner counts (reaps_pending)
    child,              \* the last of them, or NoChild
    alive,              \* whether alive_apps holds the candidate
    signalled,          \* history: the process that received SIGKILL at a pid
    gone,               \* history: pids whose scanned process has ended
    touched             \* history: pids at which something has happened

mode == <<act_mode, is_root, min_oom_score_adj, live_pids>>
record == <<method, spawn_errno, children, child, alive>>
history == <<signalled, gone, touched>>
vars == <<mode, proc, pc, next, oom_adj, record, history>>

\* Types.  The loops never run past the pids of the candidate and a dispatch
\* forks at most one child.
TypeOK ==
    /\ act_mode \in BOOLEAN
    /\ is_root \in BOOLEAN
    /\ min_oom_score_adj \in {Service, Cached}
    /\ live_pids \in PidLists
    /\ proc \in [Pid -> Process \cup {None}]
    /\ pc \in {"gate", "decide", "uid", "adj", "signal", "spawn", "done"}
    /\ next \in DOMAIN live_pids
    /\ oom_adj \in Adj
    /\ method \in {"none", "sigkill", "ams"}
    /\ spawn_errno \in {"null", "0", "errno", "NOT_DISPATCHED"}
    /\ children \in 0..1
    /\ child.at \in {"none", "running", "exited"}
    /\ alive \in BOOLEAN
    /\ signalled \in [Pid -> Process \cup {None}]
    /\ gone \subseteq Pid
    /\ touched \subseteq Pid

\* The scan has found every one of live_pids with a resident set.  A pid
\* whose death and reuse the log has not shown yet may already belong to
\* another package.
Init ==
    /\ act_mode \in BOOLEAN
    /\ is_root \in BOOLEAN
    /\ min_oom_score_adj \in {Service, Cached}
    /\ live_pids \in PidLists
    /\ proc \in [Pid -> Process \cup {None}]
    /\ \A i \in DOMAIN live_pids : proc[live_pids[i]] # None
    /\ pc = "gate"
    /\ next = 1
    /\ oom_adj = Cached
    /\ method = "none"
    /\ spawn_errno = "null"
    /\ children = 0
    /\ child = NoChild
    /\ alive = TRUE
    /\ signalled = [p \in Pid |-> None]
    /\ gone = {}
    /\ touched = {}

-----------------------------------------------------------------------------
\* Mutant: the loop goes once more round.
OneTooMany(loop, after) ==
    IF next > Len(live_pids)
    THEN pc' = after /\ next' = 1
    ELSE pc' = loop /\ next' = next + 1

\* The next round of a loop over live_pids, or what comes after it.
Advance(loop, after) ==
    IF next = Len(live_pids)
    THEN pc' = after /\ next' = 1
    ELSE pc' = loop /\ next' = next + 1

\* What a read of one pid's oom_score_adj contributes to the gate; one that
\* cannot be read counts as the foreground's.
read_oom_score_adj(p) == IF proc[p] = None THEN Foreground ELSE proc[p].adj

ReadAdj ==
    /\ pc = "gate"
    /\ oom_adj' = IF read_oom_score_adj(live_pids[next]) < oom_adj
                  THEN read_oom_score_adj(live_pids[next])
                  ELSE oom_adj
    /\ Advance("gate", "decide")
    /\ UNCHANGED <<mode, proc, record, history>>

ams_protected == oom_adj < min_oom_score_adj

kill_method ==
    IF is_root /\ ~ams_protected /\ oom_adj >= Cached THEN "sigkill" ELSE "ams"

\* The record of the dispatch, and what it leaves of the idle anchor.
Recorded(m, errno) ==
    /\ method' = m
    /\ spawn_errno' = errno
    /\ alive' = ams_protected
    /\ pc' = "done"

\* Nothing is done in observe mode or to a protected package; the others
\* are signalled or left to AMS.
Decide ==
    /\ pc = "decide"
    /\ \/ /\ ~act_mode
          /\ Recorded(kill_method, "null")
       \/ /\ act_mode /\ ams_protected
          /\ Recorded(kill_method, "NOT_DISPATCHED")
       \/ /\ act_mode /\ ~ams_protected
          /\ pc' = IF kill_method = "sigkill" THEN "uid" ELSE "spawn"
          /\ UNCHANGED <<method, spawn_errno, alive>>
    /\ UNCHANGED <<mode, proc, next, oom_adj, children, child, history>>

\* Revalidation of one pid: its uid must be an application's.
CheckUid ==
    /\ pc = "uid"
    /\ IF proc[live_pids[next]] # None /\ proc[live_pids[next]].pkg \in AppPkg
       THEN pc' = "adj" /\ next' = next
       ELSE pc' = "spawn" /\ next' = 1
    /\ UNCHANGED <<mode, proc, oom_adj, record, history>>

\* Mutant: each pid is signalled as soon as it has been revalidated.
SignalledOneByOne ==
    /\ pc = "adj"
    /\ LET p == live_pids[next]
       IN  IF proc[p] # None /\ proc[p].adj >= Cached
           THEN /\ signalled' = [signalled EXCEPT ![p] = proc[p]]
                /\ proc' = [proc EXCEPT ![p] = None]
                /\ gone' = gone \cup {p}
                /\ Advance("uid", "signal")
           ELSE /\ pc' = "spawn" /\ next' = 1
                /\ UNCHANGED <<proc, signalled, gone>>
    /\ UNCHANGED <<mode, oom_adj, record, touched>>

\* Then its oom_score_adj must be that of a cached process.  All pids are
\* revalidated before the first is signalled.
CheckAdj ==
    /\ pc = "adj"
    /\ IF proc[live_pids[next]] # None /\ proc[live_pids[next]].adj >= Cached
       THEN Advance("uid", "signal")
       ELSE pc' = "spawn" /\ next' = 1
    /\ UNCHANGED <<mode, proc, oom_adj, record, history>>

\* What follows a signal the kernel delivered, or one that found no process.
Struck ==
    IF next = Len(live_pids)
    THEN Recorded("sigkill", "0") /\ next' = 1
    ELSE next' = next + 1 /\ UNCHANGED <<pc, method, spawn_errno, alive>>

Delivered ==
    LET p == live_pids[next]
    IN  /\ pc = "signal"
        /\ proc[p] # None
        /\ signalled' = [signalled EXCEPT ![p] = proc[p]]
        /\ proc' = [proc EXCEPT ![p] = None]
        /\ gone' = gone \cup {p}
        /\ Struck
        /\ UNCHANGED <<mode, oom_adj, children, child, touched>>

\* ESRCH: the process has exited in the gap.
Vanished ==
    /\ pc = "signal"
    /\ proc[live_pids[next]] = None
    /\ Struck
    /\ UNCHANGED <<mode, proc, oom_adj, children, child, history>>

\* Mutant: a refused signal counts as a delivered one.
RefusedIgnored ==
    /\ pc = "signal"
    /\ proc[live_pids[next]] # None
    /\ Struck
    /\ UNCHANGED <<mode, proc, oom_adj, children, child, history>>

\* EPERM: a confined root may not signal this process.  AMS is asked for the
\* whole package, including what has been signalled already.
Refused ==
    /\ pc = "signal"
    /\ proc[live_pids[next]] # None
    /\ pc' = "spawn"
    /\ next' = 1
    /\ UNCHANGED <<mode, proc, oom_adj, record, history>>

\* `cmd activity kill`, by the spawner the daemon set up when it started.
spawn_kill ==
    /\ pc = "spawn"
    /\ \E requested \in {"std", "fork"}, table \in Tables, has_nul \in BOOLEAN :
         \E spawner \in Spawner_new(parse(requested), table) :
           \E r \in spawn_path(spawner, has_nul) :
             /\ child' = r.child
             /\ children' = IF r.errno = "0" THEN children + 1 ELSE children
             /\ Recorded("ams", r.errno)
    /\ UNCHANGED <<mode, proc, next, oom_adj, history>>

dispatch_candidate ==
    \/ ReadAdj
    \/ Decide
    \/ CheckUid
    \/ CheckAdj
    \/ Delivered
    \/ Vanished
    \/ Refused
    \/ spawn_kill

-----------------------------------------------------------------------------
\* The other processes of the device, for as long as the dispatch lasts.
Exits(p) ==
    /\ proc[p] # None
    /\ proc' = [proc EXCEPT ![p] = None]
    /\ gone' = gone \cup {p}

Starts(p) ==
    /\ proc[p] = None
    /\ \E new \in Process : proc' = [proc EXCEPT ![p] = new]
    /\ gone' = gone

Reprioritised(p) ==
    /\ proc[p] # None
    /\ \E a \in Adj \ {proc[p].adj} : proc' = [proc EXCEPT ![p].adj = a]
    /\ gone' = gone

Device ==
    /\ pc # "done"
    /\ \E p \in Pid :
         /\ Exits(p) \/ Starts(p) \/ Reprioritised(p)
         /\ touched' = touched \cup {p}
    /\ UNCHANGED <<mode, pc, next, oom_adj, record, signalled>>

Next == dispatch_candidate \/ Device

Spec == Init /\ [][Next]_vars

-----------------------------------------------------------------------------
LivePids == {live_pids[i] : i \in DOMAIN live_pids}

\* A process the root fast path may signal: cached, of an application.
Signallable(p) == proc[p] # None /\ proc[p].pkg \in AppPkg /\ proc[p].adj = Cached

\* No process is signalled behind the framework's back: where nothing
\* happened since the scan, only a cached process of an application is
\* signalled, and one live process that is not spares the whole package.
\* Only a daemon that acts, as root, signals at all (kill.rs dispatch_candidate).
JustifiedSignals ==
    \A p \in Pid : signalled[p] # None =>
        /\ act_mode /\ is_root
        /\ p \in LivePids
        /\ p \notin touched =>
             signalled[p].adj = Cached /\ signalled[p].pkg \in AppPkg
        /\ \A q \in LivePids \ touched :
             signalled[q] = None => Signallable(q)

\* The record of a dispatch tells what has been done: SIGKILL with errno 0
\* leaves no process the scan found and forks no child, AMS with errno 0 has
\* forked one, and a dispatch recorded as skipped did nothing.  A package is
\* untracked, hence not looked at again, only when its processes are gone or
\* AMS was turned to (kill.rs dispatch_candidate, KillRecord).
RecordTells ==
    pc = "done" =>
        /\ spawn_errno \in {"null", "NOT_DISPATCHED"} =>
             children = 0 /\ \A p \in Pid : signalled[p] = None
        /\ method = "sigkill" /\ spawn_errno = "0" =>
             children = 0 /\ LivePids \subseteq gone
        /\ method = "ams" /\ spawn_errno = "0" => children = 1 /\ child.at # "none"
        /\ act_mode /\ ~alive => LivePids \subseteq gone \/ method = "ams"

\* A child that runs has /dev/null for its standard streams and none of the
\* daemon's files; a forked one has nothing of the launcher's either, short
\* of the limit of the walk, whatever the kernel makes of syscall 436 and
\* whatever descriptors the daemon was started with (spawn.rs
\* close_inherited; "closes every descriptor above stdio",
\* docs/ARCHITECTURE.md section 1.5).
ChildIsolated ==
    child.at = "running" =>
        /\ \A fd \in Stdio : child.fds[fd].file = "null"
        /\ \A fd \in Fd \ Stdio : child.fds[fd].file \in {"none", "launcher"}
        /\ child.by = "fork" =>
             \A fd \in Fd \ Stdio :
                 fd < WalkCap /\ fd < HardLimit => child.fds[fd].file = "none"

\* README.md:169: the packages of exclude.list are "shielded from termination
\* under all conditions" (kill.rs dispatch_candidate).
ExcludedNeverSignalled ==
    \A p \in Pid : signalled[p] # None => signalled[p].pkg \notin Excluded
=============================================================================
