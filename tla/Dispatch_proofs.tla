-------------------------- MODULE Dispatch_proofs --------------------------
(***************************************************************************)
(* Proofs about modules Spawner and Dispatch, for any descriptor table and *)
(* any number of pids and packages: what a launch leaves, then what a      *)
(* dispatch does with it.                                                  *)
(***************************************************************************)
EXTENDS Dispatch, TLAPS

-----------------------------------------------------------------------------
(* Launches.                                                               *)

\* A launch reports 0 exactly when there is a child.
LEMMA LaunchCases ==
    ASSUME NEW spawner, NEW has_nul, NEW r \in spawn_path(spawner, has_nul)
    PROVE  \/ r.errno = "0" /\ r.child.at \in {"running", "exited"}
           \/ r.errno = "errno" /\ r.child.at = "none"
  BY DEF spawn_path, spawn_std, spawn_fork, NotLaunched, Launched, NoChild, Running, Exited

-----------------------------------------------------------------------------
(* The child's descriptors.                                                *)

\* What execve leaves of a table whose own files are close-on-exec.
Isolated(c) ==
    c.at = "running" =>
        /\ \A fd \in Stdio : c.fds[fd].file = "null"
        /\ \A fd \in Fd \ Stdio : c.fds[fd].file \in {"none", "launcher"}
        /\ c.by = "fork" =>
             \A fd \in Fd \ Stdio :
                 fd < WalkCap /\ fd < HardLimit => c.fds[fd].file = "none"

\* The cached /dev/null never is one of the standard streams, and is marked.
LEMMA SpawnerStarts ==
    ASSUME NEW requested \in {"std", "fork"}, NEW table \in Inherited,
           NEW spawner \in Spawner_new(requested, table)
    PROVE  /\ spawner.backend \in {"std", "fork"}
           /\ spawner.table \in Inherited
           /\ spawner.devnull \in Int
           /\ spawner.devnull >= 0 =>
                spawner.devnull \in Fd \ Stdio /\ spawner.table[spawner.devnull].file = "null"
<1>. DEFINE free == {fd \in Fd : table[fd].file = "none"}
            lowest == {fd \in free : \A other \in free : fd <= other}
            opened(fd) == [table EXCEPT ![fd] = [file |-> "null", cloexec |-> TRUE]]
<1>1. \/ \E fd \in lowest :
            spawner = [backend |-> requested, devnull |-> fd, table |-> opened(fd)]
      \/ spawner = [backend |-> "std", devnull |-> -1, table |-> table]
  BY Zenon DEF Spawner_new
<1>2. ASSUME NEW fd \in lowest,
             spawner = [backend |-> requested, devnull |-> fd, table |-> opened(fd)]
      PROVE  /\ spawner.backend \in {"std", "fork"}
             /\ spawner.table \in Inherited
             /\ spawner.devnull \in Fd \ Stdio
             /\ spawner.table[spawner.devnull].file = "null"
  <2>1. fd \in Fd \ Stdio
    BY DEF Inherited
  <2>2. opened(fd) \in Table
    BY <2>1 DEF Inherited, Table
  <2>3. /\ \A n \in Stdio : opened(fd)[n] = table[n]
        /\ opened(fd)[fd].cloexec /\ opened(fd)[fd].file = "null"
        /\ \A n \in Fd \ {fd} : opened(fd)[n] = table[n]
    <3>1. Stdio \subseteq Fd
      BY SpawnerAssumption DEF Stdio, Fd
    <3>. QED BY <2>1, <3>1 DEF Inherited, Table
  <2>4. opened(fd) \in Inherited
    BY <2>1, <2>2, <2>3 DEF Inherited
  <2>. QED BY <1>2, <2>1, <2>3, <2>4
<1>3. CASE spawner = [backend |-> "std", devnull |-> -1, table |-> table]
  BY <1>3
<1>4. \A fd \in Fd : fd \in Int
  BY SpawnerAssumption DEF Fd
<1>. QED BY <1>1, <1>2, <1>3, <1>4

\* A sweep closes what lies above the standard streams and below its limit.
LEMMA SweptAt ==
    ASSUME NEW table \in Table, NEW n \in Nat
    PROVE  /\ Swept(table, n) \in Table
           /\ \A fd \in Fd :
                Swept(table, n)[fd] = IF fd \notin Stdio /\ fd < n THEN Closed ELSE table[fd]
  BY DEF Swept, Table, Closed

\* A descriptor is left as it was or closed, a standard stream is left.
Cleaned(table, fd, entry) ==
    /\ entry = table[fd] \/ entry = Closed
    /\ fd \in Stdio => entry = table[fd]

\* A descriptor in the walk's reach is closed.
Reached(fd, entry) ==
    fd \notin Stdio /\ fd < WalkCap /\ fd < HardLimit => entry = Closed

\* The sweep cleans every descriptor, whatever the kernel did.
LEMMA SweepReaches ==
    ASSUME NEW table \in Table, NEW probe \in Fd, NEW kernel \in Kernel,
           NEW fd \in Fd, table[probe].file # "none"
    PROVE  /\ Cleaned(table, fd, close_inherited(table, probe, kernel)[fd])
           /\ Reached(fd, close_inherited(table, probe, kernel)[fd])
<1>. DEFINE all == Swept(table, MaxFd + 1)
            limit == IF HardLimit < WalkCap THEN HardLimit ELSE WalkCap
<1>1. /\ MaxFd + 1 \in Nat /\ limit \in Nat /\ fd \in Nat /\ fd < MaxFd + 1
      /\ fd < WalkCap /\ fd < HardLimit => fd < limit
  BY SpawnerAssumption DEF Fd
<1>2. /\ all \in Table
      /\ all[fd] = IF fd \notin Stdio THEN Closed ELSE table[fd]
  <2>1. /\ all \in Table
        /\ all[fd] = IF fd \notin Stdio /\ fd < MaxFd + 1 THEN Closed ELSE table[fd]
    BY <1>1, SweptAt
  <2>. QED BY <1>1, <2>1
<1>3. Swept(table, limit)[fd] = IF fd \notin Stdio /\ fd < limit THEN Closed ELSE table[fd]
  BY <1>1, SweptAt
<1>. HIDE DEF all, limit
<1>4. Swept(all, limit)[fd] = IF fd \notin Stdio /\ fd < limit THEN Closed ELSE all[fd]
  <2>1. all \in Table /\ limit \in Nat
    BY <1>1, <1>2
  <2>. QED BY <2>1, SweptAt
<1>5. \/ kernel = "close_range" /\ close_inherited(table, probe, kernel) = all
      \/ close_inherited(table, probe, kernel) = Swept(all, limit)
      \/ close_inherited(table, probe, kernel) = Swept(table, limit)
  BY Zenon DEF close_inherited, Kernel, all, limit
<1>6. CASE close_inherited(table, probe, kernel) = all
  BY <1>2, <1>6 DEF Cleaned, Reached
<1>7. CASE close_inherited(table, probe, kernel) = Swept(all, limit)
  BY <1>1, <1>2, <1>4, <1>7 DEF Cleaned, Reached
<1>8. CASE close_inherited(table, probe, kernel) = Swept(table, limit)
  BY <1>1, <1>3, <1>8 DEF Cleaned, Reached
<1>. QED BY <1>5, <1>6, <1>7, <1>8

\* What execve leaves of a table whose own files are close-on-exec.
LEMMA ExecIsolates ==
    ASSUME NEW table \in Inherited, NEW fd \in Fd,
           NEW entry, Cleaned(Redirected(table), fd, entry)
    PROVE  LET left == IF entry.cloexec THEN Closed ELSE entry
           IN  /\ fd \in Stdio => left.file = "null"
               /\ fd \notin Stdio => left.file \in {"none", "launcher"}
               /\ entry = Closed => left.file = "none"
<1>1. Redirected(table)[fd] = IF fd \in Stdio THEN [file |-> "null", cloexec |-> FALSE] ELSE table[fd]
  BY DEF Redirected
<1>2. /\ table[fd] \in [file : {"none", "null", "launcher", "own"}, cloexec : BOOLEAN]
      /\ table[fd].file \in {"own", "null"} /\ fd \notin Stdio => table[fd].cloexec
  BY DEF Inherited, Table
<1>. QED BY <1>1, <1>2 DEF Cleaned, Closed

\* The same of the whole child.
LEMMA ChildOf ==
    ASSUME NEW table \in Inherited, NEW by \in {"std", "fork"}, NEW swept,
           \A fd \in Fd : Cleaned(Redirected(table), fd, swept[fd]),
           by = "fork" => \A fd \in Fd : Reached(fd, swept[fd])
    PROVE  Isolated(Running(by, swept))
<1>1. Stdio \subseteq Fd
  BY SpawnerAssumption DEF Stdio, Fd
<1>2. \A fd \in Fd :
        /\ execve(swept)[fd] = IF swept[fd].cloexec THEN Closed ELSE swept[fd]
        /\ fd \in Stdio => execve(swept)[fd].file = "null"
        /\ fd \notin Stdio => execve(swept)[fd].file \in {"none", "launcher"}
        /\ swept[fd] = Closed => execve(swept)[fd].file = "none"
  BY ExecIsolates DEF execve
<1>. QED BY <1>1, <1>2 DEF Isolated, Running, Reached

\* Whatever is launched is isolated.
LEMMA LaunchIsolated ==
    ASSUME NEW requested \in {"std", "fork"}, NEW table \in Inherited,
           NEW spawner \in Spawner_new(requested, table), NEW has_nul,
           NEW r \in spawn_path(spawner, has_nul)
    PROVE  Isolated(r.child)
<1>1. /\ spawner.backend \in {"std", "fork"}
      /\ spawner.table \in Inherited
      /\ spawner.devnull \in Int
      /\ spawner.devnull >= 0 =>
           spawner.devnull \in Fd \ Stdio /\ spawner.table[spawner.devnull].file = "null"
  BY SpawnerStarts
<1>. DEFINE redirected == Redirected(spawner.table)
<1>2. CASE r.child.at # "running"
  BY <1>2 DEF Isolated
<1>3. CASE r = Launched(Running("std", redirected))
  <2>1. \A fd \in Fd : Cleaned(redirected, fd, redirected[fd])
    BY DEF Cleaned
  <2>2. Isolated(Running("std", redirected))
    BY <1>1, <2>1, ChildOf
  <2>. QED BY <1>3, <2>2 DEF Launched
<1>4. ASSUME spawner.devnull >= 0, NEW kernel \in Kernel,
             r = Launched(Running("fork", close_inherited(redirected, spawner.devnull, kernel)))
      PROVE  Isolated(r.child)
  <2>. DEFINE swept == close_inherited(redirected, spawner.devnull, kernel)
  <2>1. spawner.devnull \in Fd /\ spawner.devnull \notin Stdio
    BY <1>1, <1>4
  <2>2. redirected \in Table /\ redirected[spawner.devnull] = spawner.table[spawner.devnull]
    BY <1>1, <2>1 DEF Redirected, Inherited, Table
  <2>3. redirected[spawner.devnull].file # "none"
    BY <1>1, <1>4, <2>2
  <2>4. \A fd \in Fd : Cleaned(redirected, fd, swept[fd]) /\ Reached(fd, swept[fd])
    BY <2>1, <2>2, <2>3, SweepReaches
  <2>5. Isolated(Running("fork", swept))
    BY <1>1, <2>4, ChildOf
  <2>. QED BY <1>4, <2>5 DEF Launched
<1>5. NotLaunched.child.at # "running" /\ Launched(Exited).child.at # "running"
  BY DEF NotLaunched, NoChild, Launched, Exited
<1>6. \/ r \in {NotLaunched, Launched(Exited)}
      \/ r = Launched(Running("std", redirected))
      \/ /\ ~(spawner.devnull < 0)
         /\ \E kernel \in Kernel :
              r = Launched(Running("fork", close_inherited(redirected, spawner.devnull, kernel)))
  BY Zenon DEF spawn_path, spawn_std, spawn_fork
<1>7. ~(spawner.devnull < 0) => spawner.devnull >= 0
  BY <1>1
<1>. QED BY <1>2, <1>3, <1>4, <1>5, <1>6, <1>7

-----------------------------------------------------------------------------
(* The dispatch.                                                           *)

Undecided == {"gate", "decide", "uid", "adj"}

Unsignalled == \A p \in Pid : signalled[p] = None

\* What the fast path knows in each of its places: who it may act for, and
\* which pids have been revalidated.
FastPath ==
    /\ pc \in {"uid", "adj", "signal"} => act_mode /\ is_root /\ ~ams_protected
    /\ pc = "spawn" => act_mode /\ ~ams_protected
    /\ pc = "decide" => next = 1
    /\ pc \in Undecided => Unsignalled
    /\ pc \in {"uid", "adj"} =>
         \A i \in 1..(next - 1) :
             live_pids[i] \notin touched => Signallable(live_pids[i])
    /\ pc = "adj" /\ live_pids[next] \notin touched =>
         /\ proc[live_pids[next]] # None
         /\ proc[live_pids[next]].pkg \in AppPkg
    /\ pc = "signal" =>
         \A q \in LivePids \ touched : signalled[q] = None => Signallable(q)

\* A pid that is vacant, or that the loop of signals has left behind, no
\* longer holds the process the scan found.
Ended ==
    /\ \A p \in LivePids : proc[p] = None => p \in gone
    /\ pc = "signal" => \A i \in 1..(next - 1) : live_pids[i] \in gone
    /\ \A p \in Pid \ touched : signalled[p] # None => proc[p] = None

\* The record is written once, by the last step.
Unrecorded ==
    pc # "done" => children = 0 /\ alive

DispatchInv ==
    /\ TypeOK /\ FastPath /\ Ended /\ Unrecorded
    /\ JustifiedSignals /\ RecordTells /\ ChildIsolated

-----------------------------------------------------------------------------
\* The candidate's pids are pids, and the loop is at one of them.
LEMMA PidsTyped ==
    ASSUME TypeOK
    PROVE  /\ live_pids \in Seq(Pid)
           /\ DOMAIN live_pids = 1..Len(live_pids)
           /\ Len(live_pids) \in Nat \ {0}
           /\ next \in Nat /\ 1 <= next /\ next <= Len(live_pids)
           /\ live_pids[next] \in Pid
           /\ live_pids[next] \in LivePids
           /\ LivePids \subseteq Pid
  BY DispatchAssumption DEF TypeOK, LivePids

\* A loop starts again, or its phase is over after its last pid.
LEMMA AdvanceCases ==
    ASSUME TypeOK, NEW loop, NEW after, Advance(loop, after),
           live_pids' = live_pids
    PROVE  /\ next' \in DOMAIN live_pids
           /\ \/ pc' = after /\ next' = 1 /\ next = Len(live_pids)
              \/ pc' = loop /\ next' = next + 1 /\ next < Len(live_pids)
  BY PidsTyped DEF Advance

\* A record has the types of its fields, and ends the dispatch.
LEMMA RecordTyped ==
    ASSUME TypeOK, NEW m \in {"sigkill", "ams"},
           NEW errno \in {"null", "0", "errno", "NOT_DISPATCHED"},
           Recorded(m, errno)
    PROVE  /\ pc' = "done" /\ method' = m /\ spawn_errno' = errno
           /\ alive' \in BOOLEAN
           /\ alive' <=> ams_protected
<1>1. ams_protected \in BOOLEAN
  <2>1. oom_adj \in Nat /\ min_oom_score_adj \in Nat
    BY DEF TypeOK, Adj, Foreground, Service, Cached
  <2>. QED BY <2>1 DEF ams_protected
<1>2. alive' = ams_protected /\ method' = m /\ spawn_errno' = errno /\ pc' = "done"
  BY Zenon DEF Recorded
<1>3. alive' \in BOOLEAN
  BY <1>1, <1>2, Zenon
<1>4. alive' <=> ams_protected
  BY <1>2, Zenon
<1>. QED BY <1>2, <1>3, <1>4

\* After a signal the next pid is due, or the dispatch is recorded.
LEMMA StruckCases ==
    ASSUME TypeOK, pc = "signal", Struck
    PROVE  /\ next' \in DOMAIN live_pids /\ alive' \in BOOLEAN
           /\ \/ /\ next = Len(live_pids) /\ pc' = "done"
                 /\ method' = "sigkill" /\ spawn_errno' = "0"
                 /\ alive' <=> ams_protected
              \/ /\ next < Len(live_pids) /\ next' = next + 1 /\ pc' = "signal"
                 /\ UNCHANGED <<method, spawn_errno, alive>>
<1>1. CASE next = Len(live_pids)
  BY <1>1, RecordTyped, PidsTyped DEF Struck
<1>2. CASE next # Len(live_pids)
  BY <1>2, PidsTyped DEF Struck, TypeOK
<1>. QED BY <1>1, <1>2

\* The step of a dispatch that launches: it records what it did.
LEMMA SpawnCases ==
    ASSUME spawn_kill
    PROVE  /\ pc = "spawn" /\ pc' = "done"
           /\ UNCHANGED <<mode, proc, next, oom_adj, history>>
           /\ \/ /\ children' = children + 1 /\ child'.at \in {"running", "exited"}
                 /\ Recorded("ams", "0")
              \/ /\ children' = children /\ child'.at = "none"
                 /\ Recorded("ams", "errno")
<1>0. pc = "spawn" /\ UNCHANGED <<mode, proc, next, oom_adj, history>>
  BY Zenon DEF spawn_kill
<1>1. PICK requested \in {"std", "fork"}, table \in Tables, has_nul \in BOOLEAN :
        \E spawner \in Spawner_new(parse(requested), table) :
          \E r \in spawn_path(spawner, has_nul) :
            /\ child' = r.child
            /\ children' = IF r.errno = "0" THEN children + 1 ELSE children
            /\ Recorded("ams", r.errno)
  BY Zenon DEF spawn_kill
<1>2. PICK spawner \in Spawner_new(parse(requested), table) :
        \E r \in spawn_path(spawner, has_nul) :
          /\ child' = r.child
          /\ children' = IF r.errno = "0" THEN children + 1 ELSE children
          /\ Recorded("ams", r.errno)
  BY <1>1
<1>3. PICK r \in spawn_path(spawner, has_nul) :
        /\ child' = r.child
        /\ children' = IF r.errno = "0" THEN children + 1 ELSE children
        /\ Recorded("ams", r.errno)
  BY <1>2
<1>4. pc' = "done"
  BY <1>3, Zenon DEF Recorded
<1>5. CASE r.errno = "0" /\ r.child.at \in {"running", "exited"}
  BY <1>0, <1>3, <1>4, <1>5
<1>6. CASE r.errno = "errno" /\ r.child.at = "none"
  BY <1>0, <1>3, <1>4, <1>6
<1>. QED BY <1>5, <1>6, LaunchCases

-----------------------------------------------------------------------------
\* Every step keeps the types.
LEMMA TypeStep ==
    ASSUME TypeOK, Unrecorded, Next
    PROVE  TypeOK'
<1>. USE PidsTyped DEF TypeOK, mode, record, history
<1>1. CASE ReadAdj
  <2>1. Advance("gate", "decide") /\ live_pids' = live_pids
    BY <1>1 DEF ReadAdj
  <2>2. next' \in DOMAIN live_pids /\ pc' \in {"gate", "decide"}
    BY <2>1, AdvanceCases
  <2>3. oom_adj' \in Adj
    BY <1>1 DEF ReadAdj, read_oom_score_adj, Adj, Process, Foreground
  <2>. QED BY <1>1, <2>2, <2>3 DEF ReadAdj
<1>2. CASE Decide
  <2>1. kill_method \in {"sigkill", "ams"}
    BY DEF kill_method
  <2>2. CASE Recorded(kill_method, "null")
    BY <1>2, <2>1, <2>2, RecordTyped DEF Decide
  <2>3. CASE Recorded(kill_method, "NOT_DISPATCHED")
    BY <1>2, <2>1, <2>3, RecordTyped DEF Decide
  <2>4. CASE /\ pc' \in {"uid", "spawn"}
             /\ UNCHANGED <<method, spawn_errno, alive>>
    BY <1>2, <2>4 DEF Decide
  <2>. QED BY <1>2, <2>2, <2>3, <2>4 DEF Decide
<1>3. CASE CheckUid
  BY <1>3 DEF CheckUid
<1>4. CASE CheckAdj
  <2>1. CASE Advance("uid", "signal")
    BY <1>4, <2>1, AdvanceCases DEF CheckAdj
  <2>2. CASE pc' = "spawn" /\ next' = 1
    BY <1>4, <2>2 DEF CheckAdj
  <2>. QED BY <1>4, <2>1, <2>2 DEF CheckAdj
<1>5. CASE Delivered
  <2>1. /\ next' \in DOMAIN live_pids /\ alive' \in BOOLEAN /\ pc' \in {"signal", "done"}
        /\ method' \in {"none", "sigkill", "ams"}
        /\ spawn_errno' \in {"null", "0", "errno", "NOT_DISPATCHED"}
    BY <1>5, StruckCases DEF Delivered
  <2>. QED BY <1>5, <2>1 DEF Delivered
<1>6. CASE Vanished
  <2>1. /\ next' \in DOMAIN live_pids /\ alive' \in BOOLEAN /\ pc' \in {"signal", "done"}
        /\ method' \in {"none", "sigkill", "ams"}
        /\ spawn_errno' \in {"null", "0", "errno", "NOT_DISPATCHED"}
    BY <1>6, StruckCases DEF Vanished
  <2>. QED BY <1>6, <2>1 DEF Vanished
<1>7. CASE Refused
  BY <1>7 DEF Refused
<1>8. CASE spawn_kill
  <2>0. /\ children = 0
        /\ UNCHANGED <<mode, proc, next, oom_adj, history>>
    BY <1>8, SpawnCases DEF Unrecorded
  <2>1. CASE /\ children' = children + 1 /\ child'.at \in {"running", "exited"}
             /\ Recorded("ams", "0")
    BY <2>0, <2>1, RecordTyped
  <2>2. CASE /\ children' = children /\ child'.at = "none"
             /\ Recorded("ams", "errno")
    BY <2>0, <2>2, RecordTyped
  <2>. QED BY <1>8, <2>1, <2>2, SpawnCases
<1>9. CASE Device
  <2>1. PICK p \in Pid : /\ Exits(p) \/ Starts(p) \/ Reprioritised(p)
                         /\ touched' = touched \cup {p}
    BY <1>9 DEF Device
  <2>2. proc' \in [Pid -> Process \cup {None}] /\ gone' \subseteq Pid
    <3>1. CASE Exits(p)
      BY <3>1 DEF Exits
    <3>2. CASE Starts(p)
      BY <3>2 DEF Starts
    <3>3. CASE Reprioritised(p)
      <4>1. PICK a \in Adj : proc' = [proc EXCEPT ![p].adj = a]
        BY <3>3 DEF Reprioritised
      <4>2. proc[p] \in Process
        BY <3>3 DEF Reprioritised
      <4>3. [proc[p] EXCEPT !.adj = a] \in Process
        BY <4>2 DEF Process
      <4>. QED BY <3>3, <4>1, <4>3 DEF Reprioritised
    <3>. QED BY <2>1, <3>1, <3>2, <3>3
  <2>. QED BY <1>9, <2>1, <2>2 DEF Device
<1>. QED
  BY <1>1, <1>2, <1>3, <1>4, <1>5, <1>6, <1>7, <1>8, <1>9 DEF Next, dispatch_candidate

-----------------------------------------------------------------------------
\* The fast path's knowledge survives every step of the daemon.  A pid is
\* revalidated only by a pass over all of them; a delivered signal empties
\* its pid, so that the others stay as they were found.
LEMMA FastPathStep ==
    ASSUME DispatchInv, dispatch_candidate
    PROVE  FastPath'
<1>. USE DEF DispatchInv, TypeOK, mode, record, history
<1>0. TypeOK'
  BY TypeStep DEF Next
<1>1. CASE ReadAdj
  BY <1>1, AdvanceCases DEF ReadAdj, FastPath, Undecided, Unsignalled
<1>2. CASE Decide
  <2>1. Unsignalled' /\ oom_adj' = oom_adj /\ next' = 1
    BY <1>2 DEF Decide, FastPath, Undecided, Unsignalled
  <2>2. CASE pc' = "done"
    BY <2>1, <2>2 DEF FastPath
  <2>3. CASE act_mode /\ ~ams_protected /\ pc' = "spawn"
    BY <1>2, <2>1, <2>3 DEF Decide, FastPath, ams_protected
  <2>4. CASE act_mode /\ ~ams_protected /\ kill_method = "sigkill" /\ pc' = "uid"
    BY <1>2, <2>1, <2>4 DEF Decide, FastPath, ams_protected, kill_method
  <2>. QED BY <1>2, <2>2, <2>3, <2>4, Zenon DEF Decide, Recorded
<1>3. CASE CheckUid
  BY <1>3 DEF CheckUid, FastPath, Undecided, Unsignalled, ams_protected, Signallable
<1>4. CASE CheckAdj
  <2>1. CASE pc' = "spawn"
    BY <1>4, <2>1 DEF CheckAdj, FastPath, Undecided, ams_protected
  <2>2. CASE pc' # "spawn"
    <3>1. /\ Advance("uid", "signal")
          /\ proc[live_pids[next]] # None /\ proc[live_pids[next]].adj >= Cached
      BY <1>4, <2>2 DEF CheckAdj
    <3>2. proc[live_pids[next]] \in Process
      BY <3>1, PidsTyped
    <3>3. proc[live_pids[next]].adj = Cached
      BY <3>1, <3>2 DEF Process, Adj, Foreground, Service, Cached
    <3>4. \A i \in 1..next : live_pids[i] \notin touched => Signallable(live_pids[i])
      <4>. SUFFICES ASSUME NEW i \in 1..next, live_pids[i] \notin touched
                    PROVE  Signallable(live_pids[i])
        OBVIOUS
      <4>1. CASE i = next
        BY <1>4, <3>1, <3>3, <4>1 DEF CheckAdj, FastPath, Signallable
      <4>2. CASE i # next
        BY <1>4, <4>2, PidsTyped DEF CheckAdj, FastPath
      <4>. QED BY <4>1, <4>2
    <3>5. UNCHANGED <<mode, proc, oom_adj, history>> /\ pc = "adj"
      BY <1>4 DEF CheckAdj
    <3>6. CASE pc' = "uid" /\ next' = next + 1
      BY <3>4, <3>5, <3>6, PidsTyped
         DEF FastPath, Undecided, Unsignalled, ams_protected, Signallable
    <3>7. CASE pc' = "signal" /\ next = Len(live_pids)
      BY <3>4, <3>5, <3>7, PidsTyped
         DEF FastPath, Undecided, ams_protected, Signallable, LivePids
    <3>. QED BY <3>1, <3>5, <3>6, <3>7, AdvanceCases
  <2>. QED BY <2>1, <2>2
<1>5. CASE Delivered
  BY <1>5, StruckCases DEF Delivered, FastPath, Undecided, Unsignalled, ams_protected,
     Signallable, LivePids
<1>6. CASE Vanished
  BY <1>6, StruckCases DEF Vanished, FastPath, Undecided, Unsignalled, ams_protected,
     Signallable, LivePids
<1>7. CASE Refused
  BY <1>7 DEF Refused, FastPath, Undecided, ams_protected
<1>8. CASE spawn_kill
  BY <1>8, SpawnCases DEF FastPath, Undecided
<1>. QED
  BY <1>1, <1>2, <1>3, <1>4, <1>5, <1>6, <1>7, <1>8 DEF dispatch_candidate

\* So does what is known of the processes that have ended.
LEMMA EndedStep ==
    ASSUME DispatchInv, dispatch_candidate
    PROVE  Ended'
<1>. USE DEF DispatchInv, TypeOK, mode, record, history
<1>1. CASE ReadAdj \/ Decide \/ CheckUid \/ CheckAdj \/ Refused \/ spawn_kill
  <2>1. UNCHANGED <<proc, live_pids, touched, signalled, gone>>
    BY <1>1, SpawnCases DEF ReadAdj, Decide, CheckUid, CheckAdj, Refused
  <2>2. pc' = "signal" => next' = 1
    BY <1>1, AdvanceCases, SpawnCases DEF ReadAdj, Decide, CheckUid, CheckAdj, Refused, Recorded
  <2>. QED BY <2>1, <2>2 DEF Ended, LivePids
<1>2. CASE Delivered
  <2>1. /\ next <= next' \/ pc' = "done"
        /\ pc' = "signal" => next' = next + 1
    BY <1>2, StruckCases, PidsTyped DEF Delivered
  <2>. QED BY <1>2, <2>1, PidsTyped DEF Delivered, Ended, LivePids
<1>3. CASE Vanished
  <2>1. pc' = "signal" => next' = next + 1
    BY <1>3, StruckCases, PidsTyped DEF Vanished
  <2>2. live_pids[next] \in gone
    BY <1>3, PidsTyped DEF Vanished, Ended
  <2>. QED BY <1>3, <2>1, <2>2, PidsTyped DEF Vanished, Ended, LivePids
<1>. QED BY <1>1, <1>2, <1>3 DEF dispatch_candidate

\* Only a delivered signal changes what has been signalled, and it falls on
\* a revalidated process unless the pid has been touched since the scan.
LEMMA JustifiedStep ==
    ASSUME DispatchInv, dispatch_candidate
    PROVE  JustifiedSignals'
<1>. USE DEF DispatchInv, TypeOK, mode, record, history
<1>1. CASE ~Delivered
  <2>1. UNCHANGED <<act_mode, is_root, proc, live_pids, touched, signalled>>
    BY <1>1, SpawnCases DEF dispatch_candidate, ReadAdj, Decide, CheckUid, CheckAdj, Vanished,
       Refused
  <2>. QED BY <2>1 DEF JustifiedSignals, LivePids, Signallable
<1>2. CASE Delivered
  <2>. DEFINE p == live_pids[next]
  <2>1. p \in Pid /\ p \in LivePids
    BY PidsTyped
  <2>2. /\ pc = "signal" /\ proc[p] # None
        /\ signalled' = [signalled EXCEPT ![p] = proc[p]]
        /\ proc' = [proc EXCEPT ![p] = None]
        /\ UNCHANGED <<act_mode, is_root, live_pids, touched>>
    BY <1>2 DEF Delivered
  <2>3. p \notin touched => signalled[p] = None /\ Signallable(p)
    BY <2>1, <2>2 DEF FastPath, Ended
  <2>4. \A q \in LivePids \ touched : signalled'[q] = None => Signallable(q)'
    BY <2>1, <2>2, PidsTyped DEF FastPath, Signallable
  <2>5. act_mode /\ is_root
    BY <2>2 DEF FastPath
  <2>6. \A r \in Pid : signalled'[r] # None =>
          /\ r \in LivePids
          /\ r \notin touched => signalled'[r].adj = Cached /\ signalled'[r].pkg \in AppPkg
    BY <2>1, <2>2, <2>3 DEF JustifiedSignals, Signallable
  <2>7. LivePids' = LivePids
    BY <2>2 DEF LivePids
  <2>. QED BY <2>2, <2>4, <2>5, <2>6, <2>7 DEF JustifiedSignals
<1>. QED BY <1>1, <1>2

\* The record is written by the step that ends the dispatch, and says what
\* that step and the ones before it did.
LEMMA RecordStep ==
    ASSUME DispatchInv, dispatch_candidate
    PROVE  Unrecorded' /\ RecordTells'
<1>. USE DEF DispatchInv, TypeOK, mode, record, history
<1>1. CASE ReadAdj \/ CheckUid \/ CheckAdj \/ Refused
  <2>1. UNCHANGED <<children, alive>> /\ pc # "done"
    BY <1>1 DEF ReadAdj, CheckUid, CheckAdj, Refused
  <2>2. pc' # "done"
    BY <1>1, AdvanceCases DEF ReadAdj, CheckUid, CheckAdj, Refused
  <2>. QED BY <2>1, <2>2, Zenon DEF Unrecorded, RecordTells
<1>2. CASE Decide
  <2>1. /\ pc = "decide" /\ children = 0 /\ alive /\ Unsignalled
        /\ UNCHANGED <<act_mode, live_pids, gone, signalled, children>>
    BY <1>2 DEF Decide, Unrecorded, FastPath, Undecided
  <2>2. kill_method \in {"sigkill", "ams"}
    BY DEF kill_method
  <2>3. CASE ~act_mode /\ Recorded(kill_method, "null")
    BY <2>1, <2>2, <2>3, RecordTyped DEF Unrecorded, RecordTells, Unsignalled
  <2>4. CASE ams_protected /\ Recorded(kill_method, "NOT_DISPATCHED")
    BY <2>1, <2>2, <2>4, RecordTyped DEF Unrecorded, RecordTells, Unsignalled
  <2>5. CASE pc' \in {"uid", "spawn"} /\ UNCHANGED <<method, spawn_errno, alive>>
    BY <2>1, <2>5 DEF Unrecorded, RecordTells
  <2>. QED BY <1>2, <2>3, <2>4, <2>5 DEF Decide
<1>3. CASE Delivered \/ Vanished
  <2>1. /\ pc = "signal" /\ children = 0 /\ alive /\ Struck
        /\ UNCHANGED <<act_mode, live_pids, children>>
    BY <1>3 DEF Delivered, Vanished, Unrecorded
  <2>0. \/ next = Len(live_pids) /\ pc' = "done" /\ method' = "sigkill" /\ spawn_errno' = "0"
        \/ next < Len(live_pids) /\ pc' = "signal" /\ UNCHANGED alive
    <3>1. TypeOK
      OBVIOUS
    <3>. QED BY <2>1, <3>1, StruckCases, Zenon
  <2>2. CASE next < Len(live_pids)
    <3>1. pc' = "signal" /\ UNCHANGED alive
      BY <2>0, <2>2, PidsTyped
    <3>. QED BY <2>1, <3>1, Zenon DEF Unrecorded, RecordTells
  <2>3. CASE next = Len(live_pids)
    <3>1. pc' = "done" /\ method' = "sigkill" /\ spawn_errno' = "0"
      BY <2>0, <2>3, PidsTyped
    <3>2. live_pids[next] \in gone' /\ gone \subseteq gone'
      BY <1>3, PidsTyped DEF Delivered, Vanished, Ended
    <3>3. \A i \in 1..Len(live_pids) : live_pids[i] \in gone'
      BY <2>1, <2>3, <3>2, PidsTyped DEF Ended
    <3>4. LivePids' \subseteq gone'
      BY <2>1, <3>3, PidsTyped DEF LivePids
    <3>. QED BY <2>1, <3>1, <3>4 DEF Unrecorded, RecordTells
  <2>. QED BY <2>2, <2>3, PidsTyped
<1>4. CASE spawn_kill
  <2>1. /\ children = 0 /\ act_mode /\ ~ams_protected
        /\ UNCHANGED <<act_mode, live_pids, gone, signalled>>
    BY <1>4, SpawnCases DEF Unrecorded, FastPath
  <2>2. CASE /\ children' = children + 1 /\ child'.at \in {"running", "exited"}
             /\ Recorded("ams", "0")
    BY <2>1, <2>2, RecordTyped DEF Unrecorded, RecordTells
  <2>3. CASE children' = children /\ Recorded("ams", "errno")
    BY <2>1, <2>3, RecordTyped DEF Unrecorded, RecordTells
  <2>. QED BY <1>4, <2>2, <2>3, SpawnCases
<1>. QED BY <1>1, <1>2, <1>3, <1>4 DEF dispatch_candidate

\* The child of a launch is isolated, and no other step has one.
LEMMA ChildStep ==
    ASSUME DispatchInv, dispatch_candidate
    PROVE  ChildIsolated'
<1>1. CASE UNCHANGED child
  BY <1>1 DEF DispatchInv, ChildIsolated
<1>2. CASE spawn_kill
  <2>1. PICK requested \in {"std", "fork"}, table \in Tables, has_nul \in BOOLEAN :
          \E spawner \in Spawner_new(parse(requested), table) :
            \E r \in spawn_path(spawner, has_nul) : child' = r.child
    BY <1>2, Zenon DEF spawn_kill
  <2>2. PICK spawner \in Spawner_new(parse(requested), table) :
          \E r \in spawn_path(spawner, has_nul) : child' = r.child
    BY <2>1
  <2>3. PICK r \in spawn_path(spawner, has_nul) : child' = r.child
    BY <2>2
  <2>4. parse(requested) \in {"std", "fork"} /\ table \in Inherited
    BY DispatchAssumption DEF parse
  <2>5. Isolated(r.child)
    BY <2>4, LaunchIsolated
  <2>. QED BY <2>3, <2>5, Zenon DEF Isolated, ChildIsolated
<1>3. CASE ~spawn_kill
  <2>1. UNCHANGED child
    BY <1>3 DEF dispatch_candidate, ReadAdj, Decide, CheckUid, CheckAdj, Delivered,
       Vanished, Refused, record
  <2>. QED BY <1>1, <2>1
<1>. QED BY <1>2, <1>3

\* The device moves under the dispatch without falsifying any of it: what
\* is said of a process is said of an untouched pid, or of one that ended.
LEMMA DeviceStep ==
    ASSUME DispatchInv, Device
    PROVE  /\ FastPath' /\ Ended' /\ Unrecorded'
           /\ JustifiedSignals' /\ RecordTells' /\ ChildIsolated'
<1>. USE DEF DispatchInv, TypeOK, mode, record, history
<1>1. PICK p \in Pid : /\ Exits(p) \/ Starts(p) \/ Reprioritised(p)
                       /\ touched' = touched \cup {p}
  BY DEF Device
<1>2. /\ pc # "done"
      /\ UNCHANGED <<mode, pc, next, oom_adj, record, signalled>>
  BY DEF Device
<1>3. /\ gone \subseteq gone'
      /\ proc'[p] = None => p \in gone'
      /\ \A q \in Pid \ {p} : proc'[q] = proc[q]
  <2>1. CASE Exits(p)
    BY <2>1 DEF Exits
  <2>2. CASE Starts(p)
    BY <2>2, DispatchAssumption DEF Starts, Process, Adj, Foreground, Service, Cached
  <2>3. CASE Reprioritised(p)
    <3>1. PICK a \in Adj : proc' = [proc EXCEPT ![p].adj = a]
      BY <2>3 DEF Reprioritised
    <3>2. proc[p] \in Process
      BY <2>3 DEF Reprioritised
    <3>3. [proc[p] EXCEPT !.adj = a] \in Process
      BY <3>2 DEF Process
    <3>4. None \notin Process
      BY DispatchAssumption DEF Process, Adj, Foreground, Service, Cached
    <3>. QED BY <2>3, <3>1, <3>3, <3>4 DEF Reprioritised
  <2>. QED BY <1>1, <2>1, <2>2, <2>3
<1>4. \A q \in Pid \ touched' : proc'[q] = proc[q] /\ (Signallable(q)' <=> Signallable(q))
  BY <1>1, <1>3 DEF Signallable
<1>5. \A i \in 1..Len(live_pids) : live_pids[i] \in Pid /\ live_pids[i] \in LivePids
  BY PidsTyped DEF LivePids
<1>6. LivePids' = LivePids
  BY <1>2 DEF LivePids
<1>7. FastPath'
  BY <1>1, <1>2, <1>4, <1>5, <1>6, PidsTyped
     DEF FastPath, Undecided, Unsignalled, ams_protected
<1>8. Ended'
  BY <1>1, <1>2, <1>3, <1>4, <1>6, PidsTyped DEF Ended
<1>9. JustifiedSignals'
  BY <1>1, <1>2, <1>4, <1>6, PidsTyped DEF JustifiedSignals
<1>10. Unrecorded' /\ RecordTells'
  BY <1>2 DEF Unrecorded, RecordTells
<1>11. ChildIsolated'
  BY <1>2 DEF ChildIsolated
<1>. QED BY <1>7, <1>8, <1>9, <1>10, <1>11

\* A step of the daemon or of the device keeps the whole invariant.
LEMMA DispatchStep ==
    ASSUME DispatchInv, Next
    PROVE  DispatchInv'
<1>1. TypeOK'
  BY TypeStep DEF DispatchInv
<1>2. CASE dispatch_candidate
  BY <1>1, <1>2, FastPathStep, EndedStep, JustifiedStep, RecordStep, ChildStep
     DEF DispatchInv
<1>3. CASE Device
  BY <1>1, <1>3, DeviceStep DEF DispatchInv
<1>. QED BY <1>2, <1>3 DEF Next

\* The scan's pids are all occupied, and nothing has been done yet.
LEMMA DispatchStarts == Init => DispatchInv
<1>. SUFFICES ASSUME Init PROVE DispatchInv
  OBVIOUS
<1>1. TypeOK
  BY DispatchAssumption DEF Init, TypeOK, Adj, Cached, NoChild
<1>2. FastPath
  BY DEF Init, FastPath, Undecided, Unsignalled
<1>3. Ended
  BY DEF Init, Ended, LivePids
<1>4. Unrecorded /\ JustifiedSignals /\ RecordTells
  BY DEF Init, Unrecorded, JustifiedSignals, RecordTells
<1>5. ChildIsolated
  BY DEF Init, ChildIsolated, NoChild
<1>. QED BY <1>1, <1>2, <1>3, <1>4, <1>5 DEF DispatchInv

\* Stuttering keeps it.
LEMMA DispatchStutters == DispatchInv /\ UNCHANGED vars => DispatchInv'
  BY DEF DispatchInv, TypeOK, FastPath, Undecided, Unsignalled, Ended, Unrecorded,
     JustifiedSignals, RecordTells, ChildIsolated, LivePids, Signallable, ams_protected,
     vars, mode, record, history

\* The dispatch keeps its invariant (kill.rs dispatch_candidate).
THEOREM DispatchCorrect == Spec => []DispatchInv
<1>1. DispatchInv /\ [Next]_vars => DispatchInv'
  BY DispatchStep, DispatchStutters
<1>. QED BY <1>1, DispatchStarts, PTL DEF Spec

\* For any list of pids and any device, no loop runs past the list and no
\* dispatch forks two children (kill.rs dispatch_candidate).
THEOREM DispatchTypeCorrect == Spec => []TypeOK
<1>1. DispatchInv => TypeOK
  BY DEF DispatchInv
<1>. QED BY <1>1, DispatchCorrect, PTL

\* However many pids a candidate has and however the device moves, SIGKILL
\* reaches an untouched pid only when it is a cached application's and every
\* other untouched one is too (kill.rs dispatch_candidate).
THEOREM JustifiedSignalsCorrect == Spec => []JustifiedSignals
<1>1. DispatchInv => JustifiedSignals
  BY DEF DispatchInv
<1>. QED BY <1>1, DispatchCorrect, PTL

\* The record of every dispatch tells what was done (kill.rs KillRecord).
THEOREM RecordTellsCorrect == Spec => []RecordTells
<1>1. DispatchInv => RecordTells
  BY DEF DispatchInv
<1>. QED BY <1>1, DispatchCorrect, PTL

\* Whatever descriptors the daemon was started with and whatever the kernel
\* makes of close_range, the child holds none of the daemon's files (spawn.rs
\* close_inherited).
THEOREM ChildIsolatedCorrect == Spec => []ChildIsolated
<1>1. DispatchInv => ChildIsolated
  BY DEF DispatchInv
<1>. QED BY <1>1, DispatchCorrect, PTL
=============================================================================
