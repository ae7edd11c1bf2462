------------------------------ MODULE Spawner ------------------------------
(***************************************************************************)
(* The launch of `cmd activity kill` (spawn.rs): the backend chosen at     *)
(* startup, the checks made before the fork, and what the forked child     *)
(* does to its copy of the daemon's descriptor table before execve.  A     *)
(* child runs beside the daemon and touches nothing of it, so a launch is  *)
(* the set of its outcomes: what is recorded, and the child there is then. *)
(*                                                                         *)
(* That the argv fits its slots is asserted at compile time, and left out. *)
(***************************************************************************)
EXTENDS Integers

CONSTANTS
    MaxFd,      \* bound: the descriptors of a process are 0..MaxFd
    WalkCap,    \* the descriptor at which the walk stops (4096)
    HardLimit   \* RLIMIT_NOFILE (256 when it cannot be read)

ASSUME SpawnerAssumption == MaxFd \in Nat /\ 3 < MaxFd /\ WalkCap \in Nat /\ HardLimit \in Nat

Stdio == 0..2

Fd == 0..MaxFd

\* What a descriptor is open on: /dev/null, something of the launcher's, or
\* one of the daemon's own files, all of which are close-on-exec.
Closed == [file |-> "none", cloexec |-> FALSE]

Table == [Fd -> [file : {"none", "null", "launcher", "own"}, cloexec : BOOLEAN]]

\* The tables the daemon may have: std opens what standard stream is missing
\* before main, and the daemon marks what it opens.
Inherited ==
    {table \in Table :
        /\ \A fd \in Stdio : table[fd].file # "none"
        /\ \A fd \in Fd : table[fd].file \in {"own", "null"} /\ fd \notin Stdio => table[fd].cloexec}

-----------------------------------------------------------------------------
(* Startup.                                                                *)

\* MINI_LMK_SPAWN: unset and unrecognised both mean fork.
parse(value) == IF value = "std" THEN "std" ELSE "fork"

\* The spawner, and the table it leaves: /dev/null takes the lowest free
\* descriptor, and without it only the std backend remains.
Spawner_new(requested, table) ==
    LET free == {fd \in Fd : table[fd].file = "none"}
        lowest == {fd \in free : \A other \in free : fd <= other}
    IN  {[backend |-> requested, devnull |-> fd,
          table |-> [table EXCEPT ![fd] = [file |-> "null", cloexec |-> TRUE]]] : fd \in lowest}
          \cup {[backend |-> "std", devnull |-> -1, table |-> table]}

-----------------------------------------------------------------------------
(* The child.                                                              *)

\* Three dup2 of the cached descriptor: a copy is not close-on-exec.
Redirected(table) ==
    [fd \in Fd |-> IF fd \in Stdio THEN [file |-> "null", cloexec |-> FALSE] ELSE table[fd]]

\* Closed from 3 up to a limit.
Swept(table, limit) == [fd \in Fd |-> IF fd \notin Stdio /\ fd < limit THEN Closed ELSE table[fd]]

\* close_range(2): the kernel has it, does not, or has another syscall
\* under its number that also returns 0.
Kernel == {"close_range", "ENOSYS", "another"}

\* Mutant: a return of 0 is believed.
SweepBelieved(table, probe, kernel) ==
    CASE kernel = "close_range" -> Swept(table, MaxFd + 1)
      [] kernel = "another" -> table
      [] OTHER -> Swept(table, IF HardLimit < WalkCap THEN HardLimit ELSE WalkCap)

\* The fast path counts only if a descriptor known to be open is closed.
close_inherited(table, probe, kernel) ==
    LET fast == IF kernel = "close_range" THEN Swept(table, MaxFd + 1) ELSE table
    IN  IF kernel # "ENOSYS" /\ fast[probe].file = "none"
        THEN fast
        ELSE Swept(fast, IF HardLimit < WalkCap THEN HardLimit ELSE WalkCap)

execve(table) == [fd \in Fd |-> IF table[fd].cloexec THEN Closed ELSE table[fd]]

-----------------------------------------------------------------------------
(* The launch.                                                             *)

NoChild == [at |-> "none", by |-> "none", fds |-> [fd \in Fd |-> Closed]]

\* It runs cmd, or has left with status 127.
Running(by, table) == [at |-> "running", by |-> by, fds |-> execve(table)]

Exited == [at |-> "exited", by |-> "fork", fds |-> [fd \in Fd |-> Closed]]

NotLaunched == [errno |-> "errno", child |-> NoChild]

Launched(child) == [errno |-> "0", child |-> child]

\* fork fails; or a dup2 or execve in the child does, which nobody is told.
spawn_fork(spawner) ==
    {NotLaunched, Launched(Exited)} \cup
        {Launched(Running("fork",
            close_inherited(Redirected(spawner.table), spawner.devnull, kernel))) :
            kernel \in Kernel}

\* std::process::Command redirects the three and reports a failed execve.
spawn_std(spawner) == {NotLaunched, Launched(Running("std", Redirected(spawner.table)))}

\* A package name that holds a NUL would reach execve truncated.
spawn_path(spawner, has_nul) ==
    IF has_nul THEN {NotLaunched}
    ELSE IF spawner.backend = "std" THEN spawn_std(spawner)
    ELSE IF spawner.devnull < 0 THEN {NotLaunched}
    ELSE spawn_fork(spawner)
=============================================================================
