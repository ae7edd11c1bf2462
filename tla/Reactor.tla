------------------------------ MODULE Reactor ------------------------------
(***************************************************************************)
(* The reactor of mini-lmk: the epoll loop of `run` (daemon.rs), the       *)
(* signal handler (main.rs), the reaping of children (kill.rs) with the    *)
(* spawner's count of them (spawn.rs), and the flushing of the log.        *)
(*                                                                         *)
(* The daemon is one thread, but a signal may land between any two of its  *)
(* steps, and its children, logcat and the config directory move on their  *)
(* own.  What a line makes the daemon decide is module Daemon's business:  *)
(* here a line forks some `cmd` children and may buffer a record.          *)
(***************************************************************************)
EXTENDS Naturals, FiniteSets

CONSTANTS
    Child,      \* the `cmd` children that can exist at one time
    MaxLines    \* bound on the lines waiting in logcat's pipe

ASSUME ReactorAssumption ==
    /\ IsFiniteSet(Child)
    /\ MaxLines \in Nat

VARIABLES
    RUNNING,        \* cleared by the signal handler
    pc,             \* where the thread is in `run`
    timeout,        \* of the epoll_wait being entered
    interrupted,    \* a signal has landed inside epoll_wait
    batch,          \* the tokens of the current batch still to be handled
    logcat,         \* the logcat child: its pipe closes when it begins to
                    \* exit, it can be reaped once it is a zombie
    pipe,           \* lines waiting in its pipe
    inotify,        \* the config directory changed since it was last read
    child,          \* the `cmd` children
    reaps_pending,  \* the spawner's count of children to reap
    unflushed       \* a record sits in the log's buffer

loop == <<pc, timeout, interrupted, batch>>
spawner == <<child, reaps_pending>>
device == <<logcat, pipe, inotify>>
vars == <<RUNNING, loop, device, spawner, unflushed>>

Token == {"logcat", "hup", "inotify"}

TypeOK ==
    /\ RUNNING \in BOOLEAN
    /\ pc \in {"top", "entering", "asleep", "woken", "handling", "stopping", "exited"}
    /\ timeout \in {"unbounded", "60s"}
    /\ interrupted \in BOOLEAN
    /\ batch \subseteq Token
    /\ logcat \in {"running", "exiting", "zombie", "reaped"}
    /\ pipe \in 0..MaxLines
    /\ inotify \in BOOLEAN
    /\ child \in [Child -> {"absent", "running", "zombie"}]
    /\ reaps_pending \in 0..Cardinality(Child)
    /\ unflushed \in BOOLEAN

Init ==
    /\ RUNNING = TRUE
    /\ pc = "top"
    /\ timeout = "unbounded"
    /\ interrupted = FALSE
    /\ batch = {}
    /\ logcat = "running"
    /\ pipe = 0
    /\ inotify = FALSE
    /\ child = [c \in Child |-> "absent"]
    /\ reaps_pending = 0
    /\ unflushed = FALSE

-----------------------------------------------------------------------------
(* The daemon's thread.                                                    *)

\* fatal: log what is buffered, then process::exit.
fatal ==
    /\ pc' = "exited"
    /\ unflushed' = FALSE

\* Mutant: the loop does not test RUNNING.
TestNothing ==
    /\ pc = "top"
    /\ pc' = "entering"
    /\ timeout' = IF reaps_pending > 0 THEN "60s" ELSE "unbounded"
    /\ UNCHANGED <<RUNNING, interrupted, batch, device, spawner, unflushed>>

\* The loop test and the choice of a timeout.  A stop request that lands
\* after this load and before the sleep is not seen.
TestRunning ==
    /\ pc = "top"
    /\ IF RUNNING
       THEN /\ pc' = "entering"
            /\ timeout' = IF reaps_pending > 0 THEN "60s" ELSE "unbounded"
       ELSE /\ pc' = "stopping"
            /\ UNCHANGED timeout
    /\ UNCHANGED <<RUNNING, interrupted, batch, device, spawner, unflushed>>

EnterEpollWait ==
    /\ pc = "entering"
    /\ pc' = "asleep"
    /\ interrupted' = FALSE
    /\ UNCHANGED <<RUNNING, timeout, batch, device, spawner, unflushed>>

\* What epoll would report now.
Ready ==
    (IF logcat # "running" THEN {"hup"} ELSE IF pipe > 0 THEN {"logcat"} ELSE {})
        \cup (IF inotify THEN {"inotify"} ELSE {})

\* epoll_wait returns: with events, with none at the timeout, or with EINTR.
EpollReturns ==
    /\ pc = "asleep"
    /\ Ready # {} \/ timeout = "60s" \/ interrupted
    /\ pc' = "woken"
    /\ batch' = Ready
    /\ interrupted' = (interrupted /\ Ready = {})
    /\ UNCHANGED <<RUNNING, timeout, device, spawner, unflushed>>

\* Mutant: waitpid is skipped when the spawner expects no child.
ReapWhenPending ==
    LET zombies == {c \in Child : child[c] = "zombie" /\ reaps_pending > 0}
    IN  /\ child' = [c \in Child |-> IF c \in zombies THEN "absent" ELSE child[c]]
        /\ logcat' = IF logcat = "zombie" THEN "reaped" ELSE logcat
        /\ reaps_pending' = IF logcat = "zombie" /\ RUNNING THEN reaps_pending ELSE 0

\* Mutant: the spawner is not told.
ReapUncounted ==
    LET zombies == {c \in Child : child[c] = "zombie"}
    IN  /\ child' = [c \in Child |-> IF c \in zombies THEN "absent" ELSE child[c]]
        /\ logcat' = IF logcat = "zombie" THEN "reaped" ELSE logcat
        /\ UNCHANGED reaps_pending

\* waitpid(-1, WNOHANG) until nothing is left to reap or logcat has been
\* reaped; in both cases the spawner is told that everything was.
reap_terminated_children ==
    LET zombies == {c \in Child : child[c] = "zombie"}
    IN  \E reaped \in SUBSET zombies :
          /\ logcat = "zombie" \/ reaped = zombies
          /\ child' = [c \in Child |-> IF c \in reaped THEN "absent" ELSE child[c]]
          /\ logcat' = IF logcat = "zombie" THEN "reaped" ELSE logcat
          /\ reaps_pending' = IF logcat = "zombie" /\ RUNNING THEN reaps_pending ELSE 0

\* After every return of epoll_wait; losing logcat while running is fatal.
Reap ==
    /\ pc = "woken"
    /\ reap_terminated_children
    /\ IF logcat = "zombie" /\ RUNNING THEN fatal
       ELSE /\ pc' = IF ~interrupted THEN "handling"
                     ELSE IF RUNNING THEN "top" ELSE "stopping"
            /\ UNCHANGED unflushed
    /\ UNCHANGED <<RUNNING, timeout, interrupted, batch, pipe, inotify>>

\* One line read and dispatched.  A kill writes its record through; whether
\* a fork succeeds is up to the kernel.
DispatchLine ==
    /\ pc = "handling" /\ "logcat" \in batch
    /\ pipe > 0
    /\ pipe' = pipe - 1
    /\ \E forked \in SUBSET {c \in Child : child[c] = "absent"} :
         /\ child' = [c \in Child |-> IF c \in forked THEN "running" ELSE child[c]]
         /\ reaps_pending' = reaps_pending + Cardinality(forked)
         /\ IF forked # {} THEN unflushed' = FALSE ELSE unflushed' \in {unflushed, TRUE}
    /\ UNCHANGED <<RUNNING, loop, logcat, inotify>>

\* The read after the last line: EAGAIN, or EOF once logcat is gone.
PipeDrained ==
    /\ pc = "handling" /\ "logcat" \in batch
    /\ pipe = 0
    /\ IF logcat # "running" /\ RUNNING
       THEN fatal /\ UNCHANGED batch
       ELSE batch' = batch \ {"logcat"} /\ UNCHANGED <<pc, unflushed>>
    /\ UNCHANGED <<RUNNING, timeout, interrupted, device, spawner>>

\* Mutant: HUP ends the batch and never the daemon.
HangupIgnored ==
    /\ pc = "handling" /\ "hup" \in batch
    /\ batch' = {}
    /\ UNCHANGED <<RUNNING, pc, timeout, interrupted, device, spawner, unflushed>>

\* HUP: fatal while running, otherwise the rest of the batch is dropped.
PipeHungUp ==
    /\ pc = "handling" /\ "hup" \in batch
    /\ IF RUNNING THEN fatal /\ UNCHANGED batch
       ELSE batch' = {} /\ UNCHANGED <<pc, unflushed>>
    /\ UNCHANGED <<RUNNING, timeout, interrupted, device, spawner>>

\* The queue is emptied before the files are read.  A changed configuration
\* is announced and flushed, unless the log is off or nothing changed.
ReloadConfigs ==
    /\ pc = "handling" /\ "inotify" \in batch
    /\ inotify' = FALSE
    /\ batch' = batch \ {"inotify"}
    /\ unflushed' \in {unflushed, FALSE}
    /\ UNCHANGED <<RUNNING, pc, timeout, interrupted, logcat, pipe, spawner>>

\* Mutant: the batch ends without a flush.
EndUnflushed ==
    /\ pc = "handling" /\ batch = {}
    /\ pc' = "top"
    /\ UNCHANGED <<RUNNING, timeout, interrupted, batch, device, spawner, unflushed>>

EndBatch ==
    /\ pc = "handling" /\ batch = {}
    /\ pc' = "top"
    /\ unflushed' = FALSE
    /\ UNCHANGED <<RUNNING, timeout, interrupted, batch, device, spawner>>

\* Kill and wait for logcat, reap, flush, return from main.
Shutdown ==
    /\ pc = "stopping"
    /\ pc' = "exited"
    /\ logcat' = "reaped"
    /\ child' = [c \in Child |-> IF child[c] = "zombie" THEN "absent" ELSE child[c]]
    /\ reaps_pending' = 0
    /\ unflushed' = FALSE
    /\ UNCHANGED <<RUNNING, timeout, interrupted, batch, pipe, inotify>>

Thread ==
    \/ TestRunning \/ EnterEpollWait \/ EpollReturns \/ Reap
    \/ DispatchLine \/ PipeDrained \/ PipeHungUp \/ ReloadConfigs
    \/ EndBatch \/ Shutdown

-----------------------------------------------------------------------------
(* Everything else.                                                        *)

\* SIGINT or SIGTERM.  Inside epoll_wait it also ends the sleep.
sig_handler ==
    /\ pc # "exited"
    /\ RUNNING' = FALSE
    /\ interrupted' = (interrupted \/ pc = "asleep")
    /\ UNCHANGED <<pc, timeout, batch, device, spawner, unflushed>>

\* Stopped and continued: epoll_wait returns EINTR, nothing was handled.
Continued ==
    /\ pc = "asleep"
    /\ interrupted' = TRUE
    /\ UNCHANGED <<RUNNING, pc, timeout, batch, device, spawner, unflushed>>

LogcatWrites ==
    /\ logcat = "running" /\ pipe < MaxLines
    /\ pipe' = pipe + 1
    /\ UNCHANGED <<RUNNING, loop, logcat, inotify, spawner, unflushed>>

LogcatDies ==
    /\ pc # "exited"
    /\ \/ logcat = "running" /\ logcat' = "exiting"
       \/ logcat = "exiting" /\ logcat' = "zombie"
    /\ UNCHANGED <<RUNNING, loop, pipe, inotify, spawner, unflushed>>

ChildExits(c) ==
    /\ child[c] = "running" /\ pc # "exited"
    /\ child' = [child EXCEPT ![c] = "zombie"]
    /\ UNCHANGED <<RUNNING, loop, device, reaps_pending, unflushed>>

ConfigWritten ==
    /\ inotify' = TRUE
    /\ UNCHANGED <<RUNNING, loop, logcat, pipe, spawner, unflushed>>

Environment ==
    \/ sig_handler \/ Continued \/ LogcatWrites \/ LogcatDies \/ ConfigWritten
    \/ \E c \in Child : ChildExits(c)

Next == Thread \/ Environment

\* The kernel schedules the thread; nothing is assumed of the environment.
Spec == Init /\ [][Next]_vars /\ WF_vars(Thread)

-----------------------------------------------------------------------------

\* No record is left in the buffer when the daemon sleeps or leaves,
\* whichever of its exits it takes.
NothingUnwritten == pc \in {"asleep", "exited"} => ~unflushed

\* The daemon never outlives its event stream: whenever logcat dies, even
\* during a stop or with lines unread, the daemon leaves for its supervisor.
LogcatLossExits == logcat # "running" ~> pc = "exited"

\* A device that goes on logging, to a daemon that goes on catching up.
Traffic == []<>(pipe > 0) /\ []<>(pc = "asleep")

\* On such a device every child that exited is reaped, whatever
\* reaps_pending says of it.
ZombiesReaped ==
    Traffic => \A c \in Child : child[c] = "zombie" ~> child[c] # "zombie" \/ pc = "exited"

\* On such a device a stop request is honoured wherever it lands.
StopHonouredUnderTraffic == Traffic => (~RUNNING ~> pc = "exited")

-----------------------------------------------------------------------------
(* What the comments and documents promise of the reactor.                 *)

\* The sleep is bounded while a dispatched child is unreaped
\* (docs/ARCHITECTURE.md section 1, kill.rs reap_terminated_children).
SleepBoundedUntilReaped ==
    pc = "asleep" /\ timeout = "unbounded" => \A c \in Child : child[c] = "absent"

\* A stop signal leads to a clean shutdown also on a device that has fallen
\* quiet, where no line will wake the reactor (docs/ARCHITECTURE.md section 1).
StopHonoured == <>[](pipe = 0) => (~RUNNING ~> pc = "exited")
=============================================================================
