# A verification development of mini-lmk

mini-lmk is a single-threaded Android daemon that reads lifecycle lines from
`logcat -b events`, keeps an idle age for every application, and evicts the
ones that have been idle too long. This directory holds TLA+ models of the
daemon, from the bytes of the log to the descriptors of the children it forks,
the TLC runs that check them on small instances, and the TLAPS proofs that
carry the results to every instance.

## 1. Inventory

| Component | State it keeps | Operations | Talks to |
|---|---|---|---|
| Daemon state, dispatch (`daemon.rs`) | `alive_apps`, pid tables, `pkg_to_uid`, `recent_deaths`, `fg_lru`, `current_fg`, screen and game sessions, `last_event_epoch`, config and lists | bootstrap, `dispatch_logcat_line`, `reload_configs` | handlers, pipeline, sink |
| Event handlers (`events.rs`) | (the same) | `on_resume_activity`, `on_proc_start`, `on_proc_died`, `on_screen_toggled`, clock compensation | pipeline |
| Reaping pipeline (`kill.rs`) | (the same) | `scan_candidates`, `dispatch_candidate` (SIGKILL or AMS) | `/proc`, spawner, sink |
| Reactor (`daemon.rs::run`, `main.rs`) | `RUNNING`, logcat child and pipe, epoll, inotify | epoll loop, signal handler, shutdown, `fatal` | everything |
| Spawner (`spawn.rs`) | backend, `reaps_pending`, `/dev/null`, argv staging | `spawn_kill`, `close_inherited`, `note_children_drained` | kernel |
| Configuration (`config.rs`, `load_file_lines`) | `RuntimeConfig`, the lists, the watch | default files, parse, clamp, watch, reload | operator, inotify |
| System components (`detect_system_components`) | `dynamic_exclusions` | queries of roles and settings at startup | `cmd` |
| Telemetry sink (`telemetry.rs`) | buffered writer, bytes written | emit, flush, rotate, log switch | file system |
| Line framing and parser (`daemon.rs`, `parser.rs`) | the unfinished line | cut, tokenize, parse | logcat, dispatch |
| procfs, probe, hasher | none | readers, startup probes | kernel |
| Supervisor (`run-daemon.sh`) | none | restart after 2 s | the daemon |
| spawnprobe (`src/tools/spawnprobe`) | - | a stand-alone tool that measures launches | - |

The handlers are calls on one thread, so the interleavings inside the daemon
are few. What is concurrent is around it: signals land between any two steps,
children exit and logcat dies on their own, configuration files change while
lines are in flight, `/proc` moves under the scan, the wall clock steps under
all stored times, and the log may lose, delay or reorder lines. The hard
behaviours are therefore: idle ages that survive clock steps; two process
tables kept in step through pid reuse and lost deaths; a foreground history
edited in several places of one handler; a decision to evict that is taken
once; a reactor that neither loses a stop request, nor a child, nor a record;
tables that recover from lost lines; a reload that races its own edits; a log
that rotates, fails, is switched and outlives its daemons; lines cut anywhere.

`PROJECT.json` lists these as hazards at their lines, with the properties that
cover them.

## 2. Modules

| Module | Models | Actions |
|---|---|---|
| `DaemonState` | the fields of `DaemonState`, saturating arithmetic, `clock_jump_ms`, `apply_clock_jump`, `is_excluded` | |
| `Kill` | the pipeline: effective depth, effective idle ceiling, gates, reconciliation, dispatch | |
| `Events` | the handlers, each with the compensation done for its line | `on_resume_activity`, `on_proc_start`, `on_proc_died`, `on_screen_toggled` |
| `Daemon` | bootstrap, Doze heartbeat, reload, the specification, its types and invariants | `dispatch_logcat_line`, `reload_configs` |
| `IdleAge` | `Daemon` with two history variables: real time since last use, packages already dispatched | the same, recorded |
| `Documented` | statements of the documents about `Daemon`, with the time the foreground was entered as a history variable | the same, recorded |
| `Dispatch` | one candidate's dispatch, one look at one pid at a time: gate, revalidation, SIGKILL or AMS, the record | `ReadAdj`, `Decide`, `CheckUid`, `CheckAdj`, `Delivered`, `Vanished`, `Refused`, `spawn_kill`; the device's processes exit, start and change priority |
| `System` | `Daemon` beside the kernel's process table and an event log that starts late and loses lines | `Forks`, `Exits`, `LogsOther`, `Loses`; `SeedEntry`, `Attaches`, `Hears`, `HearsOther` |
| `Reclaim` | the abstract promise: packages rest, and only tracked, rested, unshielded ones are evicted, a burst at a time | `Observe`, `Reconfigure` |
| `Spawner` | the backend, the checks before the fork, the child's descriptor table up to `execve`, as functions to the set of outcomes | |
| `Reactor` | the epoll loop, the signal handler, children, log buffer | one action per step of `run`; signals, logcat, children and files around it |
| `Parser` | the tokenizer and the five parsers, as functions of sequences of symbols | |
| `Stream` | the pipe, `drain_logcat_lines` and the parser behind it | `LogcatWrites`, `Read` |
| `Configuration` | what `daemon.conf`, the lists and the answers to the queries mean, as functions | |
| `ConfigReload` | start and reload, one system call at a time, against an operator | `ensure_default_files`, `Wake`, `drain`, `Watch`, `ReadConf`, `ReadExclude`, `ReadGames`, `Detect`; writes in place, renames, deletions, a file moved out of the directory, the directory removed and replaced |
| `Telemetry` | the sink, as functions from a sink to the sinks that failing system calls may leave | |
| `Lifecycle` | initialisation, records, reloads, exits and restarts, as `operations.log` tells them | `Start`, `fatal_exit`, `FirstReload`, `LogcatSpawned`, `run`, `StartupFlushed`, `Event`, `reload_configs`, `ReloadSettled`, `EndBatch`, `ReactorFails`, `fatal`, `Shutdown`; `Sigkill`, edits |
| `Daemon_proofs`, `IdleAge_proofs`, `System_proofs`, `Dispatch_proofs`, `Reactor_proofs`, `ConfigReload_proofs`, `Lifecycle_proofs`, `Stream_proofs` | lemmas and theorems | |
| `MCDaemon`, `MCIdleAge`, `MCSystem`, `MCDocumented`, `MCDispatch`, `MCReactor`, `MCStream`, `MCConfigReload` | the instances of the runs (`Lifecycle` needs none) | |

Each module extends the one above it up to `Daemon`; `IdleAge`, `System` and
`Documented` extend `Daemon`. `IdleAge` also instantiates `Reclaim` under the
refinement mapping that makes `alive_apps` the packages that may be evicted,
`pass` the evictions, the recorded real time the rest, and the exclusion lists
the shield. `Dispatch` extends `Spawner`, `Stream` extends `Parser`,
`ConfigReload` extends `Configuration`, `Lifecycle` extends `Telemetry`.
`Dispatch` opens up the step that `Kill` takes as
one: `Kill` says what a dispatch writes to the daemon's tables, whichever
processes turned out protected; `Dispatch` what it does to the processes while
they move. `Reactor` stands apart: what a line makes the
daemon decide does not matter to the loop, and how the loop was woken does not
matter to a handler. There a line forks some children and may buffer a record.

How state and actions correspond to the code:

- A map is a total function; `None` is an absent key. A package absent from
  `pkg_to_pids` and one whose set is empty are both `{}`.
- A handler is one atomic step, clock compensation and pipeline included. The
  pipeline is the last call of each handler that makes it, so it reads the
  primed values the handler has just written.
- `/proc` is read anew by every pass: which pids have a resident set, whether
  memory is critical, which candidates turn out protected are chosen freely.
  Resident set sizes only order the candidates, so any of the expired packages
  with a live process may be the heaviest.
- `pass` records the dispatches of the last handler; the code has no such field.
- `bg_pending` stands for `bg_spawns > 0 || bg_deaths > 0`.
- A uid is `"app"` (at least 10000) or `"system"`.
- Lines carry any stamp of `Epoch`: forward, backward, equal, out of the
  pre-sync band, and 0.
- In `Dispatch`, `pc` is the loop the daemon is in (`gate`, then `uid` and `adj`
  for the two reads of a revalidation, `signal`) and `next` its position in
  `live_pids`. An `oom_score_adj` is one of the three bands the code compares
  with: below 500, below 900, cached. A pid may hold a process of any package
  from the start: its death and reuse may not have been logged yet, or the
  death may have been lost. A signalled process is gone at once.
- In `Reactor`, `pc` is the place in `run`: `top` (before the test of
  `RUNNING`), `entering` (after it, before the sleep), `asleep`, `woken`,
  `handling`, `stopping`, `exited`. logcat closes its pipe before it becomes a
  zombie, so a hang-up can be seen before the child can be reaped. The read of
  a non-blocking pipe does not return EINTR, so that branch is left out.

- `System`: a start or a death is logged because it happened. `unheard` holds
  the pids whose last start or death will not be heard of: it happened between
  the look at the pid in `/proc` and the attachment of `logcat -T 1`, or logd
  dropped it. The daemon keeps nothing on disk, so a restart is a behaviour that
  begins at `SystemInit`, which admits every process table.
- `Parser`: a symbol stands for the longest run of characters that no rule of
  the parser takes apart. The rules themselves - braces, slots, adjacency, the
  positions of the standard schema and the search of the shifted ones - are the
  code's. A line of `Stream` carries the event it was written for.
- `ConfigReload`: `pc` is the next system call; an edit may come between any
  two. `pending` is one bit because the code drains the queue to EAGAIN. The
  mask of the watch (`daemon.rs:300`) decides which edits set it: all but a file
  that is moved to another directory (`MoveOut`), since the mask has no
  `IN_MOVED_FROM`. `moved_out` keeps such files until they are read again.
- `Lifecycle`: `conf` is what the files say, `config` what is in force. A record
  is one byte long, and carries its daemon, its number and what it announces.
  A step is a call of the daemon on its sink, so `Sigkill` may fall between any
  two of them: the emission of a configuration record (`reload_configs`, `run`,
  `fatal`) and the flush or close that follows it (`ReloadSettled`,
  `StartupFlushed`) are separate steps, with the phases `announcing`, `starting`
  and `failing` between them, and the startup record is held in memory from
  `FirstReload` on. A kill inside one call on the sink, between two of its system
  calls, is not modelled separately.
- `IdleAge`: a package's real time starts anew when a handler comes to track it,
  also if the pipeline of the same handler evicts it again, which a `t_idle_sec`
  of 0 allows.
- A launch is a set of outcomes rather than a sequence of steps: a child runs
  beside the daemon and shares nothing with it after `fork`.

Definitions whose comment begins with "Mutant:" are deliberately wrong versions
of the definition that follows; no specification uses them. Each shows that a
property of a run would notice such a mistake.

## 3. Runs

| Run | Instance | Shows |
|---|---|---|
| `clock` | 1 package, 1 pid, stamps 0..3 around a floor of 2, a game, memory check on and off | `SessionsPaired`, `AnchorsInPast` |
| `idle_age` | 2 packages, 1 pid, stamps 0..3, floor 2, at most 2 units of real time; reloads between ceilings 0 and 2, history depths 1 and 2, and an empty and a full exclusion list | `IdleAgeHonest`, `NeverRushed`, `SignalledOnce`, `ForegroundLeadsHistory`, and that `Reclaim` is implemented |
| `system` | 2 packages, 2 pids, 2 lines in the stream | `ForwardExact`, `SetsExact`, `ForwardIndexSound` through late attachment, lost lines, pid reuse and the purge of dead pids |
| `dispatch` | candidates of 1 or 2 of 2 pids; an application, an excluded application and the system; descriptors 0..6 | `JustifiedSignals`, `RecordTells`, `ChildIsolated` |
| `reactor` | 2 children, 2 lines | `NothingUnwritten`, `LogcatLossExits`, `ZombiesReaped`, `StopHonouredUnderTraffic` |
| `lifecycle` | 2 daemons, a cap of 4 records, a buffer of 2, 2 failing calls, 2 edits | `CapHeld`, `OrderedLog`, `NothingLost`, `SwitchesAnnounced` |
| `reload` | 3 edits, told of by inotify or not, 3 contents of `daemon.conf`, 2 of the lists, 2 assignments of roles, failing queries and watches | `InForce`, `DefaultsShielded`, `EditsTakeEffect` |
| `stream` | 2 lines of 30 shapes, LF or CR LF, reads of up to 12 symbols | `EventsAsWritten` |

Sizes, in distinct states after symmetry (counts of the runs with symmetry vary
a little with the order of the search): `clock` 35 thousand, `idle_age` 109
thousand, `system` 62 thousand, `dispatch` 458 thousand, `reactor` 21 thousand,
`lifecycle` 1.2 million, `reload` 1.0 million, `stream` 85 thousand. Each
takes between ten seconds and three minutes on two workers.

Four more runs end in a counterexample, each to a sentence of the documents or
of a comment (section 5).

Bounds. A second is one unit of time and the thresholds are scaled down in the
order they have in the code, so that every branch on them is taken within a few
units: the pre-sync floor lies inside the range of stamps, the idle ceilings
differ, trampolines, expired deaths and deep harvest all occur. In `idle_age`
the shortest ceiling is 0 under one configuration, so that a package may be
evicted by the handler that comes to track it, and 1 under the other; a reload
lowers the depth of the history under two entries, and shields both packages or
neither. Two packages
suffice for the tables and the shield because every clause of the invariants
speaks of at most two packages and two pids; a history of depth 1 loses its
entries with two packages already. In `system` the clock stands still: memory
pressure makes every tracked package expired, so passes purge and dispatch at
any time, and a stream of two lines holds a start and a death of one pid or of
two. A log of fewer than four records is rotated several times by each of two
daemons, and a buffer of two is both flushed by itself and left over; two
failing calls let a flush, a rename and a reopen fail one after the other.
Three edits remove and reinstall the directory and still edit a file in it.
Two lines show every way in which a residue meets the next line, and 12 symbols
are more than half of the longest line, so reads cut within and across lines;
one shape outgrows the buffer. Two pids show every order of a look at one and a change at the
other; the dispatch ends, so its runs need no further bound. `MaxAge` and `MaxEpoch` bound the clocks, `MaxLines` the lines in
the pipe, `Child` the children that exist at once; the pool of children is
reused after reaping. Views drop only variables that nothing but telemetry
reads. Symmetry is used in runs without liveness properties.

Fairness. `Reactor` has weak fairness of the daemon's own thread, which the
kernel's scheduler gives to a runnable process; nothing is assumed of signals,
children, logcat or files there. Where a property needs a device that goes on
logging, the property says so (`Traffic`), together with the assumption that
the daemon goes on catching up, which a loop that reads to EAGAIN needs.
`ConfigReload` has weak fairness of the daemon's next call and of the close of
a file that is being written, since an editor that never closes its file never
causes the event the daemon waits for. Edits, failures and everything else are
never forced.

## 4. Proofs

For every value of the constants that satisfies the named assumptions of
`DaemonState`, `IdleAge`, `System`, `Spawner`, `Dispatch`, `Reactor`,
`Configuration`, `ConfigReload`, `Telemetry`, `Parser` and `Stream`:

- `Daemon_proofs`: `TypeCorrect`, `ForwardIndexCorrect`, `HistoryCorrect`,
  `SessionsCorrect`, `AnchorsCorrect`. The argument is the same for each: a
  lemma says what a pass of the pipeline leaves of the invariant whatever
  `/proc` shows, a lemma per handler applies it to the tables that handler
  passes in, and a temporal step closes the induction. Types are proved first
  and are a hypothesis of all the others. The history theorem is stronger than
  its invariant suggests: removing an entry and pushing one are shown to
  preserve both clauses for sequences of any length and any depth, 0 included.
- `IdleAge_proofs`: `AgesCorrect` and its corollaries `IdleAgeCorrect`,
  `NeverRushedCorrect`, `SignalledOnceCorrect`. `IdleAgeHonest` is not
  inductive as it stands: the ages are shifted by clock steps, so it needs the
  anchors in the past (else saturation hides an age), a clock that is never 0
  after the first line (else a step is not compensated), and the agreement of
  recorded and announced uids (else a departing package keeps an old anchor).
  `NeverRushed` follows from the invariant and the idle gate.
- `IdleAge_proofs` also holds `ReclaimImplemented`, the implementation of `Reclaim` by
  `IdleAge`. The initial states map to initial states, a line maps to `Observe`,
  a reload to `Reconfigure`. The step rests on the proved `AgeInv`
  (the rest of an evicted package is at least the shortest
  ceiling because its recorded age is), and on three facts: no situation asks for
  less than the shortest of the five ceilings; a pass takes as many packages
  as the burst allows; and all of them come from the working table of the
  handler, so an evicted package was tracked before the line or is the one the
  line brought into view, whose rest is 0. The count needs finitely many packages
  (`PkgAssumption`), which is all the theorem assumes beyond `IdleAge`.
- `Dispatch_proofs`, with its lemmas about `Spawner`: `DispatchTypeCorrect`,
  `JustifiedSignalsCorrect`, `RecordTellsCorrect`, `ChildIsolatedCorrect`. The
  last follows the descriptor table from the launcher through the redirection,
  the sweep of whatever kernel it is, and `execve`; that the probe distinguishes
  a sweep from another syscall needs that the cached `/dev/null` is above the
  standard streams, which is why the tables a daemon may inherit have all three
  open. The other three come from one invariant that says what the fast path knows
  in each of its places: which pids have been revalidated, that an untouched
  pid stays as it was found, that a vacant or passed pid has lost its scanned
  process. The history variables (what was signalled, what has ended, what has
  been touched) are what makes it inductive.
- `Reactor_proofs`: `ReactorTypeCorrect` (the count of children to reap never
  exceeds the children there can be; the induction needs that it never exceeds
  the unreaped ones, except after a fatal exit in the middle of reaping) and
  `LogWritten`.

- `System_proofs`: `SystemTypeCorrect`, `SystemIndexCorrect`,
  `SystemHistoryCorrect`, `ForwardExactCorrect`, `SetsExactCorrect`.
  `AttachedDaemon` shows that every step of the composition is a step of `Daemon`
  or leaves the daemon alone, so the results of `Daemon_proofs` carry over. That
  an entry `pid_to_pkg[p]` is true of the kernel is not inductive: `ForwardInv`
  adds that each line in flight tells the truth unless a later one of its pid
  does, that a pid the scan of `/proc` has yet to reach is unknown to the daemon,
  and that nothing is in flight before the attachment. For the reverse sets,
  `SetsInv` adds that starts and deaths of a pid alternate in the log, which is
  what makes the second start of a reused pid find its first life gone.
- `ConfigReload_proofs`: `ReloadTypeCorrect` (whatever a file says, what is in
  force is within its clamps, and a directory that is removed holds no file),
  `DefaultsShieldedCorrect`, `InForceCorrect`. The parse is proved on files of
  any length because it is stated in closed form: a key has the value of the last
  line that assigns it. `NoticeInv` says when a reload may be owed: a file that
  differs from what was read of it is being written, or its event is queued, or
  the call that will read it is still to come, or it was moved out of the
  directory, or the watch had failed. The last two are exceptions of `InForce`
  itself: the daemon cannot know of either.
- `Lifecycle_proofs`: `LifecycleTypeCorrect`, `CapHeldCorrect`,
  `OrderedLogCorrect`, `NothingLostCorrect`, `SwitchesAnnouncedCorrect`, for any
  number of daemons, any cap of two records or more and any buffer. Rotated log,
  current log and buffer are one `Story`, and each operation of the sink (emit,
  flush, rotate, switch) leaves a part of it in its order, a suffix if no call
  failed, and at most one record more. `CapHeld` needs `SinkInv`: an open
  sink knows the size of its file, short of it by at most one cap for each rename
  that failed. `OrderedLog` needs `StoryInv`: the records of a daemon are numbered
  in the order of the story and none has a number that was not given out; and
  while no call failed and nobody touched the log, the story has no gap and ends
  with the last record emitted. `NothingLost` needs besides `OwedInv` (a daemon
  that read a configuration with the log on has emitted a record when it goes on
  to its loop) and `BufferInv` (the buffer holds nothing while the reactor sleeps,
  and a configuration record only between its emission and its flush). What
  SIGKILL may lose is what the statement leaves: the events of a batch, a
  configuration record in that one step, and before it the startup record that
  is held in memory until `run()`. `SwitchesAnnounced` needs `SwitchInv`: the last announcement
  in the story is the state of the switch, unless a call has failed.
- `Stream_proofs`: `StreamTypeCorrect` (the bound of the buffer) and
  `EventsCorrect`, for reads, buffer and lines of any size and any number of
  lines. The invariant `StreamInv` is an account of the stream: the first k
  lines are finished, buffer and pipe together hold the others, each line up to
  its position in `cut`, and a negative `cut[k]` is the part of the line at the
  front that has been discarded, which only an oversized line suffers. A read
  moves the account on (`FramedBehind`), a written line extends it
  (`FramedLonger`), and what the lines between two accounts give to the handlers
  is what they say alone (`PieceSaid`, `HandedAt`). What the rest of a discarded
  line says is nothing, because it lacks its stamp (`SaidRest`). The recursive
  functions `Handed` and `Meant` are followed with `SetInduction`: induction over
  numbers, for the members of a set instead of a predicate, from the pigeonhole
  principle. `EventsCorrect` has one hypothesis, `Understood`: the parser makes of
  each line alone the event the line was written for. That is what the `stream`
  run shows of the 30 shapes, since each of them is also the first line of a
  behaviour; the theorem adds that framing keeps it true. Two assumptions
  concern the data: what one read returns fits into the buffer (4096 and 8192
  bytes, `SizeAssumption`), and a line has no line end inside and its stamp in
  front only (`LineAssumption`). Without the latter a process name made to look
  like a stamped line could be taken for one after the discard of what precedes
  it.

Model-checked only: the liveness properties of `Reactor` and `ConfigReload`,
which the prover does not reach; that the parser understands the lines, which
is shown of the shapes of the run; and the counterexamples.

Assumptions on the device in `IdleAge`, both the code's own: outside the steps
`clock_jump_ms` recognises, the clock shows elapsed time (the "known
limitation" its comment states; lines out of the order of their stamps break it
too, and age a package by the step back that is never undone), and the processes of one package agree on
being an application's or the system's.

## 5. Where the documents and the code disagree

- `sleep_bound`: the spawner's count is reset by every wake-up, although a
  child may still be running (`kill.rs:390`); the next sleep is then unbounded.
- `lost_stop`: a stop signal between the test of `RUNNING` and `epoll_wait` is
  not seen until something else wakes the daemon (`daemon.rs:655`). Under
  traffic it is honoured, which the `reactor` run shows.
- `shielded`: the revalidation checks uid and priority, not the package
  (`kill.rs:282`); a reused pid may be an excluded package's.
- `flash`: the stay of a departing package is measured from its idle anchor, so
  short returns are not recognised as trampolines (`events.rs:68`).

More are visible in the modules without a run of their own. Revalidation
and `kill(2)` are separate system calls, and all pids are revalidated before
the first is signalled (`kill.rs:286`), so a process promoted in between is
killed although `README.md:12` says "never"; `JustifiedSignals` says what holds
instead. A reload that lowers `fg_lru_max_depth` does not shorten the
history (`events.rs:95`), which `README.md:161` calls its maximum size. The tracker of
deaths exceeds its capacity when they are recent (`events.rs:236`;
`docs/ARCHITECTURE.md:156` calls it bounded). A start line's uid tracks a
package whose recorded uid is the system's (`events.rs:210`;
`docs/ARCHITECTURE.md:130` says only verified ones are tracked). The device's
default applications are asked for at startup only (`daemon.rs:219`;
`docs/ARCHITECTURE.md:99` says also on reloads), so one chosen later is not
shielded; `ChooseDefaults` of `ConfigReload` is that choice. And the comment of
`close_inherited` (`spawn.rs:378`) says that `std::process::Command` closes
inherited descriptors; it closes only those marked close-on-exec, which is why
`ChildIsolated` promises less of the std backend.

## 6. Plan

Built, in this order: `DaemonState`, `Kill`, `Events`, `Daemon` and the first
runs; the five invariants and their proofs; `IdleAge` and its proofs;
`Documented`; `Reactor` and its proofs; `Dispatch` and its proofs; `System`;
`Reclaim` and the proof that it is implemented; `Spawner` and its proofs;
`Parser` and `Stream`; `Telemetry` and `Lifecycle`; `Configuration` and
`ConfigReload`.

Proved since: `ForwardExact` and `SetsExact` of `System` (the tables against the
kernel, with the lines in flight); `DefaultsShielded` and `InForce` of
`ConfigReload`; the four properties of `Lifecycle`; the two of `Stream`. Every
safety property a passing run checks is now stated by a theorem. To follow:
`Understood` for families of lines (any numbers, any names) instead of the
shapes of the run.

## 7. Not modelled

- The hasher: maps are functions.
- `tools/spawnprobe`: a stand-alone tool that prints launch times measured on a
  device. It is not part of the daemon, and what it computes are timings.
- The text of `/proc`, of `dumpsys` and of the answers to queries: what is read
  from them is an input of the models.
- The rendering of records, tables and banners, and `game_intrusion_count` and
  the other counters that only records show.
- argv staging of `spawn.rs`, whose size is asserted at compile time, and the
  environment it passes on.
- The 2 s delay of the supervisor and its search for the binary.
