------------------------------ MODULE Telemetry ------------------------------
(***************************************************************************)
(* The telemetry sink (telemetry.rs): operations.log, its buffer in user   *)
(* space and its rotation.                                                 *)
(*                                                                         *)
(* A sink is a record: the files `log` and `old`, whether the writer is    *)
(* open, what it buffers, and the bytes the sink believes the file holds.  *)
(* Every record is one byte long.  Any system call may fail, so an         *)
(* operation maps a sink to the set of sinks it may leave behind, and      *)
(* operations are composed with Then.                                      *)
(*                                                                         *)
(* emitted counts the records given to an open sink, failed the calls that *)
(* failed and stuck the renames among them.                                *)
(***************************************************************************)
EXTENDS Integers, Sequences

CONSTANTS
    MaxFaults,  \* bound: the system calls that fail
    Cap,        \* ROTATION_THRESHOLD_BYTES (512 KiB)
    BufferCap   \* the records the BufWriter holds (8192 bytes)

ASSUME TelemetryAssumption ==
    /\ MaxFaults \in Nat
    /\ Cap \in Nat \ {0, 1}
    /\ BufferCap \in Nat \ {0}

\* The files as some earlier daemon left them, held by nobody.
Released(s) == [s EXCEPT !.open = FALSE, !.buffer = <<>>, !.bytes_written = 0]

NoFiles ==
    [log |-> <<>>, old |-> <<>>, open |-> FALSE, buffer |-> <<>>, bytes_written |-> 0,
     emitted |-> 0, failed |-> 0, stuck |-> 0]

Then(sinks, Op(_)) == UNION {Op(s) : s \in sinks}

\* The sinks after a call that may fail, marked as such if it does.
Attempt(done, failing) ==
    {done} \cup {[s EXCEPT !.failed = @ + 1] : s \in {t \in failing : t.failed < MaxFaults}}

\* Push the buffer to the file; write(2) may take only a part of it.
flush(s) ==
    IF ~s.open \/ s.buffer = <<>> THEN {s}
    ELSE LET pushed(n) == [s EXCEPT !.log = @ \o SubSeq(s.buffer, 1, n),
                                    !.buffer = SubSeq(s.buffer, n + 1, Len(s.buffer))]
         IN  Attempt(pushed(Len(s.buffer)), {pushed(n) : n \in 0..(Len(s.buffer) - 1)})

\* Mutant: what could not be written outlives its writer.
CloseRemembering(s) == Then(flush(s), LAMBDA t : {[t EXCEPT !.open = FALSE]})

\* writer = None: dropping a BufWriter flushes it once more and forgets it.
Close(s) ==
    Then(flush(s), LAMBDA t : {[t EXCEPT !.open = FALSE, !.buffer = <<>>]})

\* Mutant: the file is opened for writing, not for appending.
OpenTruncating(s) ==
    Attempt([s EXCEPT !.open = TRUE, !.log = <<>>], {[s EXCEPT !.open = FALSE]})

open_file(s) ==
    Attempt([s EXCEPT !.open = TRUE], {[s EXCEPT !.open = FALSE]})

Rename(s) ==
    Attempt([s EXCEPT !.old = s.log, !.log = <<>>], {[s EXCEPT !.stuck = @ + 1]})

\* A failed rename leaves the file to be appended to, and a failed open
\* leaves no writer; the count starts again in either case.
rotate(s) ==
    LET closed == Then(Then(flush(s), Close), Rename)
    IN  Then(Then(closed, open_file), LAMBDA t : {[t EXCEPT !.bytes_written = 0]})

\* Mutant: the size the sink remembers is trusted.
OpenTrusting(s) == IF s.bytes_written >= Cap THEN rotate(s) ELSE open_file(s)

\* The size is read again from the inode: the file may have changed hands.
open_log(s) ==
    LET seen == [s EXCEPT !.bytes_written = Len(s.log)]
    IN  IF Len(s.log) >= Cap THEN rotate(seen) ELSE open_file(seen)

with_stdout(files, log_enabled) ==
    LET sink == [files EXCEPT !.bytes_written = Len(files.log), !.emitted = 0]
    IN  IF log_enabled THEN open_log(sink) ELSE {sink}

set_log_enabled(s, on) ==
    IF on = s.open THEN {s}
    ELSE IF on THEN open_log(s)
    ELSE Then(flush(s), Close)

\* BufWriter: a full buffer is flushed first, and if that fails the record
\* is refused, which the sink passes over.
Buffered(s, r) ==
    LET append(t) == IF Len(t.buffer) < BufferCap
                     THEN {[t EXCEPT !.buffer = Append(@, r), !.bytes_written = @ + 1]}
                     ELSE {t}
    IN  IF Len(s.buffer) < BufferCap THEN append(s) ELSE Then(flush(s), append)

write_to_log(s, r) ==
    IF ~s.open THEN {s}
    ELSE Then(IF s.bytes_written + 1 >= Cap THEN rotate(s) ELSE {s},
              LAMBDA t : IF t.open THEN Buffered(t, r) ELSE {t})
=============================================================================
