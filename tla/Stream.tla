------------------------------- MODULE Stream -------------------------------
(***************************************************************************)
(* From the pipe of logcat to the events the daemon handles: run() reads   *)
(* the pipe in pieces that respect no line, drain_logcat_lines cuts the    *)
(* buffer at the line feeds and dispatch_logcat_line parses each line.     *)
(*                                                                         *)
(* A line that logcat may write is a record of its text and of the event   *)
(* it was written for, so what the parser makes of it is compared with     *)
(* what the framework meant.                                               *)
(***************************************************************************)
EXTENDS Parser, FiniteSets

CONSTANTS
    Line,       \* the lines logcat may write: [text, event]
    ReadMax,    \* the symbols one read(2) returns at most (4096 bytes)
    BufCap,     \* the unfinished line that is kept at most (8192 bytes)
    MaxLines    \* bound: the lines written

\* What one read returns fits into the buffer.
ASSUME SizeAssumption ==
    ReadMax \in Nat \ {0} /\ BufCap \in Nat /\ ReadMax <= BufCap /\ MaxLines \in Nat

\* A line has no line end inside, and its stamp only in front.
ASSUME LineAssumption ==
    \A line \in Line :
        /\ line.text \in Seq(Range(line.text))
        /\ \A i \in DOMAIN line.text :
             /\ Kind(line.text[i]) \notin {"CR", "LF"}
             /\ Kind(line.text[i]) = "stamp" => i = 1

VARIABLES
    pipe,           \* the bytes logcat has written and the daemon has not read
    logcat_buf,     \* the unfinished line
    lines,          \* history: the lines written
    handled         \* history: the events given to the handlers

vars == <<pipe, logcat_buf, lines, handled>>

LF == Sym("LF")

Init ==
    /\ pipe = <<>>
    /\ logcat_buf = <<>>
    /\ lines = <<>>
    /\ handled = <<>>

\* logcat writes a line, whose end a pseudo-terminal may have made CR LF.
LogcatWrites(line) ==
    /\ Len(lines) < MaxLines
    /\ lines' = Append(lines, line)
    /\ \E ending \in {<<LF>>, <<Sym("CR"), LF>>} : pipe' = pipe \o line.text \o ending
    /\ UNCHANGED <<logcat_buf, handled>>

-----------------------------------------------------------------------------
\* The line between two line feeds, without its carriage return.
Stripped(s) == IF s # <<>> /\ s[Len(s)] = Sym("CR") THEN SubSeq(s, 1, Len(s) - 1) ELSE s

\* Headers of logcat, empty lines and lines that are not UTF-8 are passed over.
Readable(s) ==
    /\ s # <<>>
    /\ s[1] # Sym("---")
    /\ Sym("bad") \notin Range(s)

\* What a line gives to the handlers: an event or nothing.
Said(line) ==
    LET event == parse_logcat_line(Stripped(line))
    IN  IF Readable(Stripped(line)) /\ event # Ignored THEN <<event>> ELSE <<>>

\* Where the last line that ends within the first n bytes of a buffer ends.
last_newline(s, n) ==
    CHOOSE i \in 0..n : (i = 0 \/ s[i] = LF) /\ \A j \in (i + 1)..n : s[j] # LF

\* The events of the lines that are complete at each byte of a buffer.
Handed(s) ==
    LET handed[i \in 0..Len(s)] ==
          IF i = 0 THEN <<>>
          ELSE IF s[i] # LF THEN handed[i - 1]
          ELSE handed[i - 1] \o Said(SubSeq(s, last_newline(s, i - 1) + 1, i - 1))
    IN  handed

\* What the complete lines of a buffer say.
EventsIn(s) == Handed(s)[Len(s)]

\* The unfinished line.
Residue(s) == SubSeq(s, last_newline(s, Len(s)) + 1, Len(s))

\* Mutant: the buffer is emptied once its complete lines are handled.
ResidueDropped(s) == IF last_newline(s, Len(s)) # 0 \/ Len(s) > BufCap THEN <<>> ELSE s

\* Mutant: an unfinished line is kept however long it grows.
NeverDiscarded(s) == Residue(s)

\* What the buffer keeps: the unfinished line, unless nothing was finished and
\* it is oversized.
Kept(s) == IF last_newline(s, Len(s)) = 0 /\ Len(s) > BufCap THEN <<>> ELSE Residue(s)

drain_logcat_lines(incoming) ==
    LET s == logcat_buf \o incoming
    IN  /\ handled' = handled \o EventsIn(s)
        /\ logcat_buf' = Kept(s)

\* One read(2) of the pipe, which returns some of what is in it.
Read(n) ==
    /\ n <= Len(pipe)
    /\ pipe' = SubSeq(pipe, n + 1, Len(pipe))
    /\ drain_logcat_lines(SubSeq(pipe, 1, n))
    /\ UNCHANGED lines

Next ==
    \/ \E line \in Line : LogcatWrites(line)
    \/ \E n \in 1..ReadMax : Read(n)

Spec == Init /\ [][Next]_vars

-----------------------------------------------------------------------------
(* Properties.                                                             *)

\* The buffer stays within its bound whatever arrives, and holds nothing that
\* could have been handled (daemon.rs:592-598).
TypeOK ==
    /\ Len(logcat_buf) <= BufCap
    /\ LF \notin Range(logcat_buf)
    /\ Len(lines) <= MaxLines
    /\ Len(handled) <= Len(lines)

\* How many lines are finished: those whose line feed has been read.
Finished == Len(lines) - Cardinality({i \in DOMAIN pipe : pipe[i] = LF})

Oversized(line) == Len(line.text) >= BufCap

\* The events of the first lines, as many as asked for, without those lost.
Meant(written, lost) ==
    LET meant[n \in 0..Len(written)] ==
          IF n = 0 THEN <<>>
          ELSE IF n \in lost \/ written[n].event = Ignored THEN meant[n - 1]
          ELSE Append(meant[n - 1], written[n].event)
    IN  meant

\* Wherever read(2) cuts the stream, the events handled are those the finished
\* lines were written for, once each and in order; only a line that does not
\* fit the buffer may be lost, and what is left of it is never taken for an
\* event of its own (daemon.rs:574-600 with parser.rs).
EventsAsWritten ==
    \E lost \in SUBSET {i \in 1..Finished : Oversized(lines[i])} :
        handled = Meant(lines, lost)[Finished]
=============================================================================
