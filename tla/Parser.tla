------------------------------- MODULE Parser -------------------------------
(***************************************************************************)
(* The event parser (parser.rs): what a line of `logcat -v epoch` means to *)
(* the daemon.                                                             *)
(*                                                                         *)
(* A line is a sequence of symbols <<kind, value...>>, a symbol being      *)
(* the longest run of characters no rule of the parser takes apart:        *)
(*                                                                         *)
(*   stamp <<s, f>>    the leading epoch field: seconds and fraction digits *)
(*   tag g             "g:", the end of the header                          *)
(*   num n, neg n      a decimal number; the same with a minus sign        *)
(*   name k, sub k n   a process name: a package, a "package:service" n    *)
(*   word w, text w    a word of letters; text no process name looks like  *)
(*   comp k, cmp k     a component "k/act"; an intent's "cmp=k/act"; both  *)
(*                     take an n too, when a "package:service" is before / *)
(*   badcomp w         a component whose package is no process name        *)
(*   , [ ] { } --- CR LF bad   themselves; bad is not UTF-8                 *)
(*                                                                         *)
(* Spaces are left out: every rule trims them, and the one that looks for  *)
(* them inside a token looks for two words side by side.                   *)
(***************************************************************************)
EXTENDS Integers, Sequences, SequencesExt

CONSTANTS
    TokenSlots,     \* the tokens a payload is cut into (8)
    MaxMs           \* the largest time in milliseconds (u64::MAX)

ASSUME TokenSlotsAssumption == TokenSlots \in Nat \ {0, 1, 2, 3}
ASSUME MaxMsAssumption == MaxMs \in Nat

\* No event: the line is not one of the daemon's, or is malformed.
Ignored == [tag |-> "none"]

Sym(kind) == <<kind, "">>

Kind(sym) == sym[1]

Trimmed(s, kinds) ==
    LET kept == {i \in DOMAIN s : Kind(s[i]) \notin kinds}
    IN  IF kept = {} THEN <<>>
        ELSE SubSeq(s, CHOOSE i \in kept : \A j \in kept : i <= j,
                       CHOOSE i \in kept : \A j \in kept : i >= j)

\* The positions of s that pass a test, in order.
Positions(s, Test(_)) == SelectSeq([i \in DOMAIN s |-> i], Test)

-----------------------------------------------------------------------------
(* Tokens.                                                                 *)

\* The brace depth behind position i, never negative.
Depth(s) ==
    LET depth[i \in 0..Len(s)] ==
          IF i = 0 THEN 0
          ELSE IF Kind(s[i]) = "{" THEN depth[i - 1] + 1
          ELSE IF Kind(s[i]) = "}" /\ depth[i - 1] > 0 THEN depth[i - 1] - 1
          ELSE depth[i - 1]
    IN  depth

\* Mutant: braces do not protect the commas inside them.
TokensAtEveryComma(s) ==
    LET cuts == <<0>> \o Positions(s, LAMBDA i : Kind(s[i]) = ",") \o <<Len(s) + 1>>
        n == IF Len(cuts) - 1 < TokenSlots THEN Len(cuts) - 1 ELSE TokenSlots
    IN  [i \in 1..n |-> SubSeq(s, cuts[i] + 1, cuts[i + 1] - 1)]

\* The payload cut at the commas outside braces; the tokens beyond the last
\* slot are dropped.
tokenize(s) ==
    LET depth == Depth(s)
        cuts == <<0>> \o Positions(s, LAMBDA i : Kind(s[i]) = "," /\ depth[i] = 0) \o <<Len(s) + 1>>
        n == IF Len(cuts) - 1 < TokenSlots THEN Len(cuts) - 1 ELSE TokenSlots
    IN  [i \in 1..n |-> SubSeq(s, cuts[i] + 1, cuts[i + 1] - 1)]

Payload(s) == Trimmed(s, {"[", "]"})

Is(tok, kinds) == Len(tok) = 1 /\ Kind(tok[1]) \in kinds

Number(tok) == Is(tok, {"num"})

Positive(tok) == Number(tok) /\ tok[1][2] > 0

is_proc_name(tok) == Is(tok, {"name", "sub", "word"})

\* What a process name begins with, up to its colon.
PackageOf(sym) == sym[2]

\* The whole name, colon and all: what a component has before its slash.
NameOf(sym) == sym[Len(sym)]

-----------------------------------------------------------------------------
(* The five kinds of line.                                                 *)

HasSlash(tok) == \E i \in DOMAIN tok : Kind(tok[i]) \in {"comp", "cmp", "badcomp"}

\* The first token with a component, or else the fourth.
RawComponent(toks) ==
    LET slashed == SelectSeq(toks, HasSlash)
    IN  IF slashed # <<>> THEN slashed[1]
        ELSE IF Len(toks) >= 4 THEN toks[4] ELSE <<>>

FirstOf(s) == IF s = <<>> THEN <<>> ELSE <<s[1]>>

\* The component inside: an intent's cmp, or the first word with a slash.
CleanComponent(raw) ==
    LET bare == Trimmed(raw, {"{", "}"})
        cmp == SelectSeq(bare, LAMBDA sym : Kind(sym) = "cmp")
        spaced == \E i \in 1..(Len(bare) - 1) : "," \notin {Kind(bare[i]), Kind(bare[i + 1])}
    IN  IF cmp # <<>> THEN FirstOf(cmp)
        ELSE IF spaced THEN FirstOf(SelectSeq(bare, LAMBDA sym : HasSlash(<<sym>>)))
        ELSE bare

parse_resume_activity(payload) ==
    LET comp == CleanComponent(RawComponent(tokenize(Payload(payload))))
    IN  IF Is(comp, {"comp", "cmp"}) \/ is_proc_name(comp)
        THEN [tag |-> "resume", pkg |-> NameOf(comp[1])]
        ELSE Ignored

NoToken == <<>>

TokenAt(toks, i) == IF i \in DOMAIN toks THEN toks[i] ELSE NoToken

Started(pid, uid, name, type) ==
    IF Positive(pid) /\ is_proc_name(name)
    THEN [tag |-> "start", pid |-> pid[1][2], pkg |-> PackageOf(name[1]),
          uid |-> IF Number(uid) THEN uid[1][2] ELSE 0,
          top |-> Is(type, {"text"}) /\ type[1][2] \in {"top-activity", "next-top-activity"}]
    ELSE Ignored

\* The shifted schemas of vendors: behind the first token, the first positive
\* number is the pid and the next the uid; the first token that begins like
\* neither a number nor a component is the process name.
ShiftedStart(toks) ==
    LET numbers == SelectSeq(Tail(toks), Positive)
        named(tok) == tok # NoToken /\ ~Number(tok) /\ Kind(tok[1]) \notin {"neg", "{", "---"}
        at == SelectInSeq(toks, named)
    IN  IF at = 0 THEN Ignored
        ELSE Started(TokenAt(numbers, 1), TokenAt(numbers, 2), toks[at], TokenAt(toks, at + 1))

parse_proc_start(payload) ==
    LET toks == tokenize(Payload(payload))
    IN  IF Len(toks) < 4 THEN Ignored
        ELSE IF Number(toks[2]) /\ Number(toks[3])
        THEN Started(toks[2], toks[3], toks[4], TokenAt(toks, 5))
        ELSE ShiftedStart(toks)

\* Mutant: the first positive number is taken for the pid.
FirstNumberDied(payload) ==
    LET pids == SelectSeq(tokenize(Payload(payload)), Positive)
    IN  IF pids = <<>> THEN Ignored ELSE [tag |-> "died", pid |-> pids[1][1][2]]

\* The pid is the first positive number right before a process name.
parse_proc_died(payload) ==
    LET toks == tokenize(Payload(payload))
        found == {i \in 1..(Len(toks) - 1) : Positive(toks[i]) /\ is_proc_name(toks[i + 1])}
    IN  IF found = {} THEN Ignored
        ELSE LET i == CHOOSE i \in found : \A j \in found : i <= j
             IN  [tag |-> "died", pid |-> toks[i][1][2]]

parse_screen_toggled(payload) ==
    LET s == Payload(payload)
    IN  IF Number(s) /\ s[1][2] \in {0, 1}
        THEN [tag |-> "screen", on |-> s[1][2] = 1]
        ELSE Ignored

parse_device_idle_light_step(payload) ==
    IF Payload(payload) = <<>> THEN [tag |-> "doze"] ELSE Ignored

\* Mutant: the fraction is read as a number of milliseconds, whatever its length.
FractionUnscaled(secs, frac) ==
    LET value[i \in 0..Len(frac)] == IF i = 0 THEN 0 ELSE 10 * value[i - 1] + frac[i]
    IN  secs * 1000 + value[Len(frac)]

\* The stamp in milliseconds, from its first three fraction digits.
parse_epoch_ms(secs, frac) ==
    LET digit(i) == IF i \in DOMAIN frac THEN frac[i] ELSE 0
    IN  secs * 1000 + 100 * digit(1) + 10 * digit(2) + digit(3)

\* What a line says: the time of its header and the event of its payload.
parse_logcat_line(s) ==
    IF Len(s) < 2 \/ Kind(s[1]) # "stamp" \/ Kind(s[2]) # "tag" THEN Ignored
    ELSE LET tag == s[2][2]
             payload == SubSeq(s, 3, Len(s))
             now == parse_epoch_ms(s[1][2][1], s[1][2][2])
             event ==
               CASE tag = "am_proc_start" -> parse_proc_start(payload)
                 [] tag = "am_proc_died" -> parse_proc_died(payload)
                 [] tag \in {"wm_resume_activity", "am_resume_activity"} ->
                      parse_resume_activity(payload)
                 [] tag = "screen_toggled" -> parse_screen_toggled(payload)
                 [] tag = "device_idle_light_step" -> parse_device_idle_light_step(payload)
                 [] OTHER -> Ignored
         IN  IF event = Ignored \/ now > MaxMs THEN Ignored ELSE event @@ [ts |-> now]
=============================================================================
