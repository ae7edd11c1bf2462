----------------------------- MODULE Stream_proofs -----------------------------
(***************************************************************************)
(* Proofs about module Stream, for lines of any kind and number and reads  *)
(* of any size: the buffer keeps its bound, and if the parser understands  *)
(* each line by itself, the events handled are those written.              *)
(***************************************************************************)
EXTENDS Stream, SequenceTheorems, FiniteSetTheorems, TLAPS

-----------------------------------------------------------------------------
(* Recursion.                                                              *)

\* Induction up to n for the members of a set: a set that holds 0 and, with
\* each number, the next, but not n, would map into itself without 0.
LEMMA SetInduction ==
    ASSUME NEW n \in Nat, NEW S, 0 \in S, \A m \in 0..(n - 1) : m \in S => m + 1 \in S
    PROVE  n \in S
<1> SUFFICES ASSUME n \notin S PROVE FALSE
  OBVIOUS
<1> DEFINE A == S \cap (0..n)
           B == A \ {0}
           next == [m \in A |-> m + 1]
<1>1. IsFiniteSet(A) /\ 0 \in A
  <2>1. IsFiniteSet(0..n) /\ A \subseteq 0..n /\ 0 \in A
    BY FS_Interval
  <2> QED
    BY <2>1, FS_Subset
<1>2. IsFiniteSet(B) /\ Cardinality(B) = Cardinality(A) - 1
  BY <1>1, FS_RemoveElement
<1>3. next \in [A -> B]
  OBVIOUS
<1>4. Cardinality(B) < Cardinality(A)
  BY <1>1, <1>2, FS_CardinalityType
<1>5. PICK x, y \in A : x # y /\ next[x] = next[y]
  <2> HIDE DEF A, B, next
  <2> QED
    BY <1>1, <1>2, <1>3, <1>4, FS_PigeonHole
<1> QED
  BY <1>5

\* The line feed last_newline finds.
IsLast(s, n, i) == /\ i \in 0..n
                   /\ i = 0 \/ s[i] = LF
                   /\ \A j \in (i + 1)..n : s[j] # LF

LEMMA LastNewline ==
    ASSUME NEW s, NEW n \in Nat
    PROVE  IsLast(s, n, last_newline(s, n))
<1> DEFINE S == {m \in Nat : \E i \in 0..m : IsLast(s, m, i)}
<1>1. 0 \in S
  BY DEF IsLast
<1>2. ASSUME NEW m \in 0..(n - 1), m \in S
      PROVE  m + 1 \in S
  <2>1. PICK i \in 0..m : IsLast(s, m, i)
    BY <1>2
  <2>2. CASE s[m + 1] = LF
    BY <2>2 DEF IsLast
  <2>3. CASE s[m + 1] # LF
    <3>1. IsLast(s, m + 1, i)
      BY <2>1, <2>3 DEF IsLast
    <3> QED
      BY <3>1
  <2> QED
    BY <2>2, <2>3
<1>3. n \in S
  <2> HIDE DEF S
  <2> QED
    BY <1>1, <1>2, SetInduction
<1>4. \E i \in 0..n : (i = 0 \/ s[i] = LF) /\ \A j \in (i + 1)..n : s[j] # LF
  BY <1>3 DEF IsLast
<1> QED
  BY <1>4 DEF IsLast, last_newline

\* A line feed behind which there is none is the last.
LEMMA LastNewlineIs ==
    ASSUME NEW s, NEW n \in Nat, NEW i, IsLast(s, n, i)
    PROVE  last_newline(s, n) = i
<1> DEFINE j == last_newline(s, n)
<1>1. IsLast(s, n, j)
  BY LastNewline
<1> HIDE DEF j
<1>2. i \in 0..n /\ j \in 0..n
  BY <1>1 DEF IsLast
<1>3. ~(i < j) /\ ~(j < i)
  BY <1>1, <1>2 DEF IsLast
<1> QED
  BY <1>2, <1>3 DEF j

\* What the recursion of Handed computes.
HandedStep(s, before, i) ==
    IF s[i] # LF THEN before
    ELSE before \o Said(SubSeq(s, last_newline(s, i - 1) + 1, i - 1))

LEMMA HandedDef ==
    ASSUME NEW s, Len(s) \in Nat
    PROVE  /\ Handed(s)[0] = <<>>
           /\ \A i \in 1..Len(s) : Handed(s)[i] = HandedStep(s, Handed(s)[i - 1], i)
<1> DEFINE Begins(f, m) == f[0] = <<>> /\ \A i \in 1..m : f[i] = HandedStep(s, f[i - 1], i)
           S == {m \in Nat : \E f : Begins(f, m)}
<1>1. 0 \in S
  <2>1. Begins([i \in 0..0 |-> <<>>], 0)
    OBVIOUS
  <2> QED
    BY <2>1
<1>2. ASSUME NEW m \in 0..(Len(s) - 1), m \in S
      PROVE  m + 1 \in S
  <2>1. PICK f : Begins(f, m)
    BY <1>2
  <2> DEFINE g == [i \in 0..(m + 1) |-> IF i = m + 1 THEN HandedStep(s, f[m], i) ELSE f[i]]
  <2>2. \A i \in 0..m : g[i] = f[i]
    OBVIOUS
  <2>3. g[m + 1] = HandedStep(s, f[m], m + 1)
    OBVIOUS
  <2> HIDE DEF g
  <2>4. Begins(g, m + 1)
    BY <2>1, <2>2, <2>3
  <2> QED
    BY <2>4
<1>3. Len(s) \in S
  <2> HIDE DEF S
  <2> QED
    BY <1>1, <1>2, SetInduction
<1>4. PICK f : Begins(f, Len(s))
  BY <1>3
<1> DEFINE g == [i \in 0..Len(s) |-> f[i]]
           body(h) == [i \in 0..Len(s) |->
             IF i = 0 THEN <<>>
             ELSE IF s[i] # LF THEN h[i - 1]
             ELSE h[i - 1] \o Said(SubSeq(s, last_newline(s, i - 1) + 1, i - 1))]
<1>5. g = body(g)
  BY <1>4 DEF HandedStep
<1>6. Handed(s) = body(Handed(s))
  <2>1. Handed(s) = CHOOSE h : h = body(h)
    BY DEF Handed
  <2> HIDE DEF body, g
  <2> QED
    BY <1>5, <2>1
<1> QED
  <2>1. Handed(s)[0] = <<>>
    BY <1>6
  <2>2. ASSUME NEW i \in 1..Len(s)
        PROVE  Handed(s)[i] = HandedStep(s, Handed(s)[i - 1], i)
    <3>1. i \in 0..Len(s) /\ i # 0
      OBVIOUS
    <3>2. Handed(s)[i] = body(Handed(s))[i]
      BY <1>6
    <3> QED
      BY <3>1, <3>2 DEF HandedStep
  <2> QED
    BY <2>1, <2>2

\* What the recursion of Meant computes.
MeantStep(written, lost, before, n) ==
    IF n \in lost \/ written[n].event = Ignored THEN before
    ELSE Append(before, written[n].event)

LEMMA MeantDef ==
    ASSUME NEW written, Len(written) \in Nat, NEW lost
    PROVE  /\ Meant(written, lost)[0] = <<>>
           /\ \A n \in 1..Len(written) :
                Meant(written, lost)[n] = MeantStep(written, lost, Meant(written, lost)[n - 1], n)
<1> DEFINE Begins(f, m) ==
             f[0] = <<>> /\ \A n \in 1..m : f[n] = MeantStep(written, lost, f[n - 1], n)
           S == {m \in Nat : \E f : Begins(f, m)}
<1>1. 0 \in S
  <2>1. Begins([i \in 0..0 |-> <<>>], 0)
    OBVIOUS
  <2> QED
    BY <2>1
<1>2. ASSUME NEW m \in 0..(Len(written) - 1), m \in S
      PROVE  m + 1 \in S
  <2>1. PICK f : Begins(f, m)
    BY <1>2
  <2> DEFINE g == [n \in 0..(m + 1) |->
                     IF n = m + 1 THEN MeantStep(written, lost, f[m], n) ELSE f[n]]
  <2>2. \A n \in 0..m : g[n] = f[n]
    OBVIOUS
  <2>3. g[m + 1] = MeantStep(written, lost, f[m], m + 1)
    OBVIOUS
  <2> HIDE DEF g
  <2>4. Begins(g, m + 1)
    BY <2>1, <2>2, <2>3
  <2> QED
    BY <2>4
<1>3. Len(written) \in S
  <2> HIDE DEF S
  <2> QED
    BY <1>1, <1>2, SetInduction
<1>4. PICK f : Begins(f, Len(written))
  BY <1>3
<1> DEFINE g == [n \in 0..Len(written) |-> f[n]]
           body(h) == [n \in 0..Len(written) |->
             IF n = 0 THEN <<>>
             ELSE IF n \in lost \/ written[n].event = Ignored THEN h[n - 1]
             ELSE Append(h[n - 1], written[n].event)]
<1>5. g = body(g)
  BY <1>4 DEF MeantStep
<1>6. Meant(written, lost) = body(Meant(written, lost))
  <2>1. Meant(written, lost) = CHOOSE h : h = body(h)
    BY DEF Meant
  <2> HIDE DEF body, g
  <2> QED
    BY <1>5, <2>1
<1> QED
  <2>1. Meant(written, lost)[0] = <<>>
    BY <1>6
  <2>2. ASSUME NEW n \in 1..Len(written)
        PROVE  Meant(written, lost)[n] = MeantStep(written, lost, Meant(written, lost)[n - 1], n)
    <3>1. n \in 0..Len(written) /\ n # 0
      OBVIOUS
    <3>2. Meant(written, lost)[n] = body(Meant(written, lost))[n]
      BY <1>6
    <3> QED
      BY <3>1, <3>2 DEF MeantStep
  <2> QED
    BY <2>1, <2>2

\* What was meant by the first lines depends on these lines alone.
LEMMA MeantAgrees ==
    ASSUME NEW written, Len(written) \in Nat, NEW lost,
           NEW other, Len(other) \in Nat, NEW gone,
           NEW k \in Nat, k <= Len(written), k <= Len(other),
           \A n \in 1..k : written[n] = other[n] /\ (n \in lost <=> n \in gone)
    PROVE  Meant(written, lost)[k] = Meant(other, gone)[k]
<1> DEFINE S == {n \in Nat : n <= k => Meant(written, lost)[n] = Meant(other, gone)[n]}
<1>1. 0 \in S
  BY MeantDef
<1>2. ASSUME NEW n \in 0..(k - 1), n \in S
      PROVE  n + 1 \in S
  <2>1. n + 1 \in 1..Len(written) /\ n + 1 \in 1..Len(other) /\ (n + 1) - 1 = n
    OBVIOUS
  <2>2. /\ Meant(written, lost)[n + 1] = MeantStep(written, lost, Meant(written, lost)[n], n + 1)
        /\ Meant(other, gone)[n + 1] = MeantStep(other, gone, Meant(other, gone)[n], n + 1)
    BY <2>1, MeantDef
  <2> QED
    BY <1>2, <2>2 DEF MeantStep
<1>3. k \in S
  <2> HIDE DEF S
  <2> QED
    BY <1>1, <1>2, SetInduction
<1> QED
  BY <1>3

\* The events of lines.
Event == {line.event : line \in Line}

LEMMA MeantTyped ==
    ASSUME NEW written \in Seq(Line), NEW lost, NEW k \in 0..Len(written)
    PROVE  Meant(written, lost)[k] \in Seq(Event)
<1>0. Len(written) \in Nat
  BY LenProperties
<1> DEFINE S == {n \in Nat : n <= k => Meant(written, lost)[n] \in Seq(Event)}
<1>1. 0 \in S
  <2>1. Meant(written, lost)[0] = <<>>
    BY <1>0, MeantDef
  <2>2. Meant(written, lost)[0] \in Seq(Event)
    BY <2>1, EmptySeq
  <2> QED
    BY <2>2
<1>2. ASSUME NEW n \in 0..(k - 1), n \in S
      PROVE  n + 1 \in S
  <2>1. n + 1 \in 1..Len(written) /\ (n + 1) - 1 = n /\ Len(written) \in Nat
    BY <1>0
  <2>2. Meant(written, lost)[n + 1] = MeantStep(written, lost, Meant(written, lost)[n], n + 1)
    BY <2>1, MeantDef
  <2>3. written[n + 1].event \in Event
    <3>1. written[n + 1] \in Line
      BY <2>1, ElementOfSeq
    <3> QED
      BY <3>1 DEF Event
  <2>4. Meant(written, lost)[n] \in Seq(Event)
    BY <1>2
  <2>5. Append(Meant(written, lost)[n], written[n + 1].event) \in Seq(Event)
    BY <2>3, <2>4, AppendProperties
  <2>6. Meant(written, lost)[n + 1] \in Seq(Event)
    BY <2>2, <2>4, <2>5, Zenon DEF MeantStep
  <2> QED
    BY <2>6
<1>3. k \in S
  <2> HIDE DEF S
  <2> QED
    BY <1>1, <1>2, SetInduction
<1> QED
  BY <1>3

-----------------------------------------------------------------------------
(* Lines.                                                                  *)

Symbol == {Sym("CR"), LF} \cup (UNION {Range(line.text) : line \in Line})

\* A line as it is written, without its line feed.
Wholes(line) == {line.text, line.text \o <<Sym("CR")>>}

LEMMA WholeTyped ==
    ASSUME NEW line \in Line, NEW w \in Wholes(line)
    PROVE  /\ w \in Seq(Symbol) /\ line.text \in Seq(Symbol)
           /\ Len(line.text) <= Len(w) /\ Len(w) <= Len(line.text) + 1
           /\ \A i \in 1..Len(w) : w[i] # LF
           /\ \A i \in 1..Len(line.text) : w[i] = line.text[i] /\ w[i] # Sym("CR")
           /\ \A i \in 2..Len(line.text) : Kind(w[i]) # "stamp"
           /\ Len(w) = Len(line.text) + 1 => w[Len(w)] = Sym("CR")
<1> DEFINE text == line.text
           cr == <<Sym("CR")>>
<1>1. text \in Seq(Range(text)) /\ Range(text) \subseteq Symbol
  BY LineAssumption DEF Symbol
<1>2. text \in Seq(Symbol)
  BY <1>1, SeqMonotonic
<1>3. Len(text) \in Nat /\ DOMAIN text = 1..Len(text)
  BY <1>2, LenProperties
<1>4. /\ \A i \in 1..Len(text) : Kind(text[i]) # "CR" /\ Kind(text[i]) # "LF"
      /\ \A i \in 2..Len(text) : Kind(text[i]) # "stamp"
  <2>1. \A i \in DOMAIN line.text :
             /\ Kind(line.text[i]) \notin {"CR", "LF"}
             /\ Kind(line.text[i]) = "stamp" => i = 1
    BY LineAssumption
  <2> QED
    BY <1>3, <2>1
<1>5. Kind(Sym("CR")) = "CR" /\ Kind(LF) = "LF"
  BY DEF Kind, Sym, LF
<1>6. CASE w = text
  BY <1>2, <1>3, <1>4, <1>5, <1>6
<1>7. CASE w = text \o cr
  <2>1. Sym("CR") \in Symbol
    BY DEF Symbol
  <2>2. cr \in Seq(Symbol) /\ Len(cr) = 1 /\ cr[1] = Sym("CR")
    BY <2>1
  <2>3. /\ w \in Seq(Symbol) /\ Len(w) = Len(text) + 1
        /\ \A i \in 1..(Len(text) + 1) : w[i] = IF i <= Len(text) THEN text[i] ELSE cr[i - Len(text)]
    <3> HIDE DEF cr, text
    <3>1. /\ text \o cr \in Seq(Symbol)
          /\ Len(text \o cr) = Len(text) + Len(cr)
          /\ \A i \in 1..(Len(text) + Len(cr)) :
               (text \o cr)[i] = IF i <= Len(text) THEN text[i] ELSE cr[i - Len(text)]
      BY <1>2, <2>2, ConcatProperties
    <3> QED
      BY <1>7, <2>2, <3>1
  <2>4. Len(w) = Len(text) + 1 /\ w[Len(w)] = Sym("CR") /\ \A i \in 1..Len(text) : w[i] = text[i]
    <3> HIDE DEF cr, text
    <3> QED
      BY <1>3, <2>2, <2>3
  <2>5. \A i \in 1..Len(w) : i \in 1..Len(text) \/ i = Len(w)
    BY <1>3, <2>4
  <2> QED
    BY <1>2, <1>3, <1>4, <1>5, <2>3, <2>4, <2>5
<1> QED
  BY <1>6, <1>7 DEF Wholes

\* The carriage return makes no difference.
LEMMA SaidWhole ==
    ASSUME NEW line \in Line, NEW w \in Wholes(line)
    PROVE  Said(w) = Said(line.text)
<1> DEFINE text == line.text
<1>1. /\ w \in Seq(Symbol) /\ text \in Seq(Symbol)
      /\ Len(text) <= Len(w) /\ Len(w) <= Len(text) + 1
      /\ \A i \in 1..Len(text) : w[i] = text[i] /\ w[i] # Sym("CR")
      /\ Len(w) = Len(text) + 1 => w[Len(w)] = Sym("CR")
  BY WholeTyped
<1> HIDE DEF text
<1>2. Len(w) \in Nat /\ Len(text) \in Nat
  BY <1>1, LenProperties
<1>3. Stripped(text) = text
  <2>1. text # <<>> => Len(text) \in 1..Len(text)
    BY <1>1, <1>2, EmptySeq
  <2>2. text # <<>> => text[Len(text)] # Sym("CR")
    BY <1>1, <2>1
  <2> QED
    BY <2>2, Zenon DEF Stripped
<1>4. CASE Len(w) = Len(text)
  <2>1. w = text
    BY <1>1, <1>4, SeqEqual
  <2> QED
    BY <2>1 DEF text
<1>5. CASE Len(w) = Len(text) + 1
  <2>1. w # <<>> /\ w[Len(w)] = Sym("CR")
    BY <1>1, <1>2, <1>5, EmptySeq
  <2>2. Stripped(w) = SubSeq(w, 1, Len(w) - 1)
    BY <2>1, Zenon DEF Stripped
  <2>3. SubSeq(w, 1, Len(text)) = text
    <3> DEFINE q == SubSeq(w, 1, Len(text))
    <3>1. \A i \in 1..Len(text) : w[i] \in Symbol
      BY <1>1, <1>2, ElementOfSeq
    <3>2. /\ q \in Seq(Symbol) /\ Len(q) = IF 1 <= Len(text) THEN Len(text) - 1 + 1 ELSE 0
          /\ \A i \in 1..(Len(text) - 1 + 1) : q[i] = w[1 + i - 1]
      BY <1>2, <3>1, SubSeqProperties
    <3> HIDE DEF q
    <3>3. Len(q) = Len(text) /\ \A i \in 1..Len(q) : q[i] = text[i]
      BY <1>1, <1>2, <3>2
    <3>4. q = text
      BY <1>1, <3>2, <3>3, SeqEqual
    <3> QED
      BY <3>4 DEF q
  <2>4. Stripped(w) = text
    BY <1>2, <1>5, <2>2, <2>3
  <2> QED
    BY <1>3, <2>4 DEF Said, text
<1> QED
  BY <1>1, <1>2, <1>4, <1>5

\* What is left of a line without its beginning says nothing.
LEMMA SaidRest ==
    ASSUME NEW line \in Line, NEW w \in Wholes(line), NEW n \in 1..Len(w),
           NEW p \in Seq(Symbol), Len(p) = Len(w) - n,
           \A i \in 1..Len(p) : p[i] = w[n + i]
    PROVE  Said(p) = <<>>
<1> DEFINE text == line.text
<1>1. /\ w \in Seq(Symbol) /\ text \in Seq(Symbol)
      /\ Len(text) <= Len(w) /\ Len(w) <= Len(text) + 1
      /\ \A i \in 2..Len(text) : Kind(w[i]) # "stamp"
      /\ Len(w) = Len(text) + 1 => w[Len(w)] = Sym("CR")
  BY WholeTyped
<1> HIDE DEF text
<1>2. Len(w) \in Nat /\ Len(text) \in Nat /\ Len(p) \in Nat
  BY <1>1, LenProperties
<1>3. CASE Len(p) = 0
  <2>1. p = <<>>
    BY <1>3, EmptySeq
  <2>2. Stripped(p) = <<>>
    BY <2>1, Zenon DEF Stripped
  <2> QED
    BY <2>2, Zenon DEF Said, Readable
<1>4. CASE Len(p) # 0 /\ n + 1 <= Len(text)
  <2>1. Kind(p[1]) # "stamp"
    <3>1. 1 \in 1..Len(p) /\ n + 1 \in 2..Len(text)
      BY <1>2, <1>4
    <3>2. p[1] = w[n + 1] /\ Kind(w[n + 1]) # "stamp"
      BY <1>1, <3>1
    <3> QED
      BY <3>2
  <2>2. Stripped(p) = p \/ Stripped(p) = SubSeq(p, 1, Len(p) - 1)
    BY Zenon DEF Stripped
  <2>3. CASE Stripped(p) = p
    <3>1. parse_logcat_line(p) = Ignored
      BY <2>1, Zenon DEF parse_logcat_line
    <3> QED
      BY <2>3, <3>1, Zenon DEF Said
  <2>4. CASE Stripped(p) = SubSeq(p, 1, Len(p) - 1) /\ Len(p) = 1
    <3>1. SubSeq(p, 1, 0) = <<>>
      BY SubSeqEmpty
    <3>2. Stripped(p) = <<>>
      BY <2>4, <3>1
    <3> QED
      BY <3>2, Zenon DEF Said, Readable
  <2>5. CASE Stripped(p) = SubSeq(p, 1, Len(p) - 1) /\ Len(p) # 1
    <3> DEFINE q == SubSeq(p, 1, Len(p) - 1)
    <3>1. \A i \in 1..(Len(p) - 1) : p[i] \in Symbol
      BY <1>2, ElementOfSeq
    <3>2. \A i \in 1..(Len(p) - 1 - 1 + 1) : q[i] = p[1 + i - 1]
      BY <1>2, <3>1, SubSeqProperties
    <3> HIDE DEF q
    <3>3. q[1] = p[1]
      <4>1. 1 \in 1..(Len(p) - 1 - 1 + 1) /\ 1 + 1 - 1 = 1
        BY <1>2, <1>4, <2>5
      <4>2. q[1] = p[1 + 1 - 1]
        BY <3>2, <4>1
      <4> QED
        BY <4>1, <4>2
    <3>4. parse_logcat_line(q) = Ignored
      BY <2>1, <3>3, Zenon DEF parse_logcat_line
    <3>5. Stripped(p) = q
      BY <2>5 DEF q
    <3> QED
      BY <3>4, <3>5, Zenon DEF Said
  <2> QED
    BY <2>2, <2>3, <2>4, <2>5
<1>5. CASE Len(p) # 0 /\ n + 1 > Len(text)
  <2>1. Len(p) = 1 /\ p[1] = Sym("CR")
    BY <1>1, <1>2, <1>5
  <2>2. p # <<>> /\ p[Len(p)] = Sym("CR") /\ Len(p) - 1 = 0
    <3>1. p # <<>>
      <4>1. Len(<<>>) = 0 /\ 0 # 1
        OBVIOUS
      <4> QED
        BY <2>1, <4>1, Zenon
    <3>2. p[Len(p)] = Sym("CR")
      BY <2>1, Zenon
    <3>3. Len(p) - 1 = 0
      <4>1. 1 - 1 = 0
        OBVIOUS
      <4> QED
        BY <2>1, <4>1, Zenon
    <3> QED
      BY <3>1, <3>2, <3>3, Zenon
  <2>3. Stripped(p) = SubSeq(p, 1, 0)
    BY <2>2, Zenon DEF Stripped
  <2>4. Stripped(p) = <<>>
    BY <2>3, SubSeqEmpty
  <2> QED
    BY <2>4, Zenon DEF Said, Readable
<1> QED
  BY <1>2, <1>3, <1>4, <1>5

-----------------------------------------------------------------------------
(* Lines in the stream.                                                    *)

\* Behind position a, which may be negative, s holds the line w and its feed.
Holds(s, a, b, w) ==
    /\ b = a + Len(w) + 1
    /\ s[b] = LF
    /\ \A i \in 1..Len(w) : a + i >= 1 => s[a + i] = w[i]

\* s holds the lines written after the first k, line j up to cut[j]; the first
\* -cut[k] bytes of line k + 1 are gone.
Framed(s, written, k, cut) ==
    /\ s \in Seq(Symbol) /\ written \in Seq(Line) /\ k \in 0..Len(written)
    /\ cut \in [k..Len(written) -> Int]
    /\ cut[k] <= 0 /\ cut[Len(written)] = Len(s)
    /\ \A j \in (k + 1)..Len(written) :
         cut[j] >= 1 /\ \E w \in Wholes(written[j]) : Holds(s, cut[j - 1], cut[j], w)
    /\ \A i, j \in k..Len(written) : i < j => cut[i] < cut[j]
    /\ \A i \in 1..Len(s) : s[i] = LF => \E j \in (k + 1)..Len(written) : i = cut[j]

\* t is s without its first d bytes.
Behind(t, s, d) ==
    /\ t \in Seq(Symbol) /\ d \in 0..Len(s)
    /\ Len(t) = Len(s) - d /\ \A i \in 1..Len(t) : t[i] = s[i + d]

Shifted(cut, m, n, d) == [j \in m..n |-> cut[j] - d]

LEMMA ShiftedBound ==
    ASSUME NEW a \in Int, NEW b \in Int, NEW d \in Int, NEW l \in Int, NEW r \in Int,
           a = b - d, b <= l, r = l - d
    PROVE  a + d = b /\ a <= r /\ (d < b => a \in 1..r)
OBVIOUS

LEMMA ShiftedWithin ==
    ASSUME NEW a \in Int, NEW b \in Int, NEW d \in Nat, NEW l \in Int, NEW i \in Int, NEW r \in Int,
           a = b - d, a + l + 1 <= r, a + i >= 1, i <= l
    PROVE  a + i \in 1..r /\ (a + i) + d = b + i /\ b + i >= 1
OBVIOUS

\* Reading on, past the lines up to m.
LEMMA FramedBehind ==
    ASSUME NEW s, NEW written, NEW k, NEW cut, Framed(s, written, k, cut),
           NEW t, NEW d, Behind(t, s, d),
           NEW m \in k..Len(written), cut[m] <= d,
           \A j \in (m + 1)..Len(written) : d < cut[j]
    PROVE  Framed(t, written, m, Shifted(cut, m, Len(written), d))
<1> DEFINE n == Len(written)
           moved == Shifted(cut, m, n, d)
<1>1. /\ n \in Nat /\ k \in 0..n /\ m \in k..n /\ m \in 0..n
      /\ Len(s) \in Nat /\ Len(t) \in Nat /\ d \in 0..Len(s) /\ Len(t) = Len(s) - d
      /\ \A j \in k..n : cut[j] \in Int
      /\ cut[n] = Len(s)
      /\ \A i, j \in k..n : i < j => cut[i] < cut[j]
  BY LenProperties DEF Framed, Behind
<1> HIDE DEF n
<1>0. d \in Nat /\ d \in Int /\ Len(s) \in Int /\ Len(t) \in Int /\ Len(t) = Len(s) - d
  BY <1>1
<1>2. \A j \in m..n : j \in k..n /\ moved[j] = cut[j] - d /\ moved[j] \in Int
  BY <1>1 DEF Shifted
<1>3. moved \in [m..n -> Int]
  BY <1>1 DEF Shifted
<1> HIDE DEF moved
<1>4. moved[m] <= 0 /\ moved[n] = Len(t)
  BY <1>1, <1>2, SMTT(30)
<1>5. ASSUME NEW j \in (m + 1)..n
      PROVE  moved[j] >= 1 /\ \E w \in Wholes(written[j]) : Holds(t, moved[j - 1], moved[j], w)
  <2>1. /\ j \in (k + 1)..n /\ j - 1 \in m..n /\ j \in m..n /\ j - 1 \in k..n /\ j \in k..n
        /\ d < cut[j] /\ cut[j] <= Len(s)
    BY <1>1 DEF n
  <2>2. PICK w \in Wholes(written[j]) : Holds(s, cut[j - 1], cut[j], w)
    BY <2>1 DEF Framed, n
  <2>3. Len(w) \in Nat
    <3>1. written[j] \in Line
      BY <1>1, <2>1, ElementOfSeq DEF Framed, n
    <3> QED
      BY <3>1, WholeTyped, LenProperties
  <2>4. moved[j] = cut[j] - d /\ moved[j - 1] = cut[j - 1] - d /\ cut[j] \in Int /\ cut[j - 1] \in Int
    BY <1>1, <1>2, <2>1
  <2>5. moved[j] \in 1..Len(t) /\ moved[j] + d = cut[j]
    <3>1. moved[j] \in Int /\ cut[j] \in Int /\ moved[j] = cut[j] - d
      BY <1>0, <2>4
    <3> QED
      BY <1>0, <2>1, <3>1, ShiftedBound, SMTT(30)
  <2>6. moved[j] = moved[j - 1] + Len(w) + 1
    <3>1. cut[j] = cut[j - 1] + Len(w) + 1
      BY <2>2 DEF Holds
    <3>2. d \in Int
      BY <1>1
    <3> QED
      BY <2>3, <2>4, <3>1, <3>2
  <2>7. t[moved[j]] = LF
    BY <2>2, <2>5 DEF Holds, Behind
  <2>8. ASSUME NEW i \in 1..Len(w), moved[j - 1] + i >= 1
        PROVE  t[moved[j - 1] + i] = w[i]
    <3>1. /\ moved[j - 1] + i \in 1..Len(t) /\ (moved[j - 1] + i) + d = cut[j - 1] + i
          /\ cut[j - 1] + i >= 1
      <4>1. /\ i \in Int /\ i <= Len(w) /\ Len(w) \in Int
            /\ moved[j - 1] \in Int /\ cut[j - 1] \in Int /\ moved[j - 1] = cut[j - 1] - d
        BY <1>0, <2>3, <2>4
      <4>2. moved[j - 1] + Len(w) + 1 <= Len(t)
        BY <1>0, <2>5, <2>6
      <4> DEFINE a == moved[j - 1]
                 b == cut[j - 1]
                 l == Len(w)
                 r == Len(t)
      <4>3. /\ a \in Int /\ b \in Int /\ d \in Nat /\ l \in Int /\ i \in Int /\ r \in Int
            /\ a = b - d /\ a + l + 1 <= r /\ a + i >= 1 /\ i <= l
        BY <1>0, <2>8, <4>1, <4>2
      <4> HIDE DEF a, b, l, r
      <4>4. a + i \in 1..r /\ (a + i) + d = b + i /\ b + i >= 1
        BY <4>3, ShiftedWithin
      <4> QED
        BY <4>4 DEF a, b, l, r
    <3>2. t[moved[j - 1] + i] = s[cut[j - 1] + i]
      BY <3>1 DEF Behind
    <3> QED
      BY <2>2, <3>1, <3>2 DEF Holds
  <2>9. Holds(t, moved[j - 1], moved[j], w)
    BY <2>6, <2>7, <2>8 DEF Holds
  <2> QED
    BY <2>5, <2>9
<1>6. \A i, j \in m..n : i < j => moved[i] < moved[j]
  <2> SUFFICES ASSUME NEW i \in m..n, NEW j \in m..n, i < j PROVE moved[i] < moved[j]
    OBVIOUS
  <2>1. /\ moved[i] = cut[i] - d /\ moved[j] = cut[j] - d /\ i \in k..n /\ j \in k..n
        /\ cut[i] \in Int /\ cut[j] \in Int /\ d \in Int
    BY <1>1, <1>2
  <2>2. cut[i] < cut[j]
    BY <1>1, <2>1
  <2> QED
    BY <2>1, <2>2
<1>7. ASSUME NEW i \in 1..Len(t), t[i] = LF
      PROVE  \E j \in (m + 1)..n : i = moved[j]
  <2>1. i + d \in 1..Len(s) /\ s[i + d] = LF
    BY <1>1, <1>7 DEF Behind
  <2>2. PICK j \in (k + 1)..n : i + d = cut[j]
    BY <2>1 DEF Framed, n
  <2>3. j \in k..n /\ ~(j = m) /\ ~(j < m)
    BY <1>1, <2>2
  <2>4. j \in (m + 1)..n /\ j \in m..n
    BY <1>1, <2>3
  <2>5. moved[j] = cut[j] - d /\ i + d = cut[j] /\ d \in Int /\ i \in Int
    BY <1>1, <1>2, <2>2, <2>4
  <2>6. i = moved[j]
    BY <2>5
  <2> QED
    BY <2>4, <2>6
<1> QED
  <2>1. t \in Seq(Symbol) /\ written \in Seq(Line)
    BY DEF Framed, Behind
  <2> QED
    BY <1>1, <1>3, <1>4, <1>5, <1>6, <1>7, <2>1 DEF Framed, n, moved

\* t is s with the line w behind it.
Longer(t, s, w) ==
    /\ t \in Seq(Symbol) /\ Len(t) = Len(s) + Len(w) + 1
    /\ \A i \in 1..Len(s) : t[i] = s[i]
    /\ \A i \in 1..Len(w) : t[Len(s) + i] = w[i]
    /\ t[Len(t)] = LF

Extended(cut, k, n, length) == [j \in k..(n + 1) |-> IF j = n + 1 THEN length ELSE cut[j]]

\* Another line.
LEMMA FramedLonger ==
    ASSUME NEW s, NEW written, NEW k, NEW cut, Framed(s, written, k, cut),
           NEW line \in Line, NEW w \in Wholes(line), NEW t, Longer(t, s, w)
    PROVE  Framed(t, Append(written, line), k, Extended(cut, k, Len(written), Len(t)))
<1> DEFINE n == Len(written)
           longer == Append(written, line)
           more == Extended(cut, k, n, Len(t))
<1>1. /\ n \in Nat /\ k \in 0..n /\ Len(s) \in Nat
      /\ \A j \in k..n : cut[j] \in Int
      /\ cut[k] <= 0 /\ cut[n] = Len(s)
      /\ \A i, j \in k..n : i < j => cut[i] < cut[j]
  BY LenProperties DEF Framed
<1>2. /\ longer \in Seq(Line) /\ Len(longer) = n + 1 /\ longer[n + 1] = line
      /\ \A j \in 1..n : longer[j] = written[j]
  BY AppendProperties DEF Framed
<1>3. /\ w \in Seq(Symbol) /\ Len(w) \in Nat /\ \A i \in 1..Len(w) : w[i] # LF
  BY WholeTyped, LenProperties
<1>4. /\ t \in Seq(Symbol) /\ Len(t) = Len(s) + Len(w) + 1 /\ t[Len(t)] = LF
      /\ \A i \in 1..Len(s) : t[i] = s[i]
      /\ \A i \in 1..Len(w) : t[Len(s) + i] = w[i]
  BY DEF Longer
<1> HIDE DEF n, longer
<1>5. /\ \A j \in k..n : more[j] = cut[j]
      /\ more[n + 1] = Len(t)
      /\ more \in [k..(n + 1) -> Int]
  BY <1>1, <1>3, <1>4 DEF Extended
<1> HIDE DEF more
<1>6. more[k] <= 0 /\ more[n + 1] = Len(t)
  BY <1>1, <1>5
<1>7. ASSUME NEW j \in (k + 1)..(n + 1)
      PROVE  more[j] >= 1 /\ \E v \in Wholes(longer[j]) : Holds(t, more[j - 1], more[j], v)
  <2>1. CASE j = n + 1
    <3>1. n \in k..n /\ j - 1 = n /\ more[j - 1] = Len(s) /\ more[j] = Len(t) /\ longer[j] = line
      BY <1>1, <1>2, <1>5, <2>1
    <3>2. Holds(t, Len(s), Len(t), w)
      BY <1>4 DEF Holds
    <3>3. Len(t) >= 1
      BY <1>1, <1>3, <1>4
    <3> QED
      BY <3>1, <3>2, <3>3
  <2>2. CASE j # n + 1
    <3>1. /\ j \in (k + 1)..n /\ j \in k..n /\ j - 1 \in k..n /\ j \in 1..n
          /\ more[j] = cut[j] /\ more[j - 1] = cut[j - 1] /\ longer[j] = written[j]
          /\ cut[j] \in Int /\ cut[j - 1] \in Int
      <4>1. j \in (k + 1)..n /\ j \in k..n /\ j - 1 \in k..n /\ j \in 1..n
        BY <1>1, <2>2
      <4> QED
        BY <1>1, <1>2, <1>5, <4>1
    <3>2. cut[j] >= 1 /\ \E v \in Wholes(written[j]) : Holds(s, cut[j - 1], cut[j], v)
      BY <3>1 DEF Framed, n
    <3>3. PICK v \in Wholes(written[j]) : Holds(s, cut[j - 1], cut[j], v)
      BY <3>2
    <3>4. Len(v) \in Nat
      <4>1. written[j] \in Line
        BY <3>1, ElementOfSeq DEF Framed, n
      <4> QED
        BY <4>1, WholeTyped, LenProperties
    <3>5. cut[j] <= Len(s)
      BY <1>1, <3>1
    <3>6. cut[j] \in 1..Len(s)
      BY <1>1, <3>1, <3>2, <3>5
    <3>7. cut[j] = cut[j - 1] + Len(v) + 1 /\ s[cut[j]] = LF
      BY <3>3 DEF Holds
    <3>8. ASSUME NEW i \in 1..Len(v), cut[j - 1] + i >= 1
          PROVE  t[cut[j - 1] + i] = v[i]
      <4>1. cut[j - 1] + i \in 1..Len(s)
        BY <1>1, <3>1, <3>4, <3>5, <3>7, <3>8, SMTT(30)
      <4>2. s[cut[j - 1] + i] = v[i]
        BY <3>3, <3>8 DEF Holds
      <4> QED
        BY <1>4, <4>1, <4>2
    <3>9. Holds(t, cut[j - 1], cut[j], v)
      BY <1>4, <3>6, <3>7, <3>8 DEF Holds
    <3> QED
      BY <3>1, <3>2, <3>9
  <2> QED
    BY <2>1, <2>2
<1>8. ASSUME NEW i \in k..(n + 1), NEW j \in k..(n + 1), i < j
      PROVE  more[i] < more[j]
  <2>1. i \in k..n /\ more[i] = cut[i] /\ cut[i] \in Int /\ cut[i] <= Len(s)
    <3>1. i \in k..n /\ n \in k..n
      BY <1>1, <1>8
    <3>2. i = n \/ i < n
      BY <1>1, <3>1
    <3> QED
      BY <1>1, <1>5, <3>1, <3>2
  <2>2. CASE j = n + 1
    BY <1>1, <1>3, <1>4, <1>5, <2>1, <2>2
  <2>3. CASE j # n + 1
    <3>1. j \in k..n
      BY <1>1, <2>3
    <3> QED
      BY <1>1, <1>5, <1>8, <2>1, <3>1
  <2> QED
    BY <2>2, <2>3
<1>9. ASSUME NEW i \in 1..Len(t), t[i] = LF
      PROVE  \E j \in (k + 1)..(n + 1) : i = more[j]
  <2>1. CASE i = Len(t)
    <3>1. n + 1 \in (k + 1)..(n + 1)
      BY <1>1
    <3> QED
      BY <1>5, <2>1, <3>1
  <2>2. CASE i \in 1..Len(s)
    <3>1. s[i] = LF
      BY <1>4, <1>9, <2>2
    <3>2. PICK j \in (k + 1)..n : i = cut[j]
      BY <2>2, <3>1 DEF Framed, n
    <3>3. j \in k..n /\ j \in (k + 1)..(n + 1)
      BY <1>1
    <3> QED
      BY <1>5, <3>2, <3>3
  <2>3. CASE i \notin 1..Len(s) /\ i # Len(t)
    <3>1. i - Len(s) \in 1..Len(w) /\ Len(s) + (i - Len(s)) = i
      BY <1>1, <1>3, <1>4, <2>3
    <3>2. t[i] = w[i - Len(s)]
      BY <1>4, <3>1
    <3> QED
      BY <1>3, <1>9, <3>1, <3>2
  <2> QED
    BY <2>1, <2>2, <2>3
<1> QED
  <2>1. k \in 0..(n + 1)
    BY <1>1
  <2>2. Framed(t, longer, k, more)
    <3> USE <1>2
    <3>1. t \in Seq(Symbol) /\ longer \in Seq(Line) /\ k \in 0..Len(longer)
      BY <1>4, <2>1
    <3>2. more \in [k..Len(longer) -> Int] /\ more[k] <= 0 /\ more[Len(longer)] = Len(t)
      BY <1>5, <1>6
    <3>3. \A j \in (k + 1)..Len(longer) :
            more[j] >= 1 /\ \E v \in Wholes(longer[j]) : Holds(t, more[j - 1], more[j], v)
      BY <1>7
    <3>4. /\ \A i, j \in k..Len(longer) : i < j => more[i] < more[j]
          /\ \A i \in 1..Len(t) : t[i] = LF => \E j \in (k + 1)..Len(longer) : i = more[j]
      BY <1>8, <1>9
    <3> QED
      BY <3>1, <3>2, <3>3, <3>4, Zenon DEF Framed
  <2> QED
    BY <2>2 DEF n, longer, more

\* t begins s.
Prefix(t, s) ==
    t \in Seq(Symbol) /\ Len(t) <= Len(s) /\ \A i \in 1..Len(t) : t[i] = s[i]

\* Oversized lines may be lost; the one at the front is if it lacks its beginning.
Lost(written, k, cut, lost) ==
    /\ \A j \in lost : j \in 1..Len(written) /\ j <= k + 1 /\ Oversized(written[j])
    /\ k + 1 \in lost <=> cut[k] < 0

\* The facts of a frame, without what the lines say.
LEMMA FrameFacts ==
    ASSUME NEW s, NEW written, NEW k, NEW cut, Framed(s, written, k, cut)
    PROVE  /\ Len(s) \in Nat /\ Len(written) \in Nat /\ k \in 0..Len(written) /\ k \in Nat
           /\ \A j \in k..Len(written) : cut[j] \in Int
           /\ cut[k] <= 0 /\ cut[Len(written)] = Len(s)
           /\ \A i, j \in k..Len(written) : i < j => cut[i] < cut[j]
           /\ \A j \in (k + 1)..Len(written) : cut[j] \in 1..Len(s) /\ s[cut[j]] = LF
           /\ \A i \in 1..Len(s) : s[i] = LF => \E j \in (k + 1)..Len(written) : i = cut[j]
<1>1. /\ Len(s) \in Nat /\ Len(written) \in Nat /\ k \in 0..Len(written) /\ k \in Nat
      /\ \A j \in k..Len(written) : cut[j] \in Int
      /\ cut[k] <= 0 /\ cut[Len(written)] = Len(s)
      /\ \A i, j \in k..Len(written) : i < j => cut[i] < cut[j]
      /\ \A i \in 1..Len(s) : s[i] = LF => \E j \in (k + 1)..Len(written) : i = cut[j]
  BY LenProperties DEF Framed
<1>2. ASSUME NEW j \in (k + 1)..Len(written)
      PROVE  cut[j] \in 1..Len(s) /\ s[cut[j]] = LF
  <2>1. j \in k..Len(written) /\ Len(written) \in k..Len(written)
    BY <1>1
  <2>2. cut[j] >= 1 /\ s[cut[j]] = LF
    BY DEF Framed, Holds
  <2>3. j = Len(written) \/ j < Len(written)
    BY <2>1
  <2>4. cut[j] <= Len(s) /\ cut[j] \in Int
    BY <1>1, <2>1, <2>3
  <2> QED
    BY <1>1, <2>2, <2>4
<1> QED
  BY <1>1, <1>2

\* What line l gives to the handlers.
Gives(written, lost, l) == IF l \in lost THEN <<>> ELSE Said(written[l].text)

\* A finished line says what it says alone, or nothing if it lacks its beginning.
LEMMA PieceSaid ==
    ASSUME NEW s, NEW written, NEW k, NEW cut, Framed(s, written, k, cut),
           NEW lost, Lost(written, k, cut, lost), NEW t, Prefix(t, s),
           NEW l \in (k + 1)..Len(written), cut[l] <= Len(t)
    PROVE  /\ SubSeq(t, last_newline(t, cut[l] - 1) + 1, cut[l] - 1) \in Seq(Symbol)
           /\ Said(SubSeq(t, last_newline(t, cut[l] - 1) + 1, cut[l] - 1)) =
                Gives(written, lost, l)
<1> DEFINE n == Len(written)
           a == IF cut[l - 1] > 0 THEN cut[l - 1] ELSE 0
           b == cut[l]
           p == SubSeq(t, a + 1, b - 1)
<1>1. /\ Len(s) \in Nat /\ n \in Nat /\ k \in 0..n /\ k \in Nat
      /\ \A j \in k..n : cut[j] \in Int
      /\ \A i, j \in k..n : i < j => cut[i] < cut[j]
      /\ \A j \in (k + 1)..n : cut[j] \in 1..Len(s) /\ s[cut[j]] = LF
      /\ \A i \in 1..Len(s) : s[i] = LF => \E j \in (k + 1)..n : i = cut[j]
  BY FrameFacts
<1>2. /\ t \in Seq(Symbol) /\ Len(t) \in Nat /\ Len(t) <= Len(s)
      /\ \A i \in 1..Len(t) : t[i] = s[i] /\ t[i] \in Symbol
  BY LenProperties, ElementOfSeq DEF Prefix
<1> HIDE DEF n
<1>3. /\ l \in (k + 1)..n /\ l \in k..n /\ l - 1 \in k..n /\ l - 1 < l
      /\ cut[l - 1] \in Int /\ cut[l - 1] < b /\ b \in 1..Len(t)
  <2>1. l \in (k + 1)..n /\ l \in k..n /\ l - 1 \in k..n /\ l - 1 < l
    BY <1>1 DEF n
  <2> QED
    BY <1>1, <1>2, <2>1
<1>4. a \in 0..(b - 1) /\ a >= cut[l - 1] /\ (a = cut[l - 1] \/ a = 0)
  BY <1>1, <1>3
<1>5. ASSUME cut[l - 1] > 0
      PROVE  l - 1 \in (k + 1)..n
  <2>1. l - 1 # k
    BY <1>5 DEF Framed
  <2> QED
    BY <1>1, <1>3, <2>1
<1>6. last_newline(t, b - 1) = a
  <2>1. a = 0 \/ t[a] = LF
    <3>1. CASE cut[l - 1] > 0
      <4>1. a = cut[l - 1] /\ s[cut[l - 1]] = LF
        BY <1>1, <1>5, <3>1
      <4>2. a \in 1..Len(t)
        BY <1>2, <1>3, <1>4, <3>1, <4>1
      <4> QED
        BY <1>2, <4>1, <4>2
    <3> QED
      BY <1>3, <3>1
  <2>2. ASSUME NEW i \in (a + 1)..(b - 1), t[i] = LF
        PROVE  FALSE
    <3>1. i \in 1..Len(s) /\ s[i] = LF /\ i < b /\ cut[l - 1] < i
      <4>1. i \in 1..Len(t) /\ i \in 1..Len(s) /\ i < b /\ cut[l - 1] < i
        BY <1>1, <1>2, <1>3, <1>4, SMTT(30)
      <4> QED
        BY <1>2, <2>2, <4>1
    <3>2. PICK j \in (k + 1)..n : i = cut[j]
      BY <1>1, <3>1
    <3>3. j \in k..n /\ ~(l - 1 = j) /\ ~(j < l - 1) /\ ~(j = l) /\ ~(l < j)
      <4>1. j \in k..n
        BY <1>1
      <4>2. cut[j] < cut[l] /\ cut[l - 1] < cut[j] /\ cut[j] \in Int /\ cut[l] \in Int
        BY <1>1, <1>3, <3>1, <3>2, <4>1
      <4>3. ~(j < l - 1) /\ ~(l < j)
        <5>1. j < l - 1 => cut[j] < cut[l - 1]
          BY <1>1, <1>3, <4>1
        <5>2. l < j => cut[l] < cut[j]
          BY <1>1, <1>3, <4>1
        <5> QED
          BY <1>3, <4>2, <5>1, <5>2
      <4>4. l - 1 # j /\ l # j
        BY <1>3, <4>2
      <4> QED
        BY <4>1, <4>3, <4>4
    <3> QED
      BY <1>1, <1>3, <3>3
  <2>3. b - 1 \in Nat /\ IsLast(t, b - 1, a)
    BY <1>3, <1>4, <2>1, <2>2 DEF IsLast
  <2> HIDE DEF a, b
  <2> QED
    BY <2>3, LastNewlineIs
<1>7. /\ p \in Seq(Symbol) /\ Len(p) = (b - 1) - a
      /\ \A i \in 1..Len(p) : p[i] = s[a + i] /\ a + i >= 1
  <2>1. a + 1 \in Int /\ b - 1 \in Int /\ a \in Nat /\ b \in Nat /\ a <= b - 1 /\ b - 1 <= Len(t)
    BY <1>2, <1>3, <1>4
  <2>2. \A i \in (a + 1)..(b - 1) : i \in 1..Len(t)
    BY <1>2, <2>1
  <2>3. \A i \in (a + 1)..(b - 1) : t[i] \in Symbol
    BY <1>2, <2>2
  <2> HIDE DEF a, b
  <2>4. /\ p \in Seq(Symbol) /\ Len(p) = (IF a + 1 <= b - 1 THEN (b - 1) - (a + 1) + 1 ELSE 0)
        /\ \A i \in 1..((b - 1) - (a + 1) + 1) : p[i] = t[(a + 1) + i - 1]
    BY <2>1, <2>3, SubSeqProperties
  <2> HIDE DEF p
  <2>5. Len(p) = (b - 1) - a
    BY <2>1, <2>4
  <2>6. ASSUME NEW i \in 1..Len(p)
        PROVE  p[i] = s[a + i] /\ a + i >= 1
    <3>1. i \in 1..((b - 1) - (a + 1) + 1) /\ (a + 1) + i - 1 = a + i /\ a + i \in (a + 1)..(b - 1)
      BY <2>1, <2>5
    <3>2. a + i \in 1..Len(t)
      BY <2>2, <3>1
    <3>3. p[i] = t[a + i]
      BY <2>4, <3>1
    <3> QED
      BY <1>2, <3>2, <3>3
  <2> QED
    BY <2>4, <2>5, <2>6
<1>8. written[l] \in Line
  BY <1>1, <1>3, ElementOfSeq DEF Framed, n
<1>9. PICK w \in Wholes(written[l]) : Holds(s, cut[l - 1], b, w)
  BY <1>3 DEF Framed, n
<1>10. w \in Seq(Symbol) /\ Len(w) \in Nat
  BY <1>8, WholeTyped, LenProperties
<1>11. b = cut[l - 1] + Len(w) + 1 /\ \A i \in 1..Len(w) : cut[l - 1] + i >= 1 => s[cut[l - 1] + i] = w[i]
  BY <1>9 DEF Holds
<1>12. CASE cut[l - 1] >= 0
  <2>1. a = cut[l - 1]
    BY <1>3, <1>12
  <2>2. Len(p) = Len(w)
    <3> DEFINE c == cut[l - 1]
               q == Len(w)
               r == Len(p)
    <3>1. c \in Int /\ q \in Nat /\ r = (b - 1) - c /\ b = c + q + 1
      BY <1>3, <1>7, <1>10, <1>11, <2>1
    <3> HIDE DEF c, q, r, b
    <3>2. r = q
      BY <3>1
    <3> QED
      BY <3>2 DEF q, r
  <2>3. \A i \in 1..Len(p) : p[i] = w[i]
    BY <1>7, <1>11, <2>1, <2>2
  <2>4. p = w
    <3> HIDE DEF p
    <3> QED
      BY <1>7, <1>10, <2>2, <2>3, SeqEqual
  <2>5. l \notin lost
    <3>1. CASE l = k + 1
      <4>1. cut[k] >= 0 /\ cut[k] \in Int
        BY <1>1, <1>3, <1>12, <3>1
      <4>2. ~(cut[k] < 0)
        BY <4>1
      <4> QED
        BY <3>1, <4>2 DEF Lost
    <3>2. CASE l # k + 1
      <4>1. ~(l <= k + 1)
        BY <1>1, <1>3, <3>2
      <4> QED
        BY <4>1 DEF Lost
    <3> QED
      BY <3>1, <3>2
  <2>6. Said(p) = Said(written[l].text)
    BY <1>8, <2>4, SaidWhole
  <2> HIDE DEF a, b, p
  <2> QED
    BY <1>6, <1>7, <2>5, <2>6 DEF p, b, Gives
<1>13. CASE cut[l - 1] < 0
  <2>1. l - 1 = k
    <3>1. l - 1 \notin (k + 1)..n
      BY <1>1, <1>3, <1>13
    <3> QED
      BY <1>1, <1>3, <3>1
  <2>2. l \in lost
    <3>1. l = k + 1
      BY <1>1, <1>3, <2>1
    <3>2. cut[k] < 0
      BY <1>13, <2>1
    <3> QED
      BY <3>1, <3>2 DEF Lost
  <2> DEFINE m == 0 - cut[l - 1]
  <2>3. a = 0
    BY <1>3, <1>13
  <2>4. m \in 1..Len(w) /\ Len(p) = Len(w) - m
    BY <1>3, <1>7, <1>10, <1>11, <1>13, <2>3, SMTT(30)
  <2>5. ASSUME NEW i \in 1..Len(p)
        PROVE  p[i] = w[m + i]
    <3>1. p[i] = s[i]
      <4>1. a + i = i
        BY <2>3
      <4> QED
        BY <1>7, <4>1
    <3>2. m + i \in 1..Len(w) /\ cut[l - 1] + (m + i) = i /\ i >= 1
      <4> DEFINE c == cut[l - 1]
                 q == Len(w)
                 r == Len(p)
      <4>1. c \in Int /\ q \in Nat /\ m = 0 - c /\ m \in 1..q /\ r = q - m /\ i \in 1..r
        BY <1>3, <1>10, <2>4
      <4> HIDE DEF c, q, r, m
      <4>2. m + i \in 1..q /\ c + (m + i) = i /\ i >= 1
        BY <4>1
      <4> QED
        BY <4>2 DEF c, q
    <3> HIDE DEF m
    <3> QED
      BY <1>11, <3>1, <3>2
  <2>6. Said(p) = <<>>
    <3> HIDE DEF m, p
    <3> QED
      BY <1>7, <1>8, <2>4, <2>5, SaidRest
  <2> HIDE DEF a, b, p
  <2> QED
    BY <1>6, <1>7, <2>2, <2>6 DEF p, b, Gives
<1> QED
  BY <1>3, <1>12, <1>13

-----------------------------------------------------------------------------
(* Events.                                                                 *)

\* What lines may say.
Spoken == {parse_logcat_line(Stripped(q)) : q \in Seq(Symbol)}

LEMMA SaidTyped ==
    ASSUME NEW q \in Seq(Symbol)
    PROVE  Said(q) \in Seq(Spoken) /\ Len(Said(q)) <= 1
<1> DEFINE event == parse_logcat_line(Stripped(q))
<1>1. event \in Spoken
  BY DEF Spoken
<1>2. Said(q) = <<>> \/ Said(q) = <<event>>
  BY Zenon DEF Said
<1> HIDE DEF event
<1>3. <<event>> \in Seq(Spoken) /\ Len(<<event>>) = 1
  BY <1>1
<1>4. <<>> \in Seq(Spoken) /\ Len(<<>>) = 0
  BY EmptySeq
<1>5. CASE Said(q) = <<>>
  BY <1>4, <1>5
<1>6. CASE Said(q) = <<event>>
  BY <1>3, <1>6
<1> QED
  BY <1>2, <1>5, <1>6

\* Each line, by itself, says what it was written for.
Understood ==
    \A line \in Line : Said(line.text) = IF line.event = Ignored THEN <<>> ELSE <<line.event>>

\* Concatenation in S needs no brackets.
Associative(S) == \A a, b, c \in S : (a \o b) \o c = a \o (b \o c)

LEMMA SeqAssociative ==
    ASSUME NEW R
    PROVE  Associative(Seq(R))
<1> SUFFICES ASSUME NEW a \in Seq(R), NEW b \in Seq(R), NEW c \in Seq(R)
             PROVE  (a \o b) \o c = a \o (b \o c)
  BY DEF Associative
<1> QED
  BY ConcatAssociative

\* One line more is handed on and was meant.
LEMMA MeantJoins ==
    ASSUME Understood, NEW written \in Seq(Line), NEW lost, NEW l \in 1..Len(written),
           NEW before \in Seq(Spoken), NEW h \in Seq(Spoken),
           before \o h = Meant(written, lost)[l - 1]
    PROVE  before \o (h \o Gives(written, lost, l)) = Meant(written, lost)[l]
<1> DEFINE meant == Meant(written, lost)[l - 1]
           event == written[l].event
<1>1. Len(written) \in Nat /\ l - 1 \in 0..Len(written)
  BY LenProperties
<1>2. Meant(written, lost)[l] = IF l \in lost \/ event = Ignored THEN meant ELSE Append(meant, event)
  BY <1>1, MeantDef DEF MeantStep
<1>3. written[l] \in Line
  BY ElementOfSeq
<1>4. event \in Event /\ meant \in Seq(Event)
  BY <1>1, <1>3, MeantTyped DEF Event
<1>5. Said(written[l].text) = IF event = Ignored THEN <<>> ELSE <<event>>
  BY <1>3 DEF Understood
<1>6. before \o (h \o <<>>) = meant
  <2>1. h \o <<>> = h
    BY ConcatEmptySeq
  <2> QED
    BY <2>1
<1> HIDE DEF meant, event
<1>7. CASE l \in lost \/ event = Ignored
  BY <1>2, <1>5, <1>6, <1>7, Zenon DEF Gives
<1>8. CASE ~(l \in lost \/ event = Ignored)
  <2>1. Said(written[l].text) = <<event>>
    BY <1>5, <1>8
  <2>2. written[l].text \in Seq(Symbol)
    <3>1. written[l].text \in Wholes(written[l])
      BY DEF Wholes
    <3> QED
      BY <1>3, <3>1, WholeTyped
  <2>3. <<event>> \in Seq(Spoken)
    BY <2>1, <2>2, SaidTyped
  <2> DEFINE one == <<event>>
  <2>4. Append(meant, event) = meant \o one
    BY <1>4, AppendIsConcat
  <2> HIDE DEF one
  <2>5. (before \o h) \o one = before \o (h \o one)
    <3>1. one \in Seq(Spoken)
      BY <2>3 DEF one
    <3>2. Associative(Seq(Spoken))
      BY SeqAssociative
    <3> QED
      BY <3>1, <3>2, Zenon DEF Associative
  <2>6. meant = before \o h
    BY DEF meant
  <2>7. before \o (h \o one) = Append(meant, event)
    BY <2>4, <2>5, <2>6, Zenon
  <2> QED
    BY <1>2, <1>8, <2>1, <2>7, Zenon DEF one, Gives
<1> QED
  BY <1>7, <1>8

\* Position i is behind line j and not behind a later one.
Reaches(cut, n, i, j) == cut[j] <= i /\ \A l \in (j + 1)..n : i < cut[l]

\* h, behind before, is at most an event for each line up to line j, and if the
\* parser is sound what these lines were written for.
Told(h, before, written, lost, k, j) ==
    /\ Len(h) <= j - k
    /\ Understood /\ before = Meant(written, lost)[k] =>
         before \o h = Meant(written, lost)[j]

\* The recursion of Handed over a part t of the stream that begins with line
\* k + 1: what is handed on is at most an event per line, and what was meant.
LEMMA HandedAt ==
    ASSUME NEW s, NEW written, NEW k, NEW cut, Framed(s, written, k, cut),
           NEW lost, Lost(written, k, cut, lost), NEW t, Prefix(t, s),
           NEW before \in Seq(Spoken), NEW i \in 0..Len(t)
    PROVE  /\ Handed(t)[i] \in Seq(Spoken)
           /\ \A j \in k..Len(written) :
                Reaches(cut, Len(written), i, j) => Told(Handed(t)[i], before, written, lost, k, j)
<1> DEFINE n == Len(written)
           Good(m, j) == /\ Len(Handed(t)[m]) <= j - k
                         /\ Understood /\ before = Meant(written, lost)[k] =>
                              before \o Handed(t)[m] = Meant(written, lost)[j]
           S == {m \in Nat : m <= i => /\ Handed(t)[m] \in Seq(Spoken)
                                       /\ \A j \in k..n : Reaches(cut, n, m, j) => Good(m, j)}
<1>1. /\ Len(s) \in Nat /\ n \in Nat /\ k \in 0..n /\ k \in Nat
      /\ \A j \in k..n : cut[j] \in Int
      /\ cut[k] <= 0
      /\ \A a, b \in k..n : a < b => cut[a] < cut[b]
      /\ \A j \in (k + 1)..n : cut[j] \in 1..Len(s) /\ s[cut[j]] = LF
      /\ \A m \in 1..Len(s) : s[m] = LF => \E j \in (k + 1)..n : m = cut[j]
  BY FrameFacts
<1>2. /\ t \in Seq(Symbol) /\ Len(t) \in Nat /\ Len(t) <= Len(s)
      /\ \A m \in 1..Len(t) : t[m] = s[m]
  BY LenProperties DEF Prefix
<1>3. written \in Seq(Line)
  BY DEF Framed
<1>4. /\ Handed(t)[0] = <<>>
      /\ \A m \in 1..Len(t) : Handed(t)[m] = HandedStep(t, Handed(t)[m - 1], m)
  BY <1>2, HandedDef
<1>5. 0 \in S
  <2>1. <<>> \in Seq(Spoken) /\ Len(<<>>) = 0
    BY EmptySeq
  <2>2. ASSUME NEW j \in k..n, Reaches(cut, n, 0, j)
        PROVE  Good(0, j)
    <3>1. cut[j] <= 0
      BY <2>2 DEF Reaches
    <3>2. j \notin (k + 1)..n
      <4>1. j \in (k + 1)..n => cut[j] >= 1
        BY <1>1
      <4> QED
        BY <1>1, <3>1, <4>1
    <3>3. j = k
      BY <1>1, <3>2
    <3>4. before \o <<>> = before
      BY ConcatEmptySeq
    <3>5. Len(Handed(t)[0]) <= j - k
      BY <1>1, <1>4, <2>1, <3>3
    <3> QED
      BY <1>4, <3>3, <3>4, <3>5
  <2>3. Handed(t)[0] \in Seq(Spoken)
    BY <1>4, <2>1
  <2> HIDE DEF Good
  <2> QED
    BY <2>2, <2>3
<1> HIDE DEF n
<1>6. ASSUME NEW m \in 0..(i - 1), m \in S
      PROVE  m + 1 \in S
  <2> DEFINE h == Handed(t)[m]
  <2>1. /\ m \in Nat /\ m + 1 \in 1..Len(t) /\ m + 1 \in 1..Len(s) /\ (m + 1) - 1 = m
        /\ m <= i
    BY <1>1, <1>2
  <2>2. h \in Seq(Spoken) /\ \A j \in k..n : Reaches(cut, n, m, j) => Good(m, j)
    BY <1>6, <2>1
  <2>3. Handed(t)[m + 1] = HandedStep(t, h, m + 1)
    BY <1>4, <2>1
  <2>4. CASE t[m + 1] # LF
    <3>1. Handed(t)[m + 1] = h
      BY <2>3, <2>4, Zenon DEF HandedStep
    <3>2. ASSUME NEW j \in k..n, Reaches(cut, n, m + 1, j)
          PROVE  Reaches(cut, n, m, j)
      <4>1. cut[j] \in Int /\ cut[j] <= m + 1 /\ \A l \in (j + 1)..n : m + 1 < cut[l]
        BY <1>1, <3>2 DEF Reaches
      <4>2. cut[j] # m + 1
        <5>1. CASE j = k
          BY <1>1, <2>1, <5>1
        <5>2. CASE j # k
          <6>1. j \in (k + 1)..n
            BY <1>1, <5>2
          <6>2. s[cut[j]] = LF
            BY <1>1, <6>1
          <6> QED
            BY <1>2, <2>1, <2>4, <6>2
        <5> QED
          BY <5>1, <5>2
      <4>3. cut[j] <= m
        BY <2>1, <4>1, <4>2
      <4>4. ASSUME NEW l \in (j + 1)..n
            PROVE  m < cut[l]
        <5>1. m + 1 < cut[l] /\ cut[l] \in Int
          BY <1>1, <4>1
        <5> QED
          BY <2>1, <5>1
      <4> QED
        BY <4>3, <4>4 DEF Reaches
    <3>3. \A j \in k..n : Reaches(cut, n, m + 1, j) => Good(m + 1, j)
      BY <2>2, <3>1, <3>2
    <3>4. Handed(t)[m + 1] \in Seq(Spoken)
      BY <2>2, <3>1
    <3> HIDE DEF Good
    <3> QED
      BY <2>1, <3>3, <3>4
  <2>5. CASE t[m + 1] = LF
    <3>1. PICK l \in (k + 1)..n : m + 1 = cut[l]
      <4>1. s[m + 1] = LF
        BY <1>2, <2>1, <2>5
      <4> QED
        BY <1>1, <2>1, <4>1
    <3>2. l \in k..n /\ l - 1 \in k..n /\ l - 1 < l /\ l \in 1..n
      BY <1>1
    <3>3. Reaches(cut, n, m, l - 1)
      <4>1. cut[l - 1] \in Int /\ cut[l - 1] < m + 1
        BY <1>1, <3>1, <3>2
      <4>2. cut[l - 1] <= m
        BY <2>1, <4>1
      <4>3. ASSUME NEW x \in ((l - 1) + 1)..n
            PROVE  m < cut[x]
        <5>1. x \in k..n /\ (x = l \/ l < x) /\ cut[x] \in Int
          BY <1>1, <3>2
        <5>2. m + 1 <= cut[x]
          BY <1>1, <2>1, <3>1, <3>2, <5>1
        <5> QED
          BY <2>1, <5>1, <5>2
      <4> QED
        BY <4>2, <4>3 DEF Reaches
    <3> DEFINE piece == SubSeq(t, last_newline(t, m) + 1, m)
               said == Gives(written, lost, l)
    <3>4. piece \in Seq(Symbol) /\ Said(piece) = said
      <4>1. cut[l] <= Len(t) /\ cut[l] - 1 = m
        BY <2>1, <3>1
      <4>2. /\ SubSeq(t, last_newline(t, cut[l] - 1) + 1, cut[l] - 1) \in Seq(Symbol)
            /\ Said(SubSeq(t, last_newline(t, cut[l] - 1) + 1, cut[l] - 1)) = said
        BY <4>1, PieceSaid DEF n
      <4> HIDE DEF said
      <4> QED
        BY <4>1, <4>2
    <3>5. Handed(t)[m + 1] = h \o said
      <4>1. Handed(t)[m + 1] = h \o Said(SubSeq(t, last_newline(t, (m + 1) - 1) + 1, (m + 1) - 1))
        BY <2>3, <2>5, Zenon DEF HandedStep
      <4> HIDE DEF said, h
      <4> QED
        BY <2>1, <3>4, <4>1
    <3>6. said \in Seq(Spoken) /\ Len(said) <= 1 /\ Len(said) \in Nat
      BY <3>4, SaidTyped, LenProperties
    <3>7. Handed(t)[m + 1] \in Seq(Spoken) /\ Len(Handed(t)[m + 1]) = Len(h) + Len(said)
      <4> HIDE DEF said, h
      <4> QED
        BY <2>2, <3>5, <3>6, ConcatProperties
    <3>8. Good(m, l - 1)
      BY <2>2, <3>2, <3>3
    <3>9. ASSUME NEW j \in k..n, Reaches(cut, n, m + 1, j)
          PROVE  j = l
      <4>1. cut[j] \in Int /\ cut[j] <= m + 1
        BY <1>1, <3>9 DEF Reaches
      <4>2. ~(l < j)
        BY <1>1, <3>1, <3>2, <4>1
      <4>3. ~(j < l)
        <5>1. j < l => l \in (j + 1)..n
          BY <1>1, <3>2
        <5>2. j < l => m + 1 < cut[l]
          BY <3>9, <5>1 DEF Reaches
        <5> QED
          BY <2>1, <3>1, <5>2
      <4> QED
        BY <1>1, <4>2, <4>3
    <3>10. Good(m + 1, l)
      <4>1. Len(Handed(t)[m + 1]) <= l - k
        <5>1. Len(h) <= (l - 1) - k /\ Len(h) \in Nat
          BY <2>2, <3>8, LenProperties
        <5> HIDE DEF said, h
        <5> QED
          BY <1>1, <3>2, <3>6, <3>7, <5>1
      <4>2. ASSUME Understood, before = Meant(written, lost)[k]
            PROVE  before \o Handed(t)[m + 1] = Meant(written, lost)[l]
        <5>1. before \o h = Meant(written, lost)[l - 1]
          BY <3>8, <4>2
        <5>2. before \o (h \o said) = Meant(written, lost)[l]
          <6>1. /\ Understood /\ written \in Seq(Line) /\ l \in 1..Len(written)
                /\ h \in Seq(Spoken)
            BY <1>3, <2>2, <3>2, <4>2 DEF n
          <6> HIDE DEF h
          <6>2. before \o (h \o Gives(written, lost, l)) = Meant(written, lost)[l]
            BY <5>1, <6>1, MeantJoins
          <6> QED
            BY <6>2
        <5> HIDE DEF said, h
        <5> QED
          BY <3>5, <5>2
      <4> QED
        BY <4>1, <4>2
    <3> HIDE DEF Good
    <3>11. \A j \in k..n : Reaches(cut, n, m + 1, j) => Good(m + 1, j)
      BY <3>9, <3>10
    <3> QED
      BY <2>1, <3>7, <3>11
  <2> QED
    BY <2>4, <2>5
<1>7. i \in S
  <2> HIDE DEF S
  <2>1. i \in Nat
    BY <1>2
  <2> QED
    BY <1>5, <1>6, <2>1, SetInduction
<1> QED
  BY <1>7 DEF n, Told

-----------------------------------------------------------------------------
(* The buffer and the pipe.                                                *)

\* As many lines are unfinished as there are line feeds in the pipe.
LEMMA FeedsCounted ==
    ASSUME NEW b \in Seq(Symbol), NEW p \in Seq(Symbol),
           NEW written, NEW k, NEW cut, Framed(b \o p, written, k, cut),
           \A i \in 1..Len(b) : b[i] # LF
    PROVE  Cardinality({i \in DOMAIN p : p[i] = LF}) = Len(written) - k
<1> DEFINE s == b \o p
           n == Len(written)
           feeds == {i \in DOMAIN p : p[i] = LF}
           f == [j \in (k + 1)..n |-> cut[j] - Len(b)]
<1>0. Framed(s, written, k, cut)
  OBVIOUS
<1> HIDE DEF s
<1>1. /\ Len(s) \in Nat /\ n \in Nat /\ k \in 0..n /\ k \in Nat
      /\ \A i, j \in k..n : i < j => cut[i] < cut[j]
      /\ \A j \in (k + 1)..n : cut[j] \in 1..Len(s) /\ s[cut[j]] = LF
      /\ \A i \in 1..Len(s) : s[i] = LF => \E j \in (k + 1)..n : i = cut[j]
  BY <1>0, FrameFacts
<1>2. /\ Len(b) \in Nat /\ Len(p) \in Nat /\ DOMAIN p = 1..Len(p) /\ Len(s) = Len(b) + Len(p)
      /\ \A i \in 1..(Len(b) + Len(p)) : s[i] = IF i <= Len(b) THEN b[i] ELSE p[i - Len(b)]
  BY ConcatProperties, LenProperties DEF s
<1> HIDE DEF n
<1>3. ASSUME NEW j \in (k + 1)..n
      PROVE  cut[j] - Len(b) \in feeds
  <2>1. cut[j] \in 1..(Len(b) + Len(p)) /\ s[cut[j]] = LF
    BY <1>1, <1>2
  <2>2. ~(cut[j] <= Len(b))
    <3>1. cut[j] <= Len(b) => cut[j] \in 1..Len(b) /\ s[cut[j]] = b[cut[j]]
      BY <1>2, <2>1
    <3> QED
      BY <2>1, <3>1
  <2>3. cut[j] - Len(b) \in 1..Len(p) /\ s[cut[j]] = p[cut[j] - Len(b)]
    BY <1>2, <2>1, <2>2
  <2> QED
    BY <1>2, <2>1, <2>3
<1>4. f \in [(k + 1)..n -> feeds]
  BY <1>3
<1>5. ASSUME NEW i \in feeds
      PROVE  \E j \in (k + 1)..n : f[j] = i
  <2>1. i \in 1..Len(p) /\ p[i] = LF
    BY <1>2
  <2>2. i + Len(b) \in 1..Len(s) /\ s[i + Len(b)] = LF
    <3>1. i + Len(b) \in 1..(Len(b) + Len(p)) /\ ~(i + Len(b) <= Len(b)) /\ (i + Len(b)) - Len(b) = i
      BY <1>2, <2>1
    <3> QED
      BY <1>2, <2>1, <3>1
  <2>3. PICK j \in (k + 1)..n : i + Len(b) = cut[j]
    BY <1>1, <2>2
  <2>4. f[j] = i
    BY <1>2, <2>1, <2>3
  <2> QED
    BY <2>4
<1>6. ASSUME NEW i \in (k + 1)..n, NEW j \in (k + 1)..n, f[i] = f[j]
      PROVE  i = j
  <2>1. i \in k..n /\ j \in k..n /\ cut[i] \in Int /\ cut[j] \in Int /\ i \in Int /\ j \in Int
    BY <1>1
  <2>2. cut[i] = cut[j]
    <3>1. cut[i] - Len(b) = cut[j] - Len(b)
      BY <1>6
    <3> QED
      BY <1>2, <2>1, <3>1
  <2>3. ~(i < j) /\ ~(j < i)
    BY <1>1, <2>1, <2>2
  <2> QED
    BY <2>1, <2>3
<1> HIDE DEF f, feeds
<1>7. f \in Bijection((k + 1)..n, feeds)
  BY <1>4, <1>5, <1>6 DEF Bijection, Injection, Surjection, IsInjective
<1>8. IsFiniteSet((k + 1)..n) /\ Cardinality((k + 1)..n) = n - k
  <2>1. k + 1 \in Int /\ n \in Int
    BY <1>1
  <2>2. /\ IsFiniteSet((k + 1)..n)
        /\ Cardinality((k + 1)..n) = IF k + 1 > n THEN 0 ELSE n - (k + 1) + 1
    BY <2>1, FS_Interval
  <2> QED
    BY <1>1, <2>2
<1>9. Cardinality(feeds) = Cardinality((k + 1)..n)
  BY <1>7, <1>8, FS_Bijection DEF ExistsBijection
<1> QED
  BY <1>8, <1>9 DEF feeds, n

\* A sequence without its first d members.
LEMMA Rear ==
    ASSUME NEW s \in Seq(Symbol), NEW d \in 0..Len(s)
    PROVE  /\ SubSeq(s, d + 1, Len(s)) \in Seq(Symbol)
           /\ Len(SubSeq(s, d + 1, Len(s))) = Len(s) - d
           /\ \A i \in 1..(Len(s) - d) : SubSeq(s, d + 1, Len(s))[i] = s[d + i]
<1> DEFINE l == Len(s)
           q == SubSeq(s, d + 1, l)
<1>1. l \in Nat /\ \A i \in 1..l : s[i] \in Symbol
  BY LenProperties, ElementOfSeq
<1> HIDE DEF l
<1>2. d \in 0..l
  BY DEF l
<1>3. d + 1 \in Int /\ l \in Int /\ \A i \in (d + 1)..l : s[i] \in Symbol
  BY <1>1, <1>2
<1>4. /\ q \in Seq(Symbol) /\ Len(q) = (IF d + 1 <= l THEN l - (d + 1) + 1 ELSE 0)
      /\ \A i \in 1..(l - (d + 1) + 1) : q[i] = s[(d + 1) + i - 1]
  BY <1>3, SubSeqProperties
<1> HIDE DEF q
<1>5. Len(q) = l - d /\ l - (d + 1) + 1 = l - d
  BY <1>1, <1>2, <1>4
<1>6. ASSUME NEW i \in 1..(l - d)
      PROVE  q[i] = s[d + i]
  <2>1. (d + 1) + i - 1 = d + i
    BY <1>1, <1>2
  <2> QED
    BY <1>4, <1>5, <2>1
<1> QED
  BY <1>4, <1>5, <1>6 DEF q, l

\* The bytes behind the first d of two pieces.
LEMMA RearBehind ==
    ASSUME NEW s \in Seq(Symbol), NEW rest \in Seq(Symbol), NEW d \in 0..Len(s)
    PROVE  Behind(SubSeq(s, d + 1, Len(s)) \o rest, s \o rest, d)
<1> DEFINE q == SubSeq(s, d + 1, Len(s))
           t == q \o rest
           whole == s \o rest
           l == Len(s)
           r == Len(rest)
<1>1. l \in Nat /\ r \in Nat /\ d \in 0..l
  BY LenProperties
<1>2. /\ q \in Seq(Symbol) /\ Len(q) = l - d
      /\ \A i \in 1..(l - d) : q[i] = s[d + i]
  BY Rear
<1> HIDE DEF q
<1>3. /\ t \in Seq(Symbol) /\ Len(t) = (l - d) + r
      /\ \A i \in 1..((l - d) + r) : t[i] = IF i <= l - d THEN q[i] ELSE rest[i - (l - d)]
  <2>1. /\ t \in Seq(Symbol) /\ Len(t) = Len(q) + r
        /\ \A i \in 1..(Len(q) + r) : t[i] = IF i <= Len(q) THEN q[i] ELSE rest[i - Len(q)]
    BY <1>2, ConcatProperties
  <2> HIDE DEF t, l, r
  <2> QED
    BY <1>2, <2>1
<1>4. Len(whole) = l + r /\ \A i \in 1..(l + r) : whole[i] = IF i <= l THEN s[i] ELSE rest[i - l]
  BY ConcatProperties
<1> HIDE DEF t, whole, l, r
<1>5. Len(t) = Len(whole) - d /\ d \in 0..Len(whole)
  BY <1>1, <1>3, <1>4
<1>6. ASSUME NEW i \in 1..Len(t)
      PROVE  t[i] = whole[i + d]
  <2>1. i \in 1..((l - d) + r) /\ i + d \in 1..(l + r)
    BY <1>1, <1>3
  <2>2. CASE i <= l - d
    <3>1. i + d <= l /\ i + d = d + i /\ i \in 1..(l - d)
      BY <1>1, <2>1, <2>2
    <3>2. whole[i + d] = s[d + i]
      BY <1>4, <2>1, <3>1
    <3> QED
      BY <1>2, <1>3, <2>1, <2>2, <3>1, <3>2
  <2>3. CASE ~(i <= l - d)
    <3>1. ~(i + d <= l) /\ (i + d) - l = i - (l - d)
      BY <1>1, <2>1, <2>3
    <3>2. whole[i + d] = rest[(i + d) - l]
      BY <1>4, <2>1, <3>1
    <3>3. t[i] = rest[i - (l - d)]
      BY <1>3, <2>1, <2>3
    <3> QED
      BY <3>1, <3>2, <3>3
  <2> QED
    BY <2>2, <2>3
<1> QED
  BY <1>3, <1>5, <1>6 DEF Behind, t, whole, q, l, r

LEMMA FrontPrefix ==
    ASSUME NEW s \in Seq(Symbol), NEW rest \in Seq(Symbol)
    PROVE  Prefix(s, s \o rest)
<1> DEFINE whole == s \o rest
           l == Len(s)
           r == Len(rest)
<1>1. l \in Nat /\ r \in Nat
  BY LenProperties
<1>2. Len(whole) = l + r /\ \A i \in 1..(l + r) : whole[i] = IF i <= l THEN s[i] ELSE rest[i - l]
  BY ConcatProperties
<1> HIDE DEF whole, l, r
<1>3. l <= Len(whole) /\ \A i \in 1..l : whole[i] = s[i]
  BY <1>1, <1>2
<1> QED
  BY <1>3 DEF Prefix, whole, l

\* The bytes a read takes and those behind it.
LEMMA ReadPieces ==
    ASSUME NEW b \in Seq(Symbol), NEW p \in Seq(Symbol), NEW n \in 0..Len(p)
    PROVE  /\ SubSeq(p, 1, n) \in Seq(Symbol) /\ SubSeq(p, n + 1, Len(p)) \in Seq(Symbol)
           /\ b \o SubSeq(p, 1, n) \in Seq(Symbol)
           /\ Len(b \o SubSeq(p, 1, n)) = Len(b) + n
           /\ \A i \in 1..Len(b) : (b \o SubSeq(p, 1, n))[i] = b[i]
           /\ (b \o SubSeq(p, 1, n)) \o SubSeq(p, n + 1, Len(p)) = b \o p
<1> DEFINE l == Len(b)
           m == Len(p)
           inc == SubSeq(p, 1, n)
           rest == SubSeq(p, n + 1, m)
           s == b \o inc
<1>1. l \in Nat /\ m \in Nat /\ n \in 0..m /\ \A i \in 1..m : p[i] \in Symbol
  BY LenProperties, ElementOfSeq
<1>2. inc \o rest = p
  <2>1. 1 \in 1..(Len(p) + 1) /\ n \in (1 - 1)..Len(p) /\ Len(p) \in n..Len(p)
    BY <1>1
  <2>2. inc \o rest = SubSeq(p, 1, Len(p))
    BY <2>1, ConcatAdjacentSubSeq
  <2> QED
    BY <2>2, SubSeqFull
<1>3. rest \in Seq(Symbol)
  BY Rear
<1> HIDE DEF l, m
<1>4. inc \in Seq(Symbol) /\ Len(inc) = n
  <2>1. 1 \in Int /\ n \in Int /\ \A i \in 1..n : p[i] \in Symbol
    BY <1>1
  <2>2. inc \in Seq(Symbol) /\ Len(inc) = (IF 1 <= n THEN n - 1 + 1 ELSE 0)
    BY <2>1, SubSeqProperties
  <2> HIDE DEF inc
  <2> QED
    BY <1>1, <2>2
<1> HIDE DEF inc, rest
<1>5. /\ s \in Seq(Symbol) /\ Len(s) = l + n
      /\ \A i \in 1..(l + n) : s[i] = IF i <= l THEN b[i] ELSE inc[i - l]
  BY <1>4, ConcatProperties DEF l
<1>6. \A i \in 1..l : s[i] = b[i]
  BY <1>1, <1>5
<1>7. s \o rest = b \o (inc \o rest)
  <2>1. Associative(Seq(Symbol))
    BY SeqAssociative
  <2> QED
    BY <1>3, <1>4, <2>1, ZenonT(30) DEF Associative
<1> QED
  BY <1>2, <1>3, <1>4, <1>5, <1>6, <1>7 DEF s, l, m, inc, rest

-----------------------------------------------------------------------------
(* The invariant.                                                          *)

\* The account of the lines: k are finished, the others are in the buffer and
\* the pipe, and what was handled is, if the parser is sound, what the finished
\* ones were written for.
Account(k, cut, lost, sound) ==
    /\ Framed(logcat_buf \o pipe, lines, k, cut)
    /\ Lost(lines, k, cut, lost)
    /\ Len(handled) <= k
    /\ sound => handled = Meant(lines, lost)[k]

Stored ==
    /\ pipe \in Seq(Symbol) /\ logcat_buf \in Seq(Symbol)
    /\ lines \in Seq(Line) /\ handled \in Seq(Spoken)
    /\ Len(lines) <= MaxLines
    /\ Len(logcat_buf) <= BufCap
    /\ \A i \in 1..Len(logcat_buf) : logcat_buf[i] # LF

StreamInv(sound) == Stored /\ \E k, cut, lost : Account(k, cut, lost, sound)

LEMMA InitKeeps ==
    ASSUME Init, NEW sound
    PROVE  StreamInv(sound)
<1>1. pipe = <<>> /\ logcat_buf = <<>> /\ lines = <<>> /\ handled = <<>>
  BY DEF Init
<1>2. Len(<<>>) = 0 /\ <<>> \in Seq(Symbol) /\ <<>> \in Seq(Line) /\ <<>> \in Seq(Spoken)
  BY EmptySeq
<1>3. Stored
  BY <1>1, <1>2, SizeAssumption DEF Stored
<1> DEFINE cut == [j \in 0..0 |-> 0]
<1>4. logcat_buf \o pipe = <<>>
  <2>1. <<>> \o <<>> = <<>>
    BY <1>2, ConcatEmptySeq
  <2> QED
    BY <1>1, <2>1
<1>5. Framed(<<>>, lines, 0, cut)
  <2>1. \A i : i \notin 1..0
    OBVIOUS
  <2>2. cut \in [0..0 -> Int] /\ cut[0] = 0 /\ \A i, j \in 0..0 : ~(i < j)
    OBVIOUS
  <2> HIDE DEF cut
  <2>3. \A i : i \notin (0 + 1)..0
    OBVIOUS
  <2> QED
    BY <1>1, <1>2, <2>1, <2>2, <2>3 DEF Framed
<1>6. Lost(lines, 0, cut, {})
  BY DEF Lost
<1>7. Meant(lines, {})[0] = <<>>
  BY <1>1, <1>2, MeantDef
<1> HIDE DEF cut
<1>8. Account(0, cut, {}, sound)
  BY <1>1, <1>2, <1>4, <1>5, <1>6, <1>7 DEF Account
<1> QED
  BY <1>3, <1>8 DEF StreamInv

\* A line written goes to the end of the stream.
LEMMA WritesLonger ==
    ASSUME NEW b \in Seq(Symbol), NEW p \in Seq(Symbol), NEW line \in Line,
           NEW ending \in {<<LF>>, <<Sym("CR"), LF>>}
    PROVE  LET q == p \o line.text \o ending IN
           /\ q \in Seq(Symbol)
           /\ \E w \in Wholes(line) : Longer(b \o q, b \o p, w)
<1> DEFINE q == (p \o line.text) \o ending
           s == b \o p
           t == b \o q
           feed == <<LF>>
           cr == <<Sym("CR")>>
<1>1. Associative(Seq(Symbol))
  BY SeqAssociative
<1>2. feed \in Seq(Symbol) /\ Len(feed) = 1 /\ feed[1] = LF
  <2>1. LF \in Symbol
    BY DEF Symbol
  <2> QED
    BY <2>1
<1>3. cr \in Seq(Symbol)
  <2>1. Sym("CR") \in Symbol
    BY DEF Symbol
  <2> QED
    BY <2>1
<1>4. line.text \in Seq(Symbol)
  BY WholeTyped DEF Wholes
<1>5. PICK w \in Wholes(line) : (p \o line.text) \o ending = p \o (w \o feed) /\ w \in Seq(Symbol)
  <2>1. CASE ending = feed
    <3>1. (p \o line.text) \o feed = p \o (line.text \o feed)
      BY <1>1, <1>2, <1>4, Zenon DEF Associative
    <3> QED
      BY <1>4, <2>1, <3>1 DEF Wholes
  <2>2. CASE ending = <<Sym("CR"), LF>>
    <3>1. <<Sym("CR"), LF>> = cr \o feed
      OBVIOUS
    <3> DEFINE text == line.text
               whole == text \o cr
    <3>2. whole \in Seq(Symbol)
      BY <1>3, <1>4, ConcatProperties
    <3>3. cr \o feed \in Seq(Symbol)
      BY <1>2, <1>3, ConcatProperties
    <3> HIDE DEF cr, feed
    <3>4. (p \o text) \o (cr \o feed) = p \o (text \o (cr \o feed))
      BY <1>1, <1>4, <3>3, Zenon DEF Associative
    <3>5. text \o (cr \o feed) = whole \o feed
      BY <1>1, <1>2, <1>3, <1>4, ZenonT(30) DEF Associative
    <3>6. (p \o text) \o ending = p \o (whole \o feed)
      BY <2>2, <3>1, <3>4, <3>5
    <3>7. whole \in Wholes(line)
      BY DEF Wholes, cr
    <3> HIDE DEF text, whole
    <3> QED
      BY <3>2, <3>6, <3>7 DEF text
  <2> QED
    BY <2>1, <2>2
<1> HIDE DEF feed, cr
<1>6. w \o feed \in Seq(Symbol)
  BY <1>2, <1>5, ConcatProperties
<1>7. q \in Seq(Symbol)
  BY <1>5, <1>6, ConcatProperties
<1>8. t = (b \o p) \o (w \o feed)
  <2>1. t = b \o (p \o (w \o feed))
    BY <1>5
  <2> HIDE DEF t
  <2> QED
    BY <1>1, <1>6, <2>1, Zenon DEF Associative
<1>9. s \in Seq(Symbol)
  BY ConcatProperties
<1> HIDE DEF q, t, s
<1>10. t = (s \o w) \o feed
  <2>1. s \o (w \o feed) = (s \o w) \o feed
    BY <1>1, <1>2, <1>5, <1>9, Zenon DEF Associative
  <2> QED
    BY <1>8, <2>1 DEF s
<1> DEFINE u == s \o w
           l == Len(s)
           m == Len(w)
<1>11. /\ u \in Seq(Symbol) /\ Len(u) = l + m /\ l \in Nat /\ m \in Nat
       /\ \A i \in 1..(l + m) : u[i] = IF i <= l THEN s[i] ELSE w[i - l]
  BY <1>5, <1>9, ConcatProperties, LenProperties
<1> HIDE DEF u
<1>12. /\ t \in Seq(Symbol) /\ Len(t) = Len(u) + Len(feed)
       /\ \A i \in 1..(Len(u) + Len(feed)) : t[i] = IF i <= Len(u) THEN u[i] ELSE feed[i - Len(u)]
  <2>1. t = u \o feed
    BY <1>10 DEF u
  <2>2. u \in Seq(Symbol) /\ feed \in Seq(Symbol)
    BY <1>2, <1>11
  <2> QED
    BY <2>1, <2>2, ConcatProperties
<1> HIDE DEF l, m
<1>13. /\ Len(t) = l + m + 1
       /\ \A i \in 1..(l + m) : t[i] = u[i]
       /\ t[l + m + 1] = LF
  <2>1. Len(u) + Len(feed) = l + m + 1
    BY <1>2, <1>11
  <2>2. \A i \in 1..(l + m) : i \in 1..(l + m + 1) /\ i <= l + m
    BY <1>11
  <2>3. l + m + 1 \in 1..(l + m + 1) /\ ~(l + m + 1 <= l + m) /\ (l + m + 1) - (l + m) = 1
    BY <1>11
  <2> QED
    BY <1>2, <1>11, <1>12, <2>1, <2>2, <2>3
<1>14. \A i \in 1..l : i \in 1..(l + m) /\ t[i] = s[i]
  BY <1>11, <1>13
<1>15. ASSUME NEW i \in 1..m
       PROVE  t[l + i] = w[i]
  <2>1. l + i \in 1..(l + m) /\ ~(l + i <= l) /\ (l + i) - l = i
    BY <1>11
  <2> QED
    BY <1>11, <1>13, <2>1
<1>16. Longer(t, s, w)
  BY <1>12, <1>13, <1>14, <1>15 DEF Longer, l, m
<1> QED
  BY <1>7, <1>16 DEF q, s, t

LEMMA WriteKeeps ==
    ASSUME NEW sound, StreamInv(sound), NEW line \in Line, LogcatWrites(line)
    PROVE  StreamInv(sound)'
<1> DEFINE n == Len(lines)
<1>1. PICK k, cut, lost : Account(k, cut, lost, sound)
  BY DEF StreamInv
<1>2. /\ Framed(logcat_buf \o pipe, lines, k, cut) /\ Lost(lines, k, cut, lost)
      /\ Len(handled) <= k
      /\ sound => handled = Meant(lines, lost)[k]
  BY <1>1 DEF Account
<1>3. PICK ending \in {<<LF>>, <<Sym("CR"), LF>>} : pipe' = (pipe \o line.text) \o ending
  BY DEF LogcatWrites
<1>4. lines' = Append(lines, line) /\ Len(lines) < MaxLines /\ UNCHANGED <<logcat_buf, handled>>
  BY DEF LogcatWrites
<1>5. pipe' \in Seq(Symbol)
  BY <1>3, WritesLonger DEF StreamInv, Stored
<1>6. PICK w \in Wholes(line) : Longer(logcat_buf \o pipe', logcat_buf \o pipe, w)
  BY <1>3, WritesLonger DEF StreamInv, Stored
<1>7. /\ lines' \in Seq(Line) /\ Len(lines') = n + 1
      /\ \A i \in 1..n : lines'[i] = lines[i]
  BY <1>4, AppendProperties DEF StreamInv, Stored
<1>8. n \in Nat /\ k \in 0..n /\ k \in Nat /\ \A j \in k..n : cut[j] \in Int
  BY <1>2, FrameFacts
<1>9. Stored'
  BY <1>4, <1>5, <1>7, <1>8, SizeAssumption DEF StreamInv, Stored
<1> PICK more : more = Extended(cut, k, n, Len(logcat_buf \o pipe'))
  OBVIOUS
<1>10. Framed(logcat_buf \o pipe', lines', k, more)
  BY <1>2, <1>4, <1>6, FramedLonger
<1>11. more[k] = cut[k]
  BY <1>8 DEF Extended
<1> HIDE DEF n
<1>12. Lost(lines', k, more, lost)
  <2>1. \A j \in lost : j \in 1..n /\ j <= k + 1 /\ Oversized(lines[j])
    BY <1>2 DEF Lost, n
  <2>2. \A j \in 1..n : j \in 1..(n + 1)
    BY <1>8
  <2> QED
    BY <1>2, <1>7, <1>11, <2>1, <2>2 DEF Lost, Oversized
<1>13. Meant(lines', lost)[k] = Meant(lines, lost)[k]
  <2>1. Len(lines) \in Nat /\ Len(lines') \in Nat /\ k <= Len(lines) /\ k <= Len(lines')
    BY <1>7, <1>8 DEF n
  <2>2. \A i \in 1..k : lines'[i] = lines[i] /\ (i \in lost <=> i \in lost)
    BY <1>7, <1>8
  <2> QED
    BY <1>8, <2>1, <2>2, MeantAgrees
<1>14. Account(k, more, lost, sound)'
  <2>1. Framed(logcat_buf \o pipe, lines, k, more)'
    BY <1>4, <1>10
  <2>2. Lost(lines, k, more, lost)'
    BY <1>12
  <2>3. (Len(handled) <= k)'
    BY <1>2, <1>4
  <2>4. (sound => handled = Meant(lines, lost)[k])'
    BY <1>2, <1>4, <1>13
  <2> QED
    BY <2>1, <2>2, <2>3, <2>4 DEF Account
<1> QED
  BY <1>9, <1>14 DEF StreamInv

\* The last line whose feed is among the bytes of the buffer and of a read.
LEMMA LastFed ==
    ASSUME NEW s, NEW rest, NEW written, NEW k, NEW cut,
           s \in Seq(Symbol), rest \in Seq(Symbol), Framed(s \o rest, written, k, cut),
           NEW d, d = last_newline(s, Len(s))
    PROVE  \E m \in k..Len(written) :
             /\ cut[m] <= d
             /\ Reaches(cut, Len(written), Len(s), m)
             /\ d = 0 => m = k
             /\ d # 0 => m # k /\ cut[m] = d
<1> DEFINE n == Len(written)
           l == Len(s)
           r == Len(rest)
           whole == s \o rest
<1>1. /\ n \in Nat /\ k \in 0..n /\ k \in Nat /\ cut[k] <= 0
      /\ \A j \in k..n : cut[j] \in Int
      /\ \A i, j \in k..n : i < j => cut[i] < cut[j]
      /\ \A j \in (k + 1)..n : cut[j] \in 1..Len(whole) /\ whole[cut[j]] = LF
      /\ \A i \in 1..Len(whole) : whole[i] = LF => \E j \in (k + 1)..n : i = cut[j]
  <2> DEFINE w == whole
  <2>1. Framed(w, written, k, cut)
    OBVIOUS
  <2> HIDE DEF w
  <2>2. /\ n \in Nat /\ k \in 0..n /\ k \in Nat /\ cut[k] <= 0
        /\ \A j \in k..n : cut[j] \in Int
        /\ \A i, j \in k..n : i < j => cut[i] < cut[j]
        /\ \A j \in (k + 1)..n : cut[j] \in 1..Len(w) /\ w[cut[j]] = LF
        /\ \A i \in 1..Len(w) : w[i] = LF => \E j \in (k + 1)..n : i = cut[j]
    BY <2>1, FrameFacts
  <2> QED
    BY <2>2 DEF w
<1>2. /\ l \in Nat /\ r \in Nat /\ Len(whole) = l + r
      /\ \A i \in 1..(l + r) : whole[i] = IF i <= l THEN s[i] ELSE rest[i - l]
  BY ConcatProperties, LenProperties
<1>3. d \in 0..l /\ (d = 0 \/ s[d] = LF) /\ \A j \in (d + 1)..l : s[j] # LF
  BY <1>2, LastNewline DEF IsLast
<1> HIDE DEF n, l, r, whole
\* A line whose feed is behind d is not fed.
<1>4. ASSUME NEW j \in (k + 1)..n, d < cut[j]
      PROVE  l < cut[j]
  <2>1. cut[j] \in 1..(l + r) /\ whole[cut[j]] = LF
    BY <1>1, <1>2
  <2>2. ~(cut[j] <= l)
    <3>1. cut[j] <= l => cut[j] \in (d + 1)..l /\ whole[cut[j]] = s[cut[j]]
      BY <1>2, <1>3, <1>4, <2>1
    <3> QED
      BY <1>3, <2>1, <3>1
  <2> QED
    BY <1>2, <2>1, <2>2
<1>5. CASE d = 0
  <2>1. k \in k..n /\ cut[k] <= l /\ cut[k] \in Int
    <3>1. k \in k..n
      BY <1>1
    <3> QED
      BY <1>1, <1>2, <3>1
  <2>2. \A j \in (k + 1)..n : l < cut[j]
    <3>1. \A j \in (k + 1)..n : 0 < cut[j]
      BY <1>1
    <3> QED
      BY <1>4, <1>5, <3>1
  <2> QED
    BY <1>1, <1>5, <2>1, <2>2 DEF Reaches, n, l
<1>6. CASE d # 0
  <2>1. d \in 1..l /\ d \in 1..(l + r) /\ whole[d] = LF
    <3>1. d \in 1..l /\ d \in 1..(l + r) /\ d <= l
      BY <1>2, <1>3, <1>6
    <3> QED
      BY <1>2, <1>3, <1>6, <3>1
  <2>2. PICK m \in (k + 1)..n : d = cut[m]
    BY <1>1, <1>2, <2>1
  <2>3. m \in k..n /\ m # k /\ cut[m] <= d /\ cut[m] <= l
    BY <1>1, <1>2, <2>1, <2>2
  <2>4. ASSUME NEW j \in (m + 1)..n
        PROVE  l < cut[j]
    <3>1. j \in (k + 1)..n /\ j \in k..n /\ m < j
      BY <1>1, <2>2
    <3>2. d < cut[j]
      BY <1>1, <2>2, <2>3, <3>1
    <3> QED
      BY <1>4, <3>1, <3>2
  <2> QED
    BY <1>6, <2>2, <2>3, <2>4 DEF Reaches, n, l
<1> QED
  BY <1>5, <1>6

\* A read hands on the lines it finishes and keeps the others, unless the one at
\* the front grows too long: that one is lost.
LEMMA ReadKeeps ==
    ASSUME NEW sound, StreamInv(sound), sound => Understood, sound \in BOOLEAN,
           NEW c \in 1..ReadMax, Read(c)
    PROVE  StreamInv(sound)'
<1> DEFINE n == Len(lines)
           inc == SubSeq(pipe, 1, c)
           rest == SubSeq(pipe, c + 1, Len(pipe))
           s == logcat_buf \o inc
           d == last_newline(s, Len(s))
<1>1. PICK k, cut, lost : Account(k, cut, lost, sound)
  BY DEF StreamInv
<1>2. /\ Framed(logcat_buf \o pipe, lines, k, cut) /\ Lost(lines, k, cut, lost)
      /\ Len(handled) <= k
      /\ sound => handled = Meant(lines, lost)[k]
  BY <1>1 DEF Account
<1>3. /\ pipe \in Seq(Symbol) /\ logcat_buf \in Seq(Symbol)
      /\ lines \in Seq(Line) /\ handled \in Seq(Spoken)
      /\ Len(lines) <= MaxLines /\ Len(logcat_buf) <= BufCap
      /\ \A i \in 1..Len(logcat_buf) : logcat_buf[i] # LF
  BY DEF StreamInv, Stored
<1>4. Len(pipe) \in Nat /\ Len(logcat_buf) \in Nat /\ c \in Nat /\ c >= 1 /\ c <= ReadMax /\ c \in 0..Len(pipe)
  BY <1>3, LenProperties, SizeAssumption DEF Read
<1>5. /\ inc \in Seq(Symbol) /\ rest \in Seq(Symbol) /\ s \in Seq(Symbol)
      /\ Len(s) = Len(logcat_buf) + c
      /\ \A i \in 1..Len(logcat_buf) : s[i] = logcat_buf[i]
      /\ s \o rest = logcat_buf \o pipe
  BY <1>3, <1>4, ReadPieces
<1>6. /\ pipe' = rest /\ lines' = lines
      /\ handled' = handled \o Handed(s)[Len(s)]
      /\ logcat_buf' = Kept(s)
  BY DEF Read, drain_logcat_lines, EventsIn
<1> HIDE DEF inc, rest, s
<1>7. Framed(s \o rest, lines, k, cut)
  BY <1>2, <1>5
<1>8. /\ Len(s) \in Nat /\ n \in Nat /\ k \in 0..n /\ k \in Nat /\ cut[k] <= 0
      /\ \A j \in k..n : cut[j] \in Int
      /\ cut[n] = Len(s) + Len(rest) /\ Len(rest) \in Nat
      /\ \A i, j \in k..n : i < j => cut[i] < cut[j]
  <2> DEFINE whole == s \o rest
  <2>1. Framed(whole, lines, k, cut)
    BY <1>7
  <2>2. Len(whole) = Len(s) + Len(rest) /\ Len(s) \in Nat /\ Len(rest) \in Nat
    BY <1>5, ConcatProperties, LenProperties
  <2> HIDE DEF whole
  <2> QED
    BY <2>1, <2>2, FrameFacts
<1>9. d \in 0..Len(s) /\ (d = 0 \/ s[d] = LF) /\ \A j \in (d + 1)..Len(s) : s[j] # LF
  BY <1>8, LastNewline DEF IsLast
<1>10. PICK m \in k..n :
         /\ cut[m] <= d
         /\ Reaches(cut, n, Len(s), m)
         /\ d = 0 => m = k
         /\ d # 0 => m # k /\ cut[m] = d
  <2>1. d = last_newline(s, Len(s)) /\ s \in Seq(Symbol) /\ rest \in Seq(Symbol)
    BY <1>5
  <2> HIDE DEF d
  <2>2. \E m \in k..Len(lines) :
          /\ cut[m] <= d
          /\ Reaches(cut, Len(lines), Len(s), m)
          /\ d = 0 => m = k
          /\ d # 0 => m # k /\ cut[m] = d
    BY <1>7, <2>1, LastFed
  <2> QED
    BY <2>2
<1>11. \A j \in (m + 1)..n : Len(s) < cut[j] /\ cut[j] \in Int
  <2>1. \A j \in (m + 1)..n : j \in k..n
    BY <1>8, <1>10
  <2> QED
    BY <1>8, <1>10, <2>1 DEF Reaches
<1> DEFINE said == Handed(s)[Len(s)]
<1>12. /\ said \in Seq(Spoken) /\ Len(said) <= m - k
       /\ sound => handled \o said = Meant(lines, lost)[m]
  <2>1. Prefix(s, s \o rest) /\ Len(s) \in 0..Len(s)
    <3>1. Prefix(s, s \o rest)
      BY <1>5, FrontPrefix
    <3> QED
      BY <1>8, <3>1
  <2>2. /\ said \in Seq(Spoken)
        /\ Reaches(cut, n, Len(s), m) => Told(said, handled, lines, lost, k, m)
    <3> DEFINE whole == s \o rest
               i == Len(s)
    <3>1. /\ Framed(whole, lines, k, cut) /\ Prefix(s, whole)
          /\ Lost(lines, k, cut, lost) /\ handled \in Seq(Spoken) /\ i \in 0..Len(s)
      BY <1>2, <1>3, <1>7, <2>1
    <3> HIDE DEF whole, i
    <3>2. /\ Handed(s)[i] \in Seq(Spoken)
          /\ \A j \in k..Len(lines) :
               Reaches(cut, Len(lines), i, j) => Told(Handed(s)[i], handled, lines, lost, k, j)
      BY <3>1, HandedAt
    <3> QED
      BY <3>2 DEF i
  <2> HIDE DEF said
  <2> QED
    BY <1>2, <1>10, <2>2 DEF Told
<1> HIDE DEF said
<1>13. /\ handled' \in Seq(Spoken) /\ Len(handled') <= m
       /\ sound => handled' = Meant(lines, lost)[m]
  <2>1. handled' = handled \o said
    BY <1>6 DEF said
  <2>2. /\ handled' \in Seq(Spoken) /\ Len(handled') = Len(handled) + Len(said)
        /\ Len(handled) \in Nat /\ Len(said) \in Nat
    BY <1>3, <1>12, <2>1, ConcatProperties, LenProperties
  <2>3. Len(handled') <= m
    BY <1>2, <1>8, <1>10, <1>12, <2>2
  <2> QED
    BY <1>12, <2>1, <2>2, <2>3
<1>14. CASE d = 0 /\ Len(s) > BufCap
  <2>1. m = k /\ logcat_buf' = <<>>
    BY <1>6, <1>10, <1>14 DEF Kept
  <2>2. Behind(rest, s \o rest, Len(s)) /\ logcat_buf' \o pipe' = rest
    <3>1. SubSeq(s, Len(s) + 1, Len(s)) = <<>>
      BY <1>8, SubSeqEmpty
    <3>2. <<>> \o rest = rest
      BY <1>5, ConcatEmptySeq
    <3>3. Len(s) \in 0..Len(s)
      BY <1>8
    <3>4. Behind(SubSeq(s, Len(s) + 1, Len(s)) \o rest, s \o rest, Len(s))
      BY <1>5, <3>3, RearBehind
    <3> QED
      BY <1>6, <2>1, <3>1, <3>2, <3>4
  <2> PICK cut2 : cut2 = Shifted(cut, k, n, Len(s))
    OBVIOUS
  <2>3. Framed(rest, lines, k, cut2)
    <3>1. k \in k..n /\ cut[k] <= Len(s) /\ cut[k] \in Int
      <4>1. k \in k..n
        BY <1>8
      <4> QED
        BY <1>8, <4>1
    <3>2. \A j \in (k + 1)..n : Len(s) < cut[j]
      BY <1>11, <2>1
    <3>3. Framed(rest, lines, k, Shifted(cut, k, Len(lines), Len(s)))
      BY <1>7, <2>2, <3>1, <3>2, FramedBehind
    <3> QED
      BY <3>3
  <2> DEFINE gone == lost \cup {k + 1}
  <2>4. k + 1 \in 1..n /\ cut[k + 1] > Len(s) /\ Oversized(lines[k + 1])
    <3>1. k # n
      <4>1. k = n => Len(s) + Len(rest) <= 0
        BY <1>8
      <4> QED
        BY <1>8, <1>14, <4>1, SizeAssumption
    <3>2. k + 1 \in 1..n /\ k + 1 \in (k + 1)..n /\ k \in k..n
      BY <1>8, <3>1
    <3>3. cut[k + 1] > Len(s) /\ cut[k + 1] \in Int /\ cut[k] \in Int
      BY <1>8, <1>11, <2>1, <3>2
    <3>4. PICK w \in Wholes(lines[k + 1]) : Holds(s \o rest, cut[(k + 1) - 1], cut[k + 1], w)
      BY <1>7, <3>2 DEF Framed
    <3>5. lines[k + 1] \in Line
      BY <1>3, <3>2, ElementOfSeq
    <3>6. /\ Len(w) \in Nat /\ Len(lines[k + 1].text) \in Nat
          /\ Len(w) <= Len(lines[k + 1].text) + 1
      BY <3>5, WholeTyped, LenProperties
    <3>7. cut[k + 1] = cut[k] + Len(w) + 1
      <4>1. (k + 1) - 1 = k
        BY <1>8
      <4> QED
        BY <3>4, <4>1 DEF Holds
    <3>8. Len(lines[k + 1].text) >= BufCap
      <4> DEFINE a == cut[k]
                 b == cut[k + 1]
                 x == Len(w)
                 y == Len(lines[k + 1].text)
                 z == Len(s)
      <4>1. /\ a \in Int /\ b \in Int /\ x \in Nat /\ y \in Nat /\ z \in Nat /\ BufCap \in Nat
            /\ a <= 0 /\ b > z /\ z > BufCap /\ b = a + x + 1 /\ x <= y + 1
        BY <1>8, <1>14, <3>3, <3>6, <3>7, SizeAssumption
      <4> HIDE DEF a, b, x, y, z
      <4>2. y >= BufCap
        BY <4>1
      <4> QED
        BY <4>2 DEF y
    <3> QED
      BY <3>2, <3>3, <3>8 DEF Oversized
  <2>5. Lost(lines, k, cut2, gone)
    <3>1. k \in k..n /\ cut[k] \in Int
      <4>1. k \in k..n
        BY <1>8
      <4> QED
        BY <1>8, <4>1
    <3>2. cut2[k] = cut[k] - Len(s)
      BY <3>1 DEF Shifted
    <3>3. cut2[k] < 0
      BY <1>8, <1>14, <3>1, <3>2, SizeAssumption
    <3>4. ASSUME NEW j \in gone
          PROVE  j \in 1..n /\ j <= k + 1 /\ Oversized(lines[j])
      <4>1. CASE j \in lost
        BY <1>2, <4>1 DEF Lost
      <4>2. CASE j = k + 1
        BY <1>8, <2>4, <4>2
      <4> QED
        BY <4>1, <4>2
    <3> QED
      BY <3>3, <3>4 DEF Lost
  <2>6. Meant(lines, gone)[k] = Meant(lines, lost)[k]
    <3>1. \A i \in 1..k : lines[i] = lines[i] /\ (i \in gone <=> i \in lost)
      BY <1>8
    <3>2. Len(lines) \in Nat /\ k <= Len(lines)
      BY <1>8
    <3> QED
      BY <1>8, <3>1, <3>2, MeantAgrees
  <2> PICK gone2 : gone2 = gone
    OBVIOUS
  <2>7. Account(k, cut2, gone2, sound)'
    <3>1. Framed(logcat_buf \o pipe, lines, k, cut2)'
      BY <1>6, <2>2, <2>3
    <3>2. Lost(lines, k, cut2, gone2)'
      BY <1>6, <2>5
    <3>3. (Len(handled) <= k)'
      BY <1>13, <2>1
    <3>4. (sound => handled = Meant(lines, gone2)[k])'
      BY <1>6, <1>13, <2>1, <2>6
    <3> QED
      BY <3>1, <3>2, <3>3, <3>4 DEF Account
  <2>8. Stored'
    <3>1. Len(<<>>) = 0 /\ <<>> \in Seq(Symbol)
      BY EmptySeq
    <3> QED
      BY <1>3, <1>5, <1>6, <1>13, <2>1, <3>1, SizeAssumption DEF Stored
  <2> QED
    BY <2>7, <2>8 DEF StreamInv
<1>15. CASE ~(d = 0 /\ Len(s) > BufCap)
  <2>1. logcat_buf' = SubSeq(s, d + 1, Len(s))
    BY <1>6, <1>15 DEF Kept, Residue
  <2>2. /\ logcat_buf' \in Seq(Symbol) /\ Len(logcat_buf') = Len(s) - d
        /\ \A i \in 1..(Len(s) - d) : logcat_buf'[i] = s[d + i]
    BY <1>5, <1>9, <2>1, Rear
  <2>3. Behind(logcat_buf' \o pipe', s \o rest, d)
    BY <1>5, <1>6, <1>9, <2>1, RearBehind
  <2> PICK cut2 : cut2 = Shifted(cut, m, n, d)
    OBVIOUS
  <2>4. Framed(logcat_buf' \o pipe', lines, m, cut2)
    <3>1. \A j \in (m + 1)..n : d < cut[j]
      BY <1>8, <1>9, <1>11
    <3>2. Framed(logcat_buf' \o pipe', lines, m, Shifted(cut, m, Len(lines), d))
      BY <1>7, <1>10, <2>3, <3>1, FramedBehind
    <3> QED
      BY <3>2
  <2>5. Lost(lines, m, cut2, lost)
    <3>1. m \in m..n /\ m \in k..n /\ cut2[m] = cut[m] - d /\ cut[m] \in Int /\ m \in Nat
      <4>1. m \in m..n /\ m \in k..n /\ m \in Nat
        BY <1>8, <1>10
      <4> QED
        BY <1>8, <4>1 DEF Shifted
    <3>2. \A j \in lost : j \in 1..n /\ j <= k + 1 /\ Oversized(lines[j])
      BY <1>2 DEF Lost
    <3>3. \A j \in lost : j <= m + 1
      BY <1>8, <1>10, <3>2
    <3>4. CASE d = 0
      <4>1. m = k /\ cut2[m] = cut[k]
        BY <1>10, <3>1, <3>4
      <4> QED
        BY <1>2, <3>2, <4>1 DEF Lost
    <3>5. CASE d # 0
      <4>1. m # k /\ cut2[m] = 0
        BY <1>10, <3>1, <3>5
      <4>2. m + 1 \notin lost
        <5>1. ~(m + 1 <= k + 1)
          BY <1>8, <1>10, <4>1
        <5> QED
          BY <3>2, <5>1
      <4> QED
        BY <3>2, <3>3, <4>1, <4>2 DEF Lost
    <3> QED
      BY <3>4, <3>5
  <2>6. Account(m, cut2, lost, sound)'
    <3>1. Framed(logcat_buf \o pipe, lines, m, cut2)'
      BY <1>6, <2>4
    <3>2. Lost(lines, m, cut2, lost)'
      BY <1>6, <2>5
    <3>3. (Len(handled) <= m)'
      BY <1>13
    <3>4. (sound => handled = Meant(lines, lost)[m])'
      BY <1>6, <1>13
    <3> QED
      BY <3>1, <3>2, <3>3, <3>4 DEF Account
  <2>7. Len(s) - d <= BufCap
    <3>1. CASE d = 0
      BY <1>8, <1>15, <3>1, SizeAssumption
    <3>2. CASE d # 0
      <4>1. d \in 1..Len(s) /\ s[d] = LF
        BY <1>8, <1>9, <3>2
      <4>2. ~(d <= Len(logcat_buf))
        <5>1. d <= Len(logcat_buf) => d \in 1..Len(logcat_buf)
          BY <1>4, <4>1
        <5> QED
          BY <1>3, <1>5, <4>1, <5>1
      <4> QED
        BY <1>4, <1>5, <1>8, <4>1, <4>2, SizeAssumption
    <3> QED
      BY <3>1, <3>2
  <2>8. Stored'
    <3>1. ASSUME NEW i \in 1..Len(logcat_buf')
          PROVE  logcat_buf'[i] # LF
      <4>1. i \in 1..(Len(s) - d) /\ d + i \in (d + 1)..Len(s)
        BY <1>8, <1>9, <2>2
      <4> QED
        BY <1>9, <2>2, <4>1
    <3> HIDE DEF d
    <3> QED
      BY <1>3, <1>5, <1>6, <1>13, <2>2, <2>7, <3>1 DEF Stored
  <2> QED
    BY <2>6, <2>8 DEF StreamInv
<1> QED
  BY <1>14, <1>15

LEMMA StreamInvInductive ==
    ASSUME NEW sound \in BOOLEAN, sound => Understood
    PROVE  /\ Init => StreamInv(sound)
           /\ StreamInv(sound) /\ [Next]_vars => StreamInv(sound)'
<1>1. Init => StreamInv(sound)
  BY InitKeeps
<1>2. StreamInv(sound) /\ [Next]_vars => StreamInv(sound)'
  <2> SUFFICES ASSUME StreamInv(sound), [Next]_vars
               PROVE  StreamInv(sound)'
    OBVIOUS
  <2>1. ASSUME NEW line \in Line, LogcatWrites(line)
        PROVE  StreamInv(sound)'
    BY <2>1, WriteKeeps
  <2>2. ASSUME NEW n \in 1..ReadMax, Read(n)
        PROVE  StreamInv(sound)'
    BY <2>2, ReadKeeps
  <2>3. CASE UNCHANGED vars
    BY <2>3 DEF vars, StreamInv, Stored, Account
  <2> QED
    BY <2>1, <2>2, <2>3 DEF Next
<1> QED
  BY <1>1, <1>2

-----------------------------------------------------------------------------
(* The theorems.                                                           *)

\* Whatever arrives and however the reads cut it, the buffer stays within its
\* bound, holds no finished line, and no line gives more than one event
\* (daemon.rs:574-600).
THEOREM StreamTypeCorrect == Spec => []TypeOK
<1>1. StreamInv(FALSE) => TypeOK
  <2> SUFFICES ASSUME StreamInv(FALSE)
               PROVE  TypeOK
    OBVIOUS
  <2>1. PICK k, cut, lost : Account(k, cut, lost, FALSE)
    BY DEF StreamInv
  <2>2. Len(handled) <= k /\ Framed(logcat_buf \o pipe, lines, k, cut)
    BY <2>1 DEF Account
  <2>3. k \in 0..Len(lines) /\ Len(lines) \in Nat
    BY <2>2, FrameFacts
  <2>4. Len(handled) \in Nat /\ DOMAIN logcat_buf = 1..Len(logcat_buf)
    BY LenProperties DEF StreamInv, Stored
  <2>5. Len(handled) <= Len(lines)
    BY <2>2, <2>3, <2>4
  <2>6. LF \notin Range(logcat_buf)
    BY <2>4 DEF StreamInv, Stored, Range
  <2> QED
    BY <2>5, <2>6 DEF TypeOK, StreamInv, Stored
<1>2. Init => StreamInv(FALSE)
  BY StreamInvInductive
<1>3. StreamInv(FALSE) /\ [Next]_vars => StreamInv(FALSE)'
  BY StreamInvInductive
<1> QED
  BY <1>1, <1>2, <1>3, PTL DEF Spec

\* If the parser makes of each line alone the event it was written for, the
\* events handled are those of the finished lines, in order, once each, and
\* only an oversized line is lost, wherever the reads cut the stream, whatever
\* the sizes of reads, buffer and lines (daemon.rs:574-600).
THEOREM EventsCorrect ==
    ASSUME Understood
    PROVE  Spec => []EventsAsWritten
<1>1. StreamInv(TRUE) => EventsAsWritten
  <2> SUFFICES ASSUME StreamInv(TRUE)
               PROVE  EventsAsWritten
    OBVIOUS
  <2>1. PICK k, cut, lost : Account(k, cut, lost, TRUE)
    BY DEF StreamInv
  <2>2. /\ Framed(logcat_buf \o pipe, lines, k, cut) /\ Lost(lines, k, cut, lost)
        /\ handled = Meant(lines, lost)[k]
    BY <2>1 DEF Account
  <2>3. k \in 0..Len(lines) /\ Len(lines) \in Nat /\ k \in Nat
    BY <2>2, FrameFacts
  <2>4. Finished = k
    <3>1. Cardinality({i \in DOMAIN pipe : pipe[i] = LF}) = Len(lines) - k
      BY <2>2, FeedsCounted DEF StreamInv, Stored
    <3> QED
      BY <2>3, <3>1 DEF Finished
  <2> DEFINE known == lost \ {k + 1}
  <2>5. known \in SUBSET {i \in 1..k : Oversized(lines[i])}
    <3>1. \A j \in lost : j \in 1..Len(lines) /\ j <= k + 1 /\ Oversized(lines[j])
      BY <2>2 DEF Lost
    <3>2. \A j \in known : j \in 1..k
      BY <2>3, <3>1
    <3> QED
      BY <3>1, <3>2
  <2>6. Meant(lines, known)[k] = Meant(lines, lost)[k]
    <3>1. \A i \in 1..k : lines[i] = lines[i] /\ (i \in known <=> i \in lost)
      BY <2>3
    <3>2. k <= Len(lines)
      BY <2>3
    <3> QED
      BY <2>3, <3>1, <3>2, MeantAgrees
  <2> QED
    BY <2>2, <2>4, <2>5, <2>6 DEF EventsAsWritten
<1>2. Init => StreamInv(TRUE)
  BY StreamInvInductive
<1>3. StreamInv(TRUE) /\ [Next]_vars => StreamInv(TRUE)'
  BY StreamInvInductive
<1> QED
  BY <1>1, <1>2, <1>3, PTL DEF Spec

=============================================================================
