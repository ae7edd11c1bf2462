--------------------------- MODULE Lifecycle_proofs ---------------------------
(***************************************************************************)
(* Proofs about modules Telemetry and Lifecycle: for any threshold, buffer,*)
(* number of daemons and failing calls, operations.log keeps its cap and   *)
(* tells one story in order, of which only SIGKILL can cut the end.        *)
(*                                                                         *)
(* Telemetry first: what each operation may do to the story a sink tells,  *)
(* to its size and to its counters.  Then the four inductive invariants of *)
(* Lifecycle, each from the effects of the operations it calls.            *)
(***************************************************************************)
EXTENDS Lifecycle, SequenceTheorems, TLAPS

-----------------------------------------------------------------------------
(* Sequences.                                                              *)

LEMMA InSeq ==
    ASSUME NEW R, NEW a \in Seq(R), NEW b \in Seq(R)
    PROVE  a \o b \in Seq(R)
BY ConcatProperties

\* Concatenation in S needs no brackets.
Associative(S) == \A a, b, c \in S : (a \o b) \o c = a \o (b \o c)

LEMMA SeqAssociative ==
    ASSUME NEW R
    PROVE  Associative(Seq(R))
<1> SUFFICES ASSUME NEW a \in Seq(R), NEW b \in Seq(R), NEW c \in Seq(R)
             PROVE  (a \o b) \o c = a \o (b \o c)
  BY DEF Associative
<1> QED
  BY ConcatAssociative

\* Both files and the buffer, oldest first.
Told(old, log, buffer) == (old \o log) \o buffer

\* Records that move from the buffer to the file stay where they were.
Moves(old, log, front, rest) ==
    /\ Told(old, log \o front, rest) = Told(old, log, front \o rest)
    /\ Len(log \o front) + Len(rest) = Len(log) + Len(front \o rest)

LEMMA MovedRecords ==
    ASSUME NEW R, NEW old \in Seq(R), NEW log \in Seq(R), NEW front \in Seq(R), NEW rest \in Seq(R)
    PROVE  Moves(old, log, front, rest)
<1> DEFINE both == old \o log
<1>1. both \in Seq(R)
  BY InSeq
<1>2. Associative(Seq(R)) /\ (old \o log) \o front = old \o (log \o front)
  <2>1. Associative(Seq(R))
    BY SeqAssociative
  <2> QED
    BY <2>1, Zenon DEF Associative
<1>3. Len(log \o front) + Len(rest) = Len(log) + Len(front \o rest)
  <2>1. /\ Len(log) \in Nat /\ Len(front) \in Nat /\ Len(rest) \in Nat
        /\ Len(log \o front) = Len(log) + Len(front)
        /\ Len(front \o rest) = Len(front) + Len(rest)
    BY LenProperties, ConcatProperties
  <2> QED
    BY <2>1
<1> HIDE DEF both
<1>4. (both \o front) \o rest = both \o (front \o rest)
  BY <1>1, <1>2, Zenon DEF Associative
<1> QED
  BY <1>2, <1>3, <1>4, Zenon DEF both, Moves, Told

\* A record added to the buffer is added to the whole.
Adds(old, log, buffer, r) ==
    /\ Told(old, log, Append(buffer, r)) = Append(Told(old, log, buffer), r)
    /\ Len(Append(buffer, r)) = Len(buffer) + 1

LEMMA AddedRecord ==
    ASSUME NEW R, NEW old \in Seq(R), NEW log \in Seq(R), NEW buffer \in Seq(R), NEW r \in R
    PROVE  Adds(old, log, buffer, r)
<1> DEFINE both == old \o log
<1>1. both \in Seq(R)
  BY InSeq
<1>2. Len(Append(buffer, r)) = Len(buffer) + 1
  BY AppendProperties
<1>3. Append(buffer, r) = buffer \o <<r>> /\ <<r>> \in Seq(R)
  BY AppendIsConcat
<1> HIDE DEF both
<1>4. both \o buffer \in Seq(R)
  BY <1>1, InSeq
<1> DEFINE whole == both \o buffer
           one == <<r>>
<1>5. Append(whole, r) = whole \o one
  BY <1>4, AppendIsConcat
<1>6. (both \o buffer) \o one = both \o (buffer \o one)
  <2>1. Associative(Seq(R))
    BY SeqAssociative
  <2> QED
    BY <1>1, <1>3, <2>1, Zenon DEF Associative
<1> QED
  BY <1>2, <1>3, <1>5, <1>6, Zenon DEF both, Adds, Told

\* A sequence cut in two.
LEMMA Cut ==
    ASSUME NEW R, NEW q \in Seq(R), NEW n \in 0..Len(q)
    PROVE  /\ SubSeq(q, 1, n) \in Seq(R) /\ Len(SubSeq(q, 1, n)) = n
           /\ SubSeq(q, n + 1, Len(q)) \in Seq(R) /\ Len(SubSeq(q, n + 1, Len(q))) = Len(q) - n
           /\ SubSeq(q, 1, n) \o SubSeq(q, n + 1, Len(q)) = q
<1> DEFINE front == SubSeq(q, 1, n)
           rest == SubSeq(q, n + 1, Len(q))
<1>1. /\ Len(q) \in Nat /\ DOMAIN q = 1..Len(q)
      /\ \A i \in 1..Len(q) : q[i] \in R
      /\ 1 \in Int /\ n \in Int /\ n + 1 \in Int /\ Len(q) \in Int
  BY LenProperties, ElementOfSeq
<1>2. front \in Seq(R) /\ Len(front) = n
  <2>1. \A i \in 1..n : q[i] \in R
    BY <1>1
  <2>2. front \in Seq(R) /\ Len(front) = IF 1 <= n THEN n - 1 + 1 ELSE 0
    BY <1>1, <2>1, SubSeqProperties
  <2> HIDE DEF front
  <2> QED
    BY <2>2
<1>3. rest \in Seq(R) /\ Len(rest) = Len(q) - n
  <2>1. \A i \in (n + 1)..Len(q) : q[i] \in R
    BY <1>1
  <2>2. rest \in Seq(R) /\ Len(rest) = IF n + 1 <= Len(q) THEN Len(q) - (n + 1) + 1 ELSE 0
    BY <1>1, <2>1, SubSeqProperties
  <2>3. n \in Int /\ Len(q) \in Int /\ n <= Len(q)
    BY <1>1
  <2> HIDE DEF rest
  <2> QED
    BY <2>2, <2>3
<1>4. front \o rest = q
  <2>1. 1 \in 1..(Len(q) + 1) /\ n \in (1 - 1)..Len(q) /\ Len(q) \in n..Len(q)
    BY <1>1
  <2>2. front \o rest = SubSeq(q, 1, Len(q))
    BY <1>1, <2>1, ConcatAdjacentSubSeq
  <2> QED
    BY <1>1, <2>2, SubSeqFull
<1> QED
  BY <1>2, <1>3, <1>4

\* a is what is left of b, which lost its first records only if whole.
Part(a, b, whole) ==
    \E f \in [1..Len(a) -> 1..Len(b)] :
        /\ \A i, j \in 1..Len(a) : i < j => f[i] < f[j]
        /\ \A i \in 1..Len(a) : a[i] = b[f[i]]
        /\ whole => Len(a) <= Len(b) /\ \A i \in 1..Len(a) : f[i] = i + (Len(b) - Len(a))

LEMMA PartSelf ==
    ASSUME NEW R, NEW a \in Seq(R), NEW w
    PROVE  Part(a, a, w)
<1> DEFINE n == Len(a)
           f == [i \in 1..n |-> i]
<1>1. n \in Nat
  BY LenProperties
<1> HIDE DEF n
<1>2. f \in [1..n -> 1..n] /\ \A i, j \in 1..n : i < j => f[i] < f[j]
  BY <1>1
<1>3. \A i \in 1..n : a[i] = a[f[i]]
  BY <1>1
<1>4. n <= n /\ \A i \in 1..n : f[i] = i + (n - n)
  BY <1>1
<1> HIDE DEF f
<1> QED
  BY <1>2, <1>3, <1>4 DEF Part, n

LEMMA PartWeaker ==
    ASSUME NEW a, NEW b, NEW v, NEW w, Part(a, b, v), w => v
    PROVE  Part(a, b, w)
BY DEF Part

LEMMA PartOfPart ==
    ASSUME NEW R, NEW a \in Seq(R), NEW b \in Seq(R), NEW c \in Seq(R), NEW v, NEW w,
           Part(a, b, v), Part(b, c, w), NEW x, x => v /\ w
    PROVE  Part(a, c, x)
<1> DEFINE l == Len(a)
           m == Len(b)
           n == Len(c)
<1>1. PICK f \in [1..l -> 1..m] :
          /\ \A i, j \in 1..l : i < j => f[i] < f[j]
          /\ \A i \in 1..l : a[i] = b[f[i]]
          /\ v => l <= m /\ \A i \in 1..l : f[i] = i + (m - l)
  BY DEF Part
<1>2. PICK g \in [1..m -> 1..n] :
          /\ \A i, j \in 1..m : i < j => g[i] < g[j]
          /\ \A i \in 1..m : b[i] = c[g[i]]
          /\ w => m <= n /\ \A i \in 1..m : g[i] = i + (n - m)
  BY DEF Part
<1>3. l \in Nat /\ m \in Nat /\ n \in Nat
  BY LenProperties
<1> HIDE DEF l, m, n
<1> DEFINE h == [i \in 1..l |-> g[f[i]]]
<1>4. h \in [1..l -> 1..n] /\ \A i \in 1..l : h[i] = g[f[i]] /\ f[i] \in 1..m
  BY <1>1, <1>2
<1> HIDE DEF h
<1>5. \A i, j \in 1..l : i < j => h[i] < h[j]
  BY <1>1, <1>2, <1>4
<1>6. \A i \in 1..l : a[i] = c[h[i]]
  BY <1>1, <1>2, <1>4
<1>7. ASSUME x PROVE l <= n /\ \A i \in 1..l : h[i] = i + (n - l)
  <2>1. l <= m /\ m <= n
    BY <1>1, <1>2, <1>7
  <2>2. ASSUME NEW i \in 1..l PROVE h[i] = i + (n - l)
    <3>1. f[i] = i + (m - l) /\ g[f[i]] = f[i] + (n - m) /\ h[i] = g[f[i]]
      BY <1>1, <1>2, <1>4, <1>7
    <3>2. (i + (m - l)) + (n - m) = i + (n - l)
      BY <1>3
    <3> QED
      BY <3>1, <3>2
  <2> QED
    BY <1>3, <2>1, <2>2
<1> QED
  BY <1>4, <1>5, <1>6, <1>7 DEF Part, l, m, n

LEMMA PartFront ==
    ASSUME NEW R, NEW a \in Seq(R), NEW b \in Seq(R), NEW w, w => b = <<>>
    PROVE  Part(a, a \o b, w)
<1> DEFINE l == Len(a)
           m == Len(a \o b)
           q == a \o b
           f == [i \in 1..l |-> i]
<1>1. l \in Nat /\ Len(b) \in Nat /\ m = l + Len(b) /\ (b = <<>> => Len(b) = 0)
  BY LenProperties, ConcatProperties, EmptySeq
<1>2. \A i \in 1..(Len(a) + Len(b)) : q[i] = IF i <= Len(a) THEN a[i] ELSE b[i - Len(a)]
  BY ConcatProperties
<1> HIDE DEF l, m, q
<1>3. f \in [1..l -> 1..m] /\ \A i, j \in 1..l : i < j => f[i] < f[j]
  BY <1>1
<1>4. \A i \in 1..l : a[i] = q[f[i]]
  BY <1>1, <1>2 DEF l
<1>5. w => l <= m /\ \A i \in 1..l : f[i] = i + (m - l)
  BY <1>1
<1> HIDE DEF f
<1>6. Part(a, q, w)
  BY <1>3, <1>4, <1>5 DEF Part, l, m, q
<1> QED
  BY <1>6 DEF q

LEMMA PartBack ==
    ASSUME NEW R, NEW a \in Seq(R), NEW b \in Seq(R), NEW w
    PROVE  Part(b, a \o b, w)
<1> DEFINE l == Len(b)
           k == Len(a)
           m == Len(a \o b)
           q == a \o b
           f == [i \in 1..l |-> i + k]
<1>1. l \in Nat /\ k \in Nat /\ m = k + l
  BY LenProperties, ConcatProperties
<1>2. \A i \in 1..(Len(a) + Len(b)) : q[i] = IF i <= Len(a) THEN a[i] ELSE b[i - Len(a)]
  BY ConcatProperties
<1> HIDE DEF l, m, k, q
<1>3. f \in [1..l -> 1..m] /\ \A i, j \in 1..l : i < j => f[i] < f[j]
  BY <1>1
<1>4. \A i \in 1..l : b[i] = q[f[i]]
  <2> SUFFICES ASSUME NEW i \in 1..l PROVE b[i] = q[i + k]
    OBVIOUS
  <2>1. i + k \in 1..(k + l) /\ ~(i + k <= k) /\ (i + k) - k = i
    BY <1>1
  <2> QED
    BY <1>2, <2>1 DEF k, l
<1>5. w => l <= m /\ \A i \in 1..l : f[i] = i + (m - l)
  BY <1>1
<1> HIDE DEF f
<1>6. Part(b, q, w)
  BY <1>3, <1>4, <1>5 DEF Part, l, m, q
<1> QED
  BY <1>6 DEF q

LEMMA PartAppended ==
    ASSUME NEW R, NEW a \in Seq(R), NEW b \in Seq(R), NEW e \in R, NEW w, Part(a, b, w)
    PROVE  Part(a, Append(b, e), FALSE) /\ Part(Append(a, e), Append(b, e), w)
<1> DEFINE l == Len(a)
           m == Len(b)
           A == Append(a, e)
           B == Append(b, e)
<1>1. PICK f \in [1..l -> 1..m] :
          /\ \A i, j \in 1..l : i < j => f[i] < f[j]
          /\ \A i \in 1..l : a[i] = b[f[i]]
          /\ w => l <= m /\ \A i \in 1..l : f[i] = i + (m - l)
  BY DEF Part
<1>2. /\ l \in Nat /\ Len(A) = l + 1
      /\ \A i \in 1..l : A[i] = a[i]
      /\ A[l + 1] = e
  BY LenProperties, AppendProperties
<1>3. /\ m \in Nat /\ Len(B) = m + 1
      /\ \A i \in 1..m : B[i] = b[i]
      /\ B[m + 1] = e
  BY LenProperties, AppendProperties
<1> HIDE DEF l, m, A, B
<1>4. Part(a, B, FALSE)
  <2>1. f \in [1..l -> 1..(m + 1)] /\ \A i \in 1..l : f[i] \in 1..m
    BY <1>1, <1>2, <1>3
  <2>2. \A i \in 1..l : a[i] = B[f[i]]
    BY <1>1, <1>3, <2>1
  <2> QED
    BY <1>1, <1>3, <2>1, <2>2 DEF Part, l
<1>5. Part(A, B, w)
  <2> DEFINE g == [i \in 1..(l + 1) |-> IF i \in 1..l THEN f[i] ELSE m + 1]
  <2>1. /\ g \in [1..(l + 1) -> 1..(m + 1)]
        /\ \A i \in 1..l : g[i] = f[i] /\ f[i] \in 1..m
        /\ g[l + 1] = m + 1
    BY <1>1, <1>2, <1>3, SMTT(30)
  <2> HIDE DEF g
  <2>2. \A i, j \in 1..(l + 1) : i < j => g[i] < g[j]
    <3> SUFFICES ASSUME NEW i \in 1..(l + 1), NEW j \in 1..(l + 1), i < j
                 PROVE  g[i] < g[j]
      OBVIOUS
    <3>1. i \in 1..l /\ (j \in 1..l \/ j = l + 1)
      BY <1>2
    <3> QED
      BY <1>1, <1>3, <2>1, <3>1
  <2>3. \A i \in 1..(l + 1) : A[i] = B[g[i]]
    <3> SUFFICES ASSUME NEW i \in 1..(l + 1) PROVE A[i] = B[g[i]]
      OBVIOUS
    <3>1. i \in 1..l \/ i = l + 1
      BY <1>2
    <3> QED
      BY <1>1, <1>2, <1>3, <2>1, <3>1, SMTT(30)
  <2>4. ASSUME w
        PROVE  l + 1 <= m + 1 /\ \A i \in 1..(l + 1) : g[i] = i + ((m + 1) - (l + 1))
    <3>1. l <= m /\ \A i \in 1..l : f[i] = i + (m - l)
      BY <1>1, <2>4
    <3>2. /\ l + 1 <= m + 1 /\ (m + 1) - (l + 1) = m - l
          /\ m + 1 = (l + 1) + (m - l)
          /\ \A i \in 1..(l + 1) : i \in 1..l \/ i = l + 1
      BY <1>2, <1>3, <3>1
    <3>3. \A i \in 1..(l + 1) : g[i] = i + (m - l)
      BY <2>1, <3>1, <3>2, Zenon
    <3> QED
      BY <3>2, <3>3, Zenon
  <2>5. /\ g \in [1..Len(A) -> 1..Len(B)]
        /\ \A i, j \in 1..Len(A) : i < j => g[i] < g[j]
        /\ \A i \in 1..Len(A) : A[i] = B[g[i]]
        /\ w => Len(A) <= Len(B) /\ \A i \in 1..Len(A) : g[i] = i + (Len(B) - Len(A))
    BY <1>2, <1>3, <2>1, <2>2, <2>3, <2>4, Zenon
  <2> QED
    BY <2>5, Zenon DEF Part
<1> QED
  BY <1>4, <1>5 DEF A, B

-----------------------------------------------------------------------------
(* Sinks.                                                                  *)

SinkRecord(R) ==
    [log : Seq(R), old : Seq(R), open : BOOLEAN, buffer : Seq(R), bytes_written : Nat,
     emitted : Nat, failed : Nat, stuck : Nat]

\* The sinks that hold records of R: only an open one buffers.
Sinks(R) ==
    {s \in SinkRecord(R) : Len(s.buffer) <= BufferCap /\ (s.buffer # <<>> => s.open)}

\* Everything the sink has: both files and the buffer.
Story(s) == Told(s.old, s.log, s.buffer)

Size(s) == Len(s.log) + Len(s.buffer)

\* What the counters of two successive sinks tell: a call that failed is
\* counted, and no rename is stuck without one.
Counted(s, t) ==
    /\ t.failed >= s.failed
    /\ t.stuck >= s.stuck
    /\ t.failed = s.failed => t.stuck = s.stuck

\* What a sink that is open may hold.
Room(s) == Cap * s.stuck + Cap

\* An open sink is below the threshold and knows the size of its file, up to
\* one threshold for every stuck rename; m says that the file was edited.
Sized(s, m) ==
    /\ s.open =>
         /\ s.bytes_written < Cap
         /\ s.stuck = 0 => Size(s) = s.bytes_written
         /\ ~m => Size(s) + Cap <= s.bytes_written + Room(s)
    /\ ~m => Size(s) < Room(s)

LEMMA OneMoreFailure ==
    ASSUME NEW R, NEW u \in SinkRecord(R)
    PROVE  [u EXCEPT !.failed = @ + 1] \in SinkRecord(R)
BY SMTT(30) DEF SinkRecord

LEMMA SumInNat == \A m, n : m \in Nat /\ n \in Nat => m + n \in Nat
OBVIOUS

LEMMA SinkFields ==
    ASSUME NEW R, NEW s \in Sinks(R)
    PROVE  /\ s.log \in Seq(R) /\ s.old \in Seq(R) /\ s.buffer \in Seq(R)
           /\ s.bytes_written \in Nat /\ s.emitted \in Nat /\ s.failed \in Nat /\ s.stuck \in Nat
           /\ Len(s.log) \in Nat /\ Len(s.old) \in Nat /\ Len(s.buffer) \in Nat
           /\ Len(s.buffer) <= BufferCap
           /\ Size(s) \in Nat
<1>1. s \in SinkRecord(R) /\ Len(s.buffer) <= BufferCap
  BY DEF Sinks
<1>2. /\ s.log \in Seq(R) /\ s.old \in Seq(R) /\ s.buffer \in Seq(R)
      /\ s.bytes_written \in Nat /\ s.emitted \in Nat /\ s.failed \in Nat /\ s.stuck \in Nat
  BY <1>1 DEF SinkRecord
<1>3. Len(s.log) \in Nat /\ Len(s.old) \in Nat /\ Len(s.buffer) \in Nat
  BY <1>2, LenProperties
<1>4. Size(s) \in Nat
  BY <1>3, SumInNat, Zenon DEF Size
<1> QED
  BY <1>1, <1>2, <1>3, <1>4

LEMMA SinkOpen ==
    ASSUME NEW R, NEW s \in Sinks(R)
    PROVE  s.open \in BOOLEAN /\ (s.buffer # <<>> => s.open)
BY DEF Sinks, SinkRecord

LEMMA StoryIsSeq ==
    ASSUME NEW R, NEW s \in Sinks(R)
    PROVE  /\ Story(s) \in Seq(R) /\ s.old \o s.log \in Seq(R)
           /\ s.buffer = <<>> => Story(s) = s.old \o s.log
<1>1. s.log \in Seq(R) /\ s.old \in Seq(R) /\ s.buffer \in Seq(R)
  BY SinkFields
<1> DEFINE both == s.old \o s.log
<1>2. both \in Seq(R)
  BY <1>1, InSeq
<1> HIDE DEF both
<1>3. both \o s.buffer \in Seq(R)
  BY <1>1, <1>2, InSeq
<1>4. both \o <<>> = both
  BY <1>2, ConcatEmptySeq
<1> QED
  BY <1>2, <1>3, <1>4 DEF both, Story, Told

LEMMA RoomFacts ==
    ASSUME NEW s, s.stuck \in Nat
    PROVE  /\ Room(s) \in Nat /\ Room(s) >= Cap /\ Cap \in Nat /\ Cap >= 2
           /\ s.stuck = 0 => Room(s) = Cap
           /\ \A t : t.stuck = s.stuck => Room(t) = Room(s)
           /\ \A t : t.stuck = s.stuck + 1 => Room(t) = Room(s) + Cap
<1>1. Cap \in Nat /\ Cap >= 2
  BY TelemetryAssumption
<1>2. Cap * s.stuck \in Nat
  BY <1>1
<1>3. Cap * (s.stuck + 1) = Cap * s.stuck + Cap
  BY <1>1
<1>4. Cap * 0 = 0
  BY <1>1
<1> QED
  BY <1>1, <1>2, <1>3, <1>4 DEF Room

-----------------------------------------------------------------------------
(* The operations of the sink.                                             *)

\* A flush moves records from the buffer to the file, all of them unless the
\* call fails.
LEMMA FlushEffect ==
    ASSUME NEW R, NEW s \in Sinks(R), NEW t \in flush(s)
    PROVE  /\ t \in Sinks(R) /\ Counted(s, t) /\ t.stuck = s.stuck
           /\ t.open = s.open /\ t.emitted = s.emitted /\ t.bytes_written = s.bytes_written
           /\ t.old = s.old /\ Story(t) = Story(s) /\ Size(t) = Size(s)
           /\ t.failed = s.failed => t.buffer = <<>>
<1>1. /\ s.log \in Seq(R) /\ s.old \in Seq(R) /\ s.buffer \in Seq(R)
      /\ s.failed \in Nat /\ s.stuck \in Nat /\ s.emitted \in Nat /\ s.bytes_written \in Nat
      /\ Len(s.log) \in Nat /\ Len(s.buffer) \in Nat /\ Len(s.buffer) <= BufferCap
  BY SinkFields
<1>2. CASE ~s.open \/ s.buffer = <<>>
  <2>1. t = s
    BY <1>2 DEF flush
  <2>2. s.failed >= s.failed /\ s.stuck >= s.stuck
    BY <1>1
  <2>3. s.buffer = <<>>
    BY <1>2, SinkOpen
  <2> QED
    BY <2>1, <2>2, <2>3, Zenon DEF Counted
<1>3. CASE s.open /\ s.buffer # <<>>
  <2>1. PICK n \in 0..Len(s.buffer) : \E u :
             /\ u = [s EXCEPT !.log = @ \o SubSeq(s.buffer, 1, n),
                              !.buffer = SubSeq(s.buffer, n + 1, Len(s.buffer))]
             /\ (n = Len(s.buffer) /\ t = u) \/ t = [u EXCEPT !.failed = @ + 1]
    <3> DEFINE pushed(n) == [s EXCEPT !.log = @ \o SubSeq(s.buffer, 1, n),
                                      !.buffer = SubSeq(s.buffer, n + 1, Len(s.buffer))]
    <3>1. t \in Attempt(pushed(Len(s.buffer)), {pushed(n) : n \in 0..(Len(s.buffer) - 1)})
      BY <1>3 DEF flush
    <3> HIDE DEF pushed
    <3>2. \/ t = pushed(Len(s.buffer))
          \/ \E n \in 0..(Len(s.buffer) - 1) : t = [pushed(n) EXCEPT !.failed = @ + 1]
      BY <3>1 DEF Attempt
    <3>3. \E n \in 0..Len(s.buffer) : \E u :
             /\ u = pushed(n)
             /\ (n = Len(s.buffer) /\ t = u) \/ t = [u EXCEPT !.failed = @ + 1]
      BY <1>1, <3>2
    <3> QED
      BY <3>3 DEF pushed
  <2> PICK u :
         /\ u = [s EXCEPT !.log = @ \o SubSeq(s.buffer, 1, n),
                          !.buffer = SubSeq(s.buffer, n + 1, Len(s.buffer))]
         /\ (n = Len(s.buffer) /\ t = u) \/ t = [u EXCEPT !.failed = @ + 1]
    BY <2>1
  <2> DEFINE front == SubSeq(s.buffer, 1, n)
             rest == SubSeq(s.buffer, n + 1, Len(s.buffer))
  <2>2. /\ front \in Seq(R) /\ Len(front) = n
        /\ rest \in Seq(R) /\ Len(rest) = Len(s.buffer) - n
        /\ front \o rest = s.buffer
    BY <1>1, Cut
  <2>3. u = [s EXCEPT !.log = @ \o front, !.buffer = rest]
    BY <2>1
  <2> HIDE DEF front, rest
  <2>4. s.log \o front \in Seq(R)
    BY <1>1, <2>2, InSeq
  <2>5. /\ u \in SinkRecord(R)
        /\ u.log = s.log \o front /\ u.buffer = rest /\ u.old = s.old
        /\ u.open = s.open /\ u.emitted = s.emitted /\ u.bytes_written = s.bytes_written
        /\ u.stuck = s.stuck /\ u.failed = s.failed
    BY <2>2, <2>3, <2>4 DEF Sinks, SinkRecord
  <2>6. /\ t \in SinkRecord(R)
        /\ t.log = s.log \o front /\ t.buffer = rest /\ t.old = s.old
        /\ t.open = s.open /\ t.emitted = s.emitted /\ t.bytes_written = s.bytes_written
        /\ t.stuck = s.stuck
        /\ (n = Len(s.buffer) /\ t.failed = s.failed) \/ t.failed = s.failed + 1
    <3>1. CASE n = Len(s.buffer) /\ t = u
      BY <2>5, <3>1, Zenon
    <3>2. CASE t = [u EXCEPT !.failed = @ + 1]
      <4>1. t \in SinkRecord(R) /\ t.failed = u.failed + 1
        <5>1. u \in SinkRecord(R)
          BY <2>5
        <5>2. [u EXCEPT !.failed = @ + 1] \in SinkRecord(R)
          BY <5>1, OneMoreFailure, Zenon
        <5>3. [u EXCEPT !.failed = @ + 1].failed = u.failed + 1
          BY <5>1 DEF SinkRecord
        <5> QED
          BY <3>2, <5>2, <5>3, Zenon
      <4>2. /\ t.log = u.log /\ t.buffer = u.buffer /\ t.old = u.old /\ t.open = u.open
            /\ t.emitted = u.emitted /\ t.bytes_written = u.bytes_written /\ t.stuck = u.stuck
        BY <2>5, <3>2 DEF SinkRecord
      <4> QED
        BY <2>5, <4>1, <4>2, Zenon
    <3> QED
      BY <2>1, <3>1, <3>2, Zenon
  <2>7. t \in Sinks(R)
    <3>1. Len(rest) <= BufferCap
      BY <1>1, <2>2, TelemetryAssumption
    <3> QED
      BY <1>3, <2>6, <3>1, Zenon DEF Sinks
  <2>8. Story(t) = Story(s) /\ Size(t) = Size(s)
    <3>1. Moves(s.old, s.log, front, rest)
      BY <1>1, <2>2, MovedRecords
    <3>2. front \o rest = s.buffer /\ t.log = s.log \o front /\ t.buffer = rest /\ t.old = s.old
      BY <2>2, <2>6, Zenon
    <3> QED
      BY <3>1, <3>2, Zenon DEF Moves, Story, Size
  <2>9. t.failed = s.failed => t.buffer = <<>>
    <3>1. t.failed = s.failed => Len(rest) = 0
      BY <1>1, <2>2, <2>6
    <3> QED
      BY <2>2, <2>6, <3>1, EmptySeq
  <2>10. t.failed >= s.failed /\ t.stuck >= s.stuck
    BY <1>1, <2>6
  <2> QED
    BY <2>6, <2>7, <2>8, <2>9, <2>10, Zenon DEF Counted
<1> QED
  BY <1>1, <1>2, <1>3

LEMMA CountedChain ==
    ASSUME NEW R, NEW s \in Sinks(R), NEW t \in Sinks(R), NEW u \in Sinks(R),
           Counted(s, t), Counted(t, u)
    PROVE  /\ Counted(s, u)
           /\ u.failed = s.failed => t.failed = s.failed /\ u.failed = t.failed
<1>1. /\ s.failed \in Nat /\ t.failed \in Nat /\ u.failed \in Nat
      /\ s.stuck \in Nat /\ t.stuck \in Nat /\ u.stuck \in Nat
  BY SinkFields
<1> QED
  BY <1>1 DEF Counted

\* A sink that loses its buffer.
LEMMA DroppedBuffer ==
    ASSUME NEW R, NEW s \in Sinks(R)
    PROVE  LET t == [s EXCEPT !.open = FALSE, !.buffer = <<>>]
           IN  /\ t \in Sinks(R) /\ ~t.open /\ t.buffer = <<>>
               /\ t.log = s.log /\ t.old = s.old /\ t.emitted = s.emitted
               /\ t.bytes_written = s.bytes_written /\ t.failed = s.failed /\ t.stuck = s.stuck
               /\ Part(Story(t), Story(s), s.buffer = <<>>)
               /\ s.buffer = <<>> => Story(t) = Story(s)
               /\ Size(t) <= Size(s)
<1> DEFINE t == [s EXCEPT !.open = FALSE, !.buffer = <<>>]
<1>1. s \in SinkRecord(R)
  BY DEF Sinks
<1>2. <<>> \in Seq(R) /\ Len(<<>>) = 0
  BY EmptySeq
<1>3. t \in SinkRecord(R)
  BY <1>1, <1>2 DEF SinkRecord
<1>4. /\ ~t.open /\ t.buffer = <<>>
      /\ t.log = s.log /\ t.old = s.old /\ t.emitted = s.emitted
      /\ t.bytes_written = s.bytes_written /\ t.failed = s.failed /\ t.stuck = s.stuck
  BY <1>1 DEF SinkRecord
<1> HIDE DEF t
<1>5. t \in Sinks(R)
  <2>1. Len(<<>>) <= BufferCap
    BY <1>2, TelemetryAssumption
  <2> QED
    BY <1>3, <1>4, <2>1, Zenon DEF Sinks
<1>6. Part(Story(t), Story(s), s.buffer = <<>>)
  <2> DEFINE both == s.old \o s.log
  <2>1. both \in Seq(R) /\ s.buffer \in Seq(R)
    BY SinkFields, StoryIsSeq
  <2>2. Story(t) = both
    BY <1>4, <1>5, StoryIsSeq, Zenon
  <2>3. Story(s) = both \o s.buffer
    BY DEF Story, Told
  <2> HIDE DEF both
  <2>4. Part(both, both \o s.buffer, s.buffer = <<>>)
    BY <2>1, PartFront
  <2> QED
    BY <2>2, <2>3, <2>4, Zenon
<1>7. Size(t) <= Size(s)
  <2> DEFINE l == Len(s.log)
             n == Len(s.buffer)
  <2>1. l \in Nat /\ n \in Nat
    BY SinkFields
  <2>2. Size(s) = l + n
    BY DEF Size
  <2>3. Size(t) = l + 0
    BY <1>2, <1>4, Zenon DEF Size
  <2> HIDE DEF l, n
  <2> QED
    BY <2>1, <2>2, <2>3
<1>8. s.buffer = <<>> => Story(t) = Story(s)
  BY <1>4, Zenon DEF Story
<1> QED
  BY <1>4, <1>5, <1>6, <1>7, <1>8 DEF t

\* Closing the writer flushes it and forgets what could not be written.
LEMMA CloseEffect ==
    ASSUME NEW R, NEW s \in Sinks(R), NEW t \in Close(s)
    PROVE  /\ t \in Sinks(R) /\ Counted(s, t) /\ t.stuck = s.stuck
           /\ ~t.open /\ t.buffer = <<>> /\ t.emitted = s.emitted
           /\ t.bytes_written = s.bytes_written
           /\ Part(Story(t), Story(s), t.failed = s.failed)
           /\ t.failed = s.failed => Story(t) = Story(s)
           /\ Size(t) <= Size(s)
<1>1. PICK u \in flush(s) : t = [u EXCEPT !.open = FALSE, !.buffer = <<>>]
  BY DEF Close, Then
<1>2. /\ u \in Sinks(R) /\ Counted(s, u) /\ u.stuck = s.stuck
      /\ u.emitted = s.emitted /\ u.bytes_written = s.bytes_written
      /\ Story(u) = Story(s) /\ Size(u) = Size(s)
      /\ u.failed = s.failed => u.buffer = <<>>
  BY FlushEffect
<1>3. /\ t \in Sinks(R) /\ ~t.open /\ t.buffer = <<>> /\ t.emitted = u.emitted
      /\ t.bytes_written = u.bytes_written /\ t.failed = u.failed /\ t.stuck = u.stuck
      /\ Part(Story(t), Story(u), u.buffer = <<>>) /\ Size(t) <= Size(u)
      /\ u.buffer = <<>> => Story(t) = Story(u)
  BY <1>1, <1>2, DroppedBuffer
<1>4. Part(Story(t), Story(s), t.failed = s.failed)
  BY <1>2, <1>3, PartWeaker
<1>5. t.failed = s.failed => Story(t) = Story(s)
  BY <1>2, <1>3, Zenon
<1> QED
  BY <1>2, <1>3, <1>4, <1>5 DEF Counted

SameFields(t, s) ==
    /\ t.log = s.log /\ t.old = s.old /\ t.buffer = s.buffer
    /\ t.emitted = s.emitted /\ t.bytes_written = s.bytes_written

LEMMA FailedCall ==
    ASSUME NEW R, NEW s \in SinkRecord(R)
    PROVE  LET t == [s EXCEPT !.failed = @ + 1]
           IN  /\ t \in SinkRecord(R) /\ SameFields(t, s) /\ t.failed = s.failed + 1
               /\ t.open = s.open /\ t.stuck = s.stuck
<1> DEFINE t == [s EXCEPT !.failed = @ + 1]
<1>1. t \in SinkRecord(R)
  BY SMTT(30) DEF SinkRecord
<1>2. SameFields(t, s) /\ t.open = s.open /\ t.stuck = s.stuck
  BY DEF SinkRecord, SameFields
<1>3. t.failed = s.failed + 1
  BY DEF SinkRecord
<1> QED
  BY <1>1, <1>2, <1>3

LEMMA StuckCall ==
    ASSUME NEW R, NEW s \in SinkRecord(R)
    PROVE  LET t == [s EXCEPT !.stuck = @ + 1]
           IN  t \in SinkRecord(R) /\ t.stuck = s.stuck + 1
<1> DEFINE t == [s EXCEPT !.stuck = @ + 1]
<1>1. t \in SinkRecord(R)
  BY SMTT(30) DEF SinkRecord
<1>2. t.stuck = s.stuck + 1
  BY DEF SinkRecord
<1> QED
  BY <1>1, <1>2

\* The older file gives way; a rename that fails leaves both files alone.
LEMMA RenameEffect ==
    ASSUME NEW R, NEW s \in Sinks(R), ~s.open, s.buffer = <<>>, NEW t \in Rename(s)
    PROVE  /\ t \in Sinks(R) /\ Counted(s, t) /\ ~t.open /\ t.buffer = <<>>
           /\ t.emitted = s.emitted /\ t.bytes_written = s.bytes_written
           /\ Part(Story(t), Story(s), t.failed = s.failed)
           /\ \/ t.stuck = s.stuck /\ Size(t) = 0
              \/ t.stuck = s.stuck + 1 /\ t.failed = s.failed + 1 /\ Size(t) = Size(s)
<1>1. s \in SinkRecord(R)
  BY DEF Sinks
<1>2. /\ <<>> \in Seq(R) /\ Len(<<>>) = 0
      /\ s.log \in Seq(R) /\ s.old \in Seq(R) /\ s.failed \in Nat /\ s.stuck \in Nat
      /\ Len(s.log) \in Nat
  BY EmptySeq, SinkFields
<1> DEFINE failing == [s EXCEPT !.stuck = @ + 1]
<1>3. t = [s EXCEPT !.old = s.log, !.log = <<>>] \/ t = [failing EXCEPT !.failed = @ + 1]
  <2> DEFINE done == [s EXCEPT !.old = s.log, !.log = <<>>]
  <2>1. t \in Attempt(done, {failing})
    BY DEF Rename
  <2> HIDE DEF done, failing
  <2>2. t = done \/ t = [failing EXCEPT !.failed = @ + 1]
    BY <2>1 DEF Attempt
  <2> QED
    BY <2>2 DEF done
<1>4. CASE t = [s EXCEPT !.old = s.log, !.log = <<>>]
  <2>1. t \in SinkRecord(R)
    BY <1>1, <1>2, <1>4 DEF SinkRecord
  <2>2. /\ t.open = s.open /\ t.buffer = s.buffer /\ t.emitted = s.emitted
        /\ t.bytes_written = s.bytes_written /\ t.stuck = s.stuck /\ t.failed = s.failed
        /\ t.log = <<>> /\ t.old = s.log
    BY <1>1, <1>4 DEF SinkRecord
  <2>3. t \in Sinks(R)
    BY <2>1, <2>2, Zenon DEF Sinks
  <2>4. Part(Story(t), Story(s), t.failed = s.failed)
    <3>1. Story(s) = s.old \o s.log /\ Story(t) = t.old \o t.log
      BY <2>2, <2>3, StoryIsSeq, Zenon
    <3>2. t.old \o t.log = s.log
      BY <1>2, <2>2, ConcatEmptySeq, Zenon
    <3>3. Part(s.log, s.old \o s.log, t.failed = s.failed)
      BY <1>2, PartBack
    <3> QED
      BY <3>1, <3>2, <3>3, Zenon
  <2>5. Size(t) = 0
    <3>1. Size(t) = Len(<<>>) + Len(<<>>)
      BY <2>2, Zenon DEF Size
    <3> QED
      BY <1>2, <3>1
  <2>6. Counted(s, t)
    BY <1>2, <2>2 DEF Counted
  <2> QED
    BY <2>2, <2>3, <2>4, <2>5, <2>6, Zenon
<1>5. CASE t = [failing EXCEPT !.failed = @ + 1]
  <2>1. failing \in SinkRecord(R) /\ failing.stuck = s.stuck + 1
    BY <1>1, StuckCall
  <2>2. SameFields(failing, s) /\ failing.failed = s.failed /\ failing.open = s.open
    BY <1>1 DEF SinkRecord, SameFields
  <2> HIDE DEF failing
  <2>3. /\ t \in SinkRecord(R) /\ SameFields(t, s) /\ t.open = s.open
        /\ t.failed = s.failed + 1 /\ t.stuck = s.stuck + 1
    BY <1>5, <2>1, <2>2, FailedCall, ZenonT(30) DEF SameFields
  <2>4. t \in Sinks(R)
    BY <2>3, Zenon DEF Sinks, SameFields
  <2>5. Story(t) = Story(s) /\ Size(t) = Size(s)
    BY <2>3, Zenon DEF Story, Size, SameFields
  <2>6. Part(Story(s), Story(s), t.failed = s.failed)
    BY StoryIsSeq, PartSelf
  <2>7. Counted(s, t)
    BY <1>2, <2>3 DEF Counted
  <2> QED
    BY <2>3, <2>4, <2>5, <2>6, <2>7, Zenon DEF SameFields
<1> QED
  BY <1>3, <1>4, <1>5

\* Opening touches nothing but the writer.
LEMMA OpenFileEffect ==
    ASSUME NEW R, NEW s \in Sinks(R), s.buffer = <<>>, NEW t \in open_file(s)
    PROVE  /\ t \in Sinks(R) /\ Counted(s, t) /\ t.buffer = <<>>
           /\ t.emitted = s.emitted /\ t.bytes_written = s.bytes_written /\ t.stuck = s.stuck
           /\ Story(t) = Story(s) /\ Size(t) = Size(s)
           /\ t.failed = s.failed => t.open
<1> DEFINE done == [s EXCEPT !.open = TRUE]
           failing == [s EXCEPT !.open = FALSE]
<1>1. s \in SinkRecord(R)
  BY DEF Sinks
<1>2. t = done \/ t = [failing EXCEPT !.failed = @ + 1]
  <2>1. t \in Attempt(done, {failing})
    BY DEF open_file
  <2> HIDE DEF done, failing
  <2> QED
    BY <2>1 DEF Attempt
<1>3. done \in SinkRecord(R) /\ failing \in SinkRecord(R)
  BY <1>1 DEF SinkRecord
<1>4. SameFields(done, s) /\ SameFields(failing, s) /\ done.stuck = s.stuck /\ failing.stuck = s.stuck
  BY <1>1 DEF SinkRecord, SameFields
<1>5. done.failed = s.failed /\ failing.failed = s.failed /\ done.open
  BY <1>1 DEF SinkRecord
<1> HIDE DEF done, failing
<1>6. /\ t \in SinkRecord(R) /\ SameFields(t, s) /\ t.stuck = s.stuck
      /\ (t.failed = s.failed /\ t.open) \/ t.failed = s.failed + 1
  <2>1. CASE t = done
    BY <1>3, <1>4, <1>5, <2>1, Zenon
  <2>2. CASE t = [failing EXCEPT !.failed = @ + 1]
    BY <1>3, <1>4, <1>5, <2>2, FailedCall, ZenonT(30) DEF SameFields
  <2> QED
    BY <1>2, <2>1, <2>2
<1>7. t \in Sinks(R)
  BY <1>6, Zenon DEF Sinks, SameFields
<1>8. Story(t) = Story(s) /\ Size(t) = Size(s)
  BY <1>6, Zenon DEF Story, Size, SameFields
<1>9. Counted(s, t) /\ (t.failed = s.failed => t.open)
  <2>1. /\ s.failed + 1 # s.failed /\ s.failed + 1 >= s.failed
        /\ s.failed >= s.failed /\ s.stuck >= s.stuck
    BY SinkFields
  <2> QED
    BY <1>6, <2>1, Zenon DEF Counted
<1> QED
  BY <1>6, <1>7, <1>8, <1>9, Zenon DEF SameFields

\* A rotation ends with an empty file, or with the old one where the rename
\* failed.
LEMMA RotateEffect ==
    ASSUME NEW R, NEW s \in Sinks(R), NEW t \in rotate(s)
    PROVE  /\ t \in Sinks(R) /\ Counted(s, t) /\ t.buffer = <<>>
           /\ t.emitted = s.emitted /\ t.bytes_written = 0
           /\ Part(Story(t), Story(s), t.failed = s.failed)
           /\ \/ t.stuck = s.stuck /\ Size(t) = 0
              \/ t.stuck = s.stuck + 1 /\ Size(t) <= Size(s)
           /\ t.failed = s.failed => t.open
<1>1. \E u \in flush(s) : \E v \in Close(u) : \E w \in Rename(v) : \E x \in open_file(w) :
          t = [x EXCEPT !.bytes_written = 0]
  BY DEF rotate, Then
<1> PICK u \in flush(s) : \E v \in Close(u) : \E w \in Rename(v) : \E x \in open_file(w) :
          t = [x EXCEPT !.bytes_written = 0]
  BY <1>1, Zenon
<1> PICK v \in Close(u) : \E w \in Rename(v) : \E x \in open_file(w) :
          t = [x EXCEPT !.bytes_written = 0]
  OBVIOUS
<1> PICK w \in Rename(v) : \E x \in open_file(w) : t = [x EXCEPT !.bytes_written = 0]
  OBVIOUS
<1> PICK x \in open_file(w) : t = [x EXCEPT !.bytes_written = 0]
  OBVIOUS
<1>2. /\ u \in Sinks(R) /\ Counted(s, u) /\ u.stuck = s.stuck /\ u.emitted = s.emitted
      /\ Story(u) = Story(s) /\ Size(u) = Size(s)
  BY FlushEffect
<1>3. /\ v \in Sinks(R) /\ Counted(u, v) /\ v.stuck = u.stuck /\ ~v.open /\ v.buffer = <<>>
      /\ v.emitted = u.emitted
      /\ Part(Story(v), Story(u), v.failed = u.failed) /\ Size(v) <= Size(u)
  BY <1>2, CloseEffect
<1>4. /\ w \in Sinks(R) /\ Counted(v, w) /\ ~w.open /\ w.buffer = <<>> /\ w.emitted = v.emitted
      /\ Part(Story(w), Story(v), w.failed = v.failed)
      /\ \/ w.stuck = v.stuck /\ Size(w) = 0
         \/ w.stuck = v.stuck + 1 /\ Size(w) = Size(v)
  BY <1>3, RenameEffect
<1>5. /\ x \in Sinks(R) /\ Counted(w, x) /\ x.buffer = <<>> /\ x.emitted = w.emitted
      /\ x.stuck = w.stuck /\ Story(x) = Story(w) /\ Size(x) = Size(w)
      /\ x.failed = w.failed => x.open
  BY <1>4, OpenFileEffect
<1>6. /\ t \in Sinks(R) /\ t.buffer = x.buffer /\ t.emitted = x.emitted /\ t.bytes_written = 0
      /\ t.stuck = x.stuck /\ t.failed = x.failed /\ t.open = x.open
      /\ Story(t) = Story(x) /\ Size(t) = Size(x)
  <2>1. x \in SinkRecord(R)
    BY <1>5 DEF Sinks
  <2>2. t \in SinkRecord(R)
    BY <2>1 DEF SinkRecord
  <2>3. /\ t.buffer = x.buffer /\ t.emitted = x.emitted /\ t.log = x.log /\ t.old = x.old
        /\ t.stuck = x.stuck /\ t.failed = x.failed /\ t.open = x.open
    BY <2>1 DEF SinkRecord
  <2>4. t.bytes_written = 0
    BY <2>1 DEF SinkRecord
  <2>5. t \in Sinks(R)
    BY <1>5, <2>2, <2>3, Zenon DEF Sinks
  <2> QED
    BY <2>3, <2>4, <2>5, Zenon DEF Story, Size
<1>7. Counted(s, v) /\ (v.failed = s.failed => u.failed = s.failed /\ v.failed = u.failed)
  BY <1>2, <1>3, CountedChain
<1>8. Counted(s, w) /\ (w.failed = s.failed => v.failed = s.failed /\ w.failed = v.failed)
  BY <1>3, <1>4, <1>7, CountedChain
<1>9. Counted(s, x) /\ (x.failed = s.failed => w.failed = s.failed /\ x.failed = w.failed)
  BY <1>4, <1>5, <1>8, CountedChain
<1>10. Part(Story(w), Story(s), w.failed = s.failed)
  <2>1. Story(w) \in Seq(R) /\ Story(v) \in Seq(R) /\ Story(s) \in Seq(R)
    BY <1>3, <1>4, StoryIsSeq
  <2>2. Part(Story(v), Story(s), v.failed = u.failed)
    BY <1>2, <1>3, Zenon
  <2>3. w.failed = s.failed => w.failed = v.failed /\ v.failed = u.failed
    BY <1>7, <1>8, Zenon
  <2> QED
    BY <1>4, <2>1, <2>2, <2>3, PartOfPart
<1>11. Part(Story(t), Story(s), t.failed = s.failed)
  <2>1. Part(Story(w), Story(s), t.failed = s.failed)
    <3>1. t.failed = s.failed => w.failed = s.failed
      BY <1>6, <1>9, Zenon
    <3> QED
      BY <1>10, <3>1, PartWeaker
  <2> QED
    BY <1>5, <1>6, <2>1, Zenon
<1>12. \/ t.stuck = s.stuck /\ Size(t) = 0
       \/ t.stuck = s.stuck + 1 /\ Size(t) <= Size(s)
  BY <1>2, <1>3, <1>4, <1>5, <1>6
<1> QED
  BY <1>2, <1>3, <1>4, <1>5, <1>6, <1>9, <1>11, <1>12, ZenonT(30) DEF Counted

\* Opening reads the size again, and rotates a file that is too long.
LEMMA RotateSized ==
    ASSUME NEW R, NEW s \in Sinks(R), NEW m, ~m => Size(s) < Room(s), NEW t \in rotate(s)
    PROVE  Sized(t, m)
<1>1. /\ t \in Sinks(R) /\ t.bytes_written = 0
      /\ \/ t.stuck = s.stuck /\ Size(t) = 0
         \/ t.stuck = s.stuck + 1 /\ Size(t) <= Size(s)
  BY RotateEffect
<1>2. s.stuck \in Nat /\ t.stuck \in Nat /\ Size(s) \in Nat /\ Size(t) \in Nat
  BY <1>1, SinkFields
<1>3. /\ Cap \in Nat /\ Cap >= 2 /\ Room(s) \in Nat /\ Room(t) \in Nat /\ Room(t) >= Cap
      /\ t.stuck = s.stuck + 1 => Room(t) = Room(s) + Cap
  BY <1>2, RoomFacts
<1>4. t.bytes_written < Cap
  BY <1>1, <1>3
<1>5. t.stuck = 0 => Size(t) = t.bytes_written
  BY <1>1, <1>2
<1>6. ~m => Size(t) + Cap <= t.bytes_written + Room(t)
  BY <1>1, <1>2, <1>3
<1>7. ~m => Size(t) < Room(t)
  BY <1>1, <1>2, <1>3
<1> QED
  BY <1>4, <1>5, <1>6, <1>7, Zenon DEF Sized

LEMMA OpenLogEffect ==
    ASSUME NEW R, NEW s \in Sinks(R), ~s.open, NEW t \in open_log(s)
    PROVE  /\ t \in Sinks(R) /\ Counted(s, t) /\ t.buffer = <<>> /\ t.emitted = s.emitted
           /\ Part(Story(t), Story(s), t.failed = s.failed)
           /\ t.failed = s.failed => t.open
           /\ \A m : (~m => Size(s) < Room(s)) => Sized(t, m)
<1> DEFINE seen == [s EXCEPT !.bytes_written = Len(s.log)]
<1>1. s \in SinkRecord(R) /\ Len(s.log) \in Nat /\ s.buffer = <<>>
  BY SinkFields, SinkOpen DEF Sinks
<1>2. seen \in SinkRecord(R)
  BY <1>1 DEF SinkRecord
<1>3. /\ seen.log = s.log /\ seen.old = s.old /\ seen.buffer = s.buffer /\ seen.open = s.open
      /\ seen.emitted = s.emitted /\ seen.failed = s.failed /\ seen.stuck = s.stuck
  BY <1>1 DEF SinkRecord
<1>4. seen.bytes_written = Len(s.log)
  BY <1>1 DEF SinkRecord
<1>5. t \in IF Len(s.log) >= Cap THEN rotate(seen) ELSE open_file(seen)
  BY DEF open_log
<1> HIDE DEF seen
<1>6. seen \in Sinks(R) /\ Story(seen) = Story(s) /\ Size(seen) = Size(s) /\ Room(seen) = Room(s)
  BY <1>2, <1>3, Zenon DEF Sinks, Story, Size, Room
<1>7. CASE Len(s.log) >= Cap /\ t \in rotate(seen)
  <2>1. /\ t \in Sinks(R) /\ Counted(seen, t) /\ t.buffer = <<>> /\ t.emitted = seen.emitted
        /\ Part(Story(t), Story(seen), t.failed = seen.failed)
        /\ t.failed = seen.failed => t.open
    BY <1>6, <1>7, RotateEffect
  <2>2. ASSUME NEW m, ~m => Size(s) < Room(s) PROVE Sized(t, m)
    BY <1>6, <1>7, <2>2, RotateSized
  <2> QED
    BY <1>3, <1>6, <2>1, <2>2, Zenon DEF Counted
<1>8. CASE ~(Len(s.log) >= Cap) /\ t \in open_file(seen)
  <2>1. /\ t \in Sinks(R) /\ Counted(seen, t) /\ t.buffer = <<>> /\ t.emitted = seen.emitted
        /\ t.bytes_written = seen.bytes_written /\ t.stuck = seen.stuck
        /\ Story(t) = Story(seen) /\ Size(t) = Size(seen)
        /\ t.failed = seen.failed => t.open
    <3>1. seen.buffer = <<>>
      BY <1>1, <1>3, Zenon
    <3> QED
      BY <1>6, <1>8, <3>1, OpenFileEffect
  <2>2. Part(Story(s), Story(s), t.failed = s.failed)
    BY StoryIsSeq, PartSelf
  <2>3. ASSUME NEW m, ~m => Size(s) < Room(s) PROVE Sized(t, m)
    <3>1. s.stuck \in Nat /\ Cap \in Nat
      BY SinkFields, TelemetryAssumption
    <3>2. Room(s) \in Nat /\ Room(s) >= Cap /\ Room(t) = Room(s)
      BY <1>3, <2>1, <3>1, RoomFacts
    <3>3. Size(s) = Len(s.log)
      <4>1. Size(s) = Len(s.log) + Len(<<>>)
        BY <1>1, Zenon DEF Size
      <4>2. Len(<<>>) = 0 /\ Len(s.log) + 0 = Len(s.log)
        BY <1>1, EmptySeq
      <4> QED
        BY <4>1, <4>2, Zenon
    <3>4. Size(t) = Len(s.log) /\ t.bytes_written = Len(s.log)
      BY <1>4, <1>6, <2>1, <3>3, Zenon
    <3> DEFINE n == Len(s.log)
    <3>5. n \in Nat /\ n < Cap
      BY <1>1, <1>8, <3>1
    <3> HIDE DEF n
    <3>6. n + Cap <= n + Room(t) /\ n < Room(t)
      BY <3>1, <3>2, <3>5
    <3> QED
      BY <3>4, <3>5, <3>6, Zenon DEF Sized, n
  <2> QED
    BY <1>3, <1>6, <2>1, <2>2, <2>3, Zenon DEF Counted
<1> QED
  BY <1>5, <1>7, <1>8

\* A sink whose size and whose belief of it are as before, or that is closed
\* and no longer than before, is as sized as before.
LEMMA SizedKept ==
    ASSUME NEW R, NEW s \in Sinks(R), NEW t \in Sinks(R), t.stuck = s.stuck,
           \/ t.open = s.open /\ t.bytes_written = s.bytes_written /\ Size(t) = Size(s)
           \/ ~t.open /\ Size(t) <= Size(s)
    PROVE  \A m : Sized(s, m) => Sized(t, m)
<1>1. /\ s.stuck \in Nat /\ Size(s) \in Nat /\ Size(t) \in Nat
      /\ Room(s) \in Nat /\ Room(t) = Room(s)
  BY SinkFields, RoomFacts
<1>2. Size(t) <= Size(s) => \A n \in Nat : Size(s) < n => Size(t) < n
  BY <1>1
<1> QED
  BY <1>1, <1>2, Zenon DEF Sized

LEMMA SwitchOnEffect ==
    ASSUME NEW R, NEW s \in Sinks(R), NEW t \in set_log_enabled(s, TRUE)
    PROVE  /\ t \in Sinks(R) /\ Counted(s, t) /\ t.emitted = s.emitted
           /\ Part(Story(t), Story(s), t.failed = s.failed)
           /\ t.failed = s.failed => t.open
           /\ \A m : Sized(s, m) => Sized(t, m)
<1>1. CASE s.open
  <2>1. t = s
    BY <1>1, SinkOpen DEF set_log_enabled
  <2>2. s.failed >= s.failed /\ s.stuck >= s.stuck
    BY SinkFields
  <2>3. Part(Story(s), Story(s), s.failed = s.failed)
    BY StoryIsSeq, PartSelf
  <2> QED
    BY <1>1, <2>1, <2>2, <2>3, Zenon DEF Counted
<1>2. CASE ~s.open
  <2>1. t \in open_log(s)
    BY <1>2, SinkOpen DEF set_log_enabled
  <2>2. \A m : Sized(s, m) => (~m => Size(s) < Room(s))
    BY Zenon DEF Sized
  <2>3. /\ t \in Sinks(R) /\ Counted(s, t) /\ t.buffer = <<>> /\ t.emitted = s.emitted
        /\ Part(Story(t), Story(s), t.failed = s.failed)
        /\ t.failed = s.failed => t.open
        /\ \A m : (~m => Size(s) < Room(s)) => Sized(t, m)
    BY <1>2, <2>1, OpenLogEffect
  <2>4. \A m : Sized(s, m) => Sized(t, m)
    BY <2>2, <2>3
  <2> QED
    BY <2>3, <2>4
<1> QED
  BY <1>1, <1>2

LEMMA SwitchOnBuffer ==
    ASSUME NEW R, NEW s \in Sinks(R), s.buffer = <<>>, NEW t \in set_log_enabled(s, TRUE)
    PROVE  t.buffer = <<>>
<1>1. CASE s.open
  BY <1>1, SinkOpen DEF set_log_enabled
<1>2. CASE ~s.open
  <2>1. t \in open_log(s)
    BY <1>2, SinkOpen DEF set_log_enabled
  <2> QED
    BY <1>2, <2>1, OpenLogEffect
<1> QED
  BY <1>1, <1>2

LEMMA SwitchOffEffect ==
    ASSUME NEW R, NEW s \in Sinks(R), NEW t \in set_log_enabled(s, FALSE)
    PROVE  /\ t \in Sinks(R) /\ Counted(s, t) /\ ~t.open /\ t.buffer = <<>>
           /\ t.emitted = s.emitted
           /\ Part(Story(t), Story(s), t.failed = s.failed)
           /\ t.failed = s.failed => Story(t) = Story(s)
           /\ \A m : Sized(s, m) => Sized(t, m)
<1>1. CASE ~s.open
  <2>1. t = s
    BY <1>1, SinkOpen DEF set_log_enabled
  <2>2. s.failed >= s.failed /\ s.stuck >= s.stuck
    BY SinkFields
  <2>3. Part(Story(s), Story(s), s.failed = s.failed)
    BY StoryIsSeq, PartSelf
  <2>4. s.buffer = <<>>
    BY <1>1, SinkOpen
  <2> QED
    BY <1>1, <2>1, <2>2, <2>3, <2>4, Zenon DEF Counted
<1>2. CASE s.open
  <2>1. t \in Then(flush(s), Close)
    BY <1>2, SinkOpen DEF set_log_enabled
  <2>2. PICK u \in flush(s) : t \in Close(u)
    BY <2>1 DEF Then
  <2>3. /\ u \in Sinks(R) /\ Counted(s, u) /\ u.stuck = s.stuck /\ u.emitted = s.emitted
        /\ u.open = s.open /\ u.bytes_written = s.bytes_written
        /\ Story(u) = Story(s) /\ Size(u) = Size(s)
    BY FlushEffect
  <2>4. /\ t \in Sinks(R) /\ Counted(u, t) /\ t.stuck = u.stuck /\ ~t.open /\ t.buffer = <<>>
        /\ t.emitted = u.emitted
        /\ Part(Story(t), Story(u), t.failed = u.failed) /\ Size(t) <= Size(u)
        /\ t.failed = u.failed => Story(t) = Story(u)
    BY <2>2, <2>3, CloseEffect
  <2>5. Counted(s, t) /\ (t.failed = s.failed => u.failed = s.failed /\ t.failed = u.failed)
    BY <2>3, <2>4, CountedChain
  <2>6. Part(Story(t), Story(s), t.failed = s.failed)
    <3>1. Part(Story(t), Story(s), t.failed = u.failed)
      BY <2>3, <2>4, Zenon
    <3> QED
      BY <2>5, <3>1, PartWeaker
  <2>7. \A m : Sized(s, m) => Sized(u, m)
    BY <2>3, SizedKept
  <2>8. \A m : Sized(u, m) => Sized(t, m)
    BY <2>3, <2>4, SizedKept
  <2> QED
    BY <2>3, <2>4, <2>5, <2>6, <2>7, <2>8, Zenon
<1> QED
  BY <1>1, <1>2

Extended(s, r) == [s EXCEPT !.buffer = Append(@, r), !.bytes_written = @ + 1]

LEMMA AddedToBuffer ==
    ASSUME NEW R, NEW s \in Sinks(R), s.open, NEW r \in R, Len(s.buffer) < BufferCap
    PROVE  LET t == Extended(s, r)
           IN  /\ t \in Sinks(R) /\ t.open /\ t.emitted = s.emitted
               /\ t.failed = s.failed /\ t.stuck = s.stuck
               /\ t.bytes_written = s.bytes_written + 1
               /\ t.buffer = Append(s.buffer, r)
               /\ Story(t) = Append(Story(s), r) /\ Size(t) = Size(s) + 1
<1> DEFINE more == Append(s.buffer, r)
           n == s.bytes_written + 1
           t == Extended(s, r)
<1>1. s \in SinkRecord(R)
  BY DEF Sinks
<1>2. /\ s.log \in Seq(R) /\ s.old \in Seq(R) /\ s.buffer \in Seq(R)
      /\ Len(s.log) \in Nat /\ Len(s.buffer) \in Nat /\ BufferCap \in Nat
  BY SinkFields, TelemetryAssumption
<1>3. Adds(s.old, s.log, s.buffer, r)
  BY <1>2, AddedRecord
<1>4. n \in Nat
  BY SinkFields
<1>5. more \in Seq(R)
  BY <1>2, AppendProperties
<1>6. t = [s EXCEPT !.buffer = more, !.bytes_written = n]
  BY DEF Extended
<1> HIDE DEF more, n, t
<1>7. t \in SinkRecord(R)
  BY <1>1, <1>4, <1>5, <1>6 DEF SinkRecord
<1>8. /\ t.open = s.open /\ t.emitted = s.emitted /\ t.failed = s.failed /\ t.stuck = s.stuck
      /\ t.log = s.log /\ t.old = s.old /\ t.buffer = more /\ t.bytes_written = n
  BY <1>1, <1>6 DEF SinkRecord
<1>9. Story(t) = Append(Story(s), r)
  BY <1>3, <1>8, Zenon DEF Adds, Story, more
<1>10. Len(more) = Len(s.buffer) + 1
  BY <1>3, Zenon DEF Adds, more
<1>11. Size(t) = Size(s) + 1
  <2> DEFINE l == Len(s.log)
             k == Len(s.buffer)
  <2>1. Size(t) = l + (k + 1) /\ Size(s) = l + k
    BY <1>8, <1>10, Zenon DEF Size
  <2>2. l \in Nat /\ k \in Nat
    BY <1>2
  <2> HIDE DEF l, k
  <2> QED
    BY <2>1, <2>2
<1>12. t \in Sinks(R)
  <2>1. Len(more) <= BufferCap
    BY <1>2, <1>10
  <2> QED
    BY <1>7, <1>8, <2>1, Zenon DEF Sinks
<1> QED
  BY <1>8, <1>9, <1>11, <1>12, Zenon DEF more, n, t

\* A record reaches the buffer unless the flush that makes room fails.
LEMMA BufferedEffect ==
    ASSUME NEW R, NEW s \in Sinks(R), s.open, NEW r \in R, NEW t \in Buffered(s, r)
    PROVE  /\ t \in Sinks(R) /\ Counted(s, t) /\ t.open /\ t.emitted = s.emitted
           /\ t.stuck = s.stuck
           /\ Part(Story(t), Append(Story(s), r), t.failed = s.failed)
           /\ t.failed = s.failed =>
                /\ Story(t) = Append(Story(s), r)
                /\ t.buffer = Append(s.buffer, r) \/ t.buffer = Append(<<>>, r)
           /\ \/ t.bytes_written = s.bytes_written /\ Size(t) = Size(s)
              \/ t.bytes_written = s.bytes_written + 1 /\ Size(t) = Size(s) + 1
<1>1. PICK u \in Sinks(R) :
          /\ Counted(s, u) /\ u.stuck = s.stuck /\ u.open /\ u.emitted = s.emitted
          /\ u.bytes_written = s.bytes_written /\ Story(u) = Story(s) /\ Size(u) = Size(s)
          /\ u.failed = s.failed => u.buffer = s.buffer \/ u.buffer = <<>>
          /\ \/ Len(u.buffer) < BufferCap /\ t = Extended(u, r)
             \/ ~(Len(u.buffer) < BufferCap) /\ t = u /\ u.failed # s.failed
  <2>1. s.failed >= s.failed /\ s.stuck >= s.stuck
    BY SinkFields
  <2>2. CASE Len(s.buffer) < BufferCap
    <3>1. t = Extended(s, r)
      BY <2>2 DEF Buffered, Extended
    <3> QED
      BY <2>1, <2>2, <3>1, Zenon DEF Counted
  <2>3. CASE ~(Len(s.buffer) < BufferCap)
    <3>1. PICK u \in flush(s) :
              t \in IF Len(u.buffer) < BufferCap THEN {Extended(u, r)} ELSE {u}
      BY <2>3 DEF Buffered, Then, Extended
    <3>2. /\ u \in Sinks(R) /\ Counted(s, u) /\ u.stuck = s.stuck /\ u.open = s.open
          /\ u.emitted = s.emitted /\ u.bytes_written = s.bytes_written
          /\ Story(u) = Story(s) /\ Size(u) = Size(s)
          /\ u.failed = s.failed => u.buffer = <<>>
      BY FlushEffect
    <3>3. u.buffer = <<>> => Len(u.buffer) < BufferCap
      BY EmptySeq, TelemetryAssumption
    <3>4. \/ Len(u.buffer) < BufferCap /\ t = Extended(u, r)
          \/ ~(Len(u.buffer) < BufferCap) /\ t = u /\ u.failed # s.failed
      BY <3>1, <3>2, <3>3
    <3> QED
      BY <3>2, <3>4, Zenon
  <2> QED
    BY <2>2, <2>3
<1>2. CASE ~(Len(u.buffer) < BufferCap) /\ t = u /\ u.failed # s.failed
  <2>1. Part(Story(s), Append(Story(s), r), FALSE)
    <3>1. Story(s) \in Seq(R) /\ Part(Story(s), Story(s), TRUE)
      BY StoryIsSeq, PartSelf
    <3> QED
      BY <3>1, PartAppended
  <2>2. Part(Story(t), Append(Story(s), r), t.failed = s.failed)
    <3>1. Part(Story(t), Append(Story(s), r), FALSE)
      BY <1>1, <1>2, <2>1, Zenon
    <3> QED
      BY <1>2, <3>1, PartWeaker
  <2> QED
    BY <1>1, <1>2, <2>2, Zenon
<1>3. CASE Len(u.buffer) < BufferCap /\ t = Extended(u, r)
  <2>1. /\ t \in Sinks(R) /\ t.open /\ t.emitted = u.emitted
        /\ t.failed = u.failed /\ t.stuck = u.stuck /\ t.bytes_written = u.bytes_written + 1
        /\ t.buffer = Append(u.buffer, r)
        /\ Story(t) = Append(Story(u), r) /\ Size(t) = Size(u) + 1
    <3>1. u \in Sinks(R) /\ u.open /\ Len(u.buffer) < BufferCap
      BY <1>1, <1>3
    <3> QED
      BY <1>3, <3>1, AddedToBuffer, ZenonT(30)
  <2>2. Story(t) = Append(Story(s), r)
    BY <1>1, <2>1, Zenon
  <2>3. Part(Story(t), Append(Story(s), r), t.failed = s.failed)
    <3>1. Part(Story(t), Story(t), t.failed = s.failed)
      BY <2>1, StoryIsSeq, PartSelf
    <3> QED
      BY <2>2, <3>1, Zenon
  <2>4. Counted(s, t)
    BY <1>1, <2>1, Zenon DEF Counted
  <2>5. t.failed = s.failed => t.buffer = Append(s.buffer, r) \/ t.buffer = Append(<<>>, r)
    BY <1>1, <2>1, Zenon
  <2> QED
    BY <1>1, <2>1, <2>2, <2>3, <2>4, <2>5, Zenon
<1> QED
  BY <1>1, <1>2, <1>3

\* A record given to an open sink: unless a call failed it ends the story.
LEMMA WriteEffect ==
    ASSUME NEW R, NEW s \in Sinks(R), s.open, NEW r \in R, NEW t \in write_to_log(s, r)
    PROVE  /\ t \in Sinks(R) /\ Counted(s, t) /\ t.emitted = s.emitted
           /\ Part(Story(t), Append(Story(s), r), t.failed = s.failed)
           /\ t.failed = s.failed =>
                /\ t.open
                /\ \E q \in Seq(R) : Story(t) = Append(q, r)
                /\ t.buffer = Append(s.buffer, r) \/ t.buffer = Append(<<>>, r)
           /\ \A m : Sized(s, m) => Sized(t, m)
<1>1. PICK u \in IF s.bytes_written + 1 >= Cap THEN rotate(s) ELSE {s} :
          t \in IF u.open THEN Buffered(u, r) ELSE {u}
  BY DEF write_to_log, Then
<1>2. /\ u \in Sinks(R) /\ Counted(s, u) /\ u.emitted = s.emitted
      /\ Part(Story(u), Story(s), u.failed = s.failed)
      /\ u.failed = s.failed => u.open
      /\ u.buffer = s.buffer \/ u.buffer = <<>>
      /\ \A m : Sized(s, m) => Sized(u, m)
      /\ u.bytes_written + 1 < Cap
  <2>1. Cap \in Nat /\ Cap >= 2 /\ s.bytes_written \in Nat
        /\ s.failed >= s.failed /\ s.stuck >= s.stuck
    BY SinkFields, TelemetryAssumption
  <2>2. CASE s.bytes_written + 1 >= Cap /\ u \in rotate(s)
    <3>1. /\ u \in Sinks(R) /\ Counted(s, u) /\ u.buffer = <<>> /\ u.emitted = s.emitted
          /\ u.bytes_written = 0
          /\ Part(Story(u), Story(s), u.failed = s.failed)
          /\ u.failed = s.failed => u.open
      BY <2>2, RotateEffect
    <3>2. ASSUME NEW m, Sized(s, m) PROVE Sized(u, m)
      <4>1. ~m => Size(s) < Room(s)
        BY <3>2, Zenon DEF Sized
      <4> QED
        BY <2>2, <4>1, RotateSized
    <3>3. 0 + 1 < Cap
      BY <2>1
    <3> QED
      BY <3>1, <3>2, <3>3, Zenon
  <2>3. CASE ~(s.bytes_written + 1 >= Cap) /\ u = s
    <3>1. Part(Story(s), Story(s), s.failed = s.failed)
      BY StoryIsSeq, PartSelf
    <3>2. s.bytes_written + 1 < Cap
      BY <2>1, <2>3
    <3> QED
      BY <2>1, <2>3, <3>1, <3>2, Zenon DEF Counted
  <2> QED
    BY <1>1, <2>2, <2>3
<1>3. Story(u) \in Seq(R) /\ Story(s) \in Seq(R) /\ Append(Story(s), r) \in Seq(R)
      /\ Append(Story(u), r) \in Seq(R)
  BY <1>2, StoryIsSeq, AppendProperties
<1>4. /\ Part(Story(u), Append(Story(s), r), FALSE)
      /\ Part(Append(Story(u), r), Append(Story(s), r), u.failed = s.failed)
  <2> DEFINE a == Story(u)
             b == Story(s)
             w == u.failed = s.failed
  <2>1. a \in Seq(R) /\ b \in Seq(R) /\ Part(a, b, w)
    BY <1>2, <1>3
  <2> HIDE DEF a, b, w
  <2>2. Part(a, Append(b, r), FALSE) /\ Part(Append(a, r), Append(b, r), w)
    BY <2>1, PartAppended
  <2> QED
    BY <2>2, Zenon DEF a, b, w
<1>5. CASE ~u.open /\ t = u
  <2>1. t.failed # s.failed
    BY <1>2, <1>5, Zenon
  <2>2. Part(Story(t), Append(Story(s), r), t.failed = s.failed)
    <3>1. Part(Story(t), Append(Story(s), r), FALSE)
      BY <1>4, <1>5, Zenon
    <3> QED
      BY <2>1, <3>1, PartWeaker
  <2> QED
    BY <1>2, <1>5, <2>1, <2>2, Zenon
<1>6. CASE u.open /\ t \in Buffered(u, r)
  <2>1. /\ t \in Sinks(R) /\ Counted(u, t) /\ t.open /\ t.emitted = u.emitted
        /\ t.stuck = u.stuck
        /\ Part(Story(t), Append(Story(u), r), t.failed = u.failed)
        /\ t.failed = u.failed =>
             /\ Story(t) = Append(Story(u), r)
             /\ t.buffer = Append(u.buffer, r) \/ t.buffer = Append(<<>>, r)
        /\ \/ t.bytes_written = u.bytes_written /\ Size(t) = Size(u)
           \/ t.bytes_written = u.bytes_written + 1 /\ Size(t) = Size(u) + 1
    BY <1>2, <1>6, BufferedEffect
  <2>2. Counted(s, t) /\ (t.failed = s.failed => u.failed = s.failed /\ t.failed = u.failed)
    BY <1>2, <2>1, CountedChain
  <2>3. Part(Story(t), Append(Story(s), r), t.failed = s.failed)
    <3>1. Story(t) \in Seq(R)
      BY <2>1, StoryIsSeq
    <3> QED
      BY <1>3, <1>4, <2>1, <2>2, <3>1, PartOfPart
  <2>4. ASSUME NEW m, Sized(s, m) PROVE Sized(t, m)
    <3>1. /\ u.bytes_written < Cap
          /\ u.stuck = 0 => Size(u) = u.bytes_written
          /\ ~m => Size(u) + Cap <= u.bytes_written + Room(u)
          /\ ~m => Size(u) < Room(u)
      BY <1>2, <1>6, <2>4, Zenon DEF Sized
    <3>2. /\ u.bytes_written \in Nat /\ Size(u) \in Nat /\ u.stuck \in Nat /\ Cap \in Nat
          /\ t.bytes_written \in Nat /\ Size(t) \in Nat
          /\ Room(u) \in Nat /\ Room(t) = Room(u)
      BY <1>2, <2>1, SinkFields, RoomFacts, TelemetryAssumption
    <3>3. t.bytes_written < Cap
      BY <1>2, <2>1, <3>2
    <3>4. t.stuck = 0 => Size(t) = t.bytes_written
      BY <2>1, <3>1, <3>2
    <3>5. ~m => Size(t) + Cap <= t.bytes_written + Room(t) /\ Size(t) < Room(t)
      BY <1>2, <2>1, <3>1, <3>2, SMTT(30)
    <3> QED
      BY <3>3, <3>4, <3>5, Zenon DEF Sized
  <2>5. ASSUME t.failed = s.failed
        PROVE  /\ \E q \in Seq(R) : Story(t) = Append(q, r)
               /\ t.buffer = Append(s.buffer, r) \/ t.buffer = Append(<<>>, r)
    BY <1>2, <1>3, <2>1, <2>2, <2>5, Zenon
  <2> QED
    BY <1>2, <2>1, <2>2, <2>3, <2>4, <2>5, Zenon
<1> QED
  BY <1>1, <1>5, <1>6

-----------------------------------------------------------------------------
(* The operations of a daemon.                                             *)

Rec ==
    [daemon : Nat, seq : Nat, kind : {"event", "config"}, log_enabled : BOOLEAN, rest : {0, 1, 2}]

\* From sink s to sink t the record r was told, or nothing at all.
Tells(s, t, r) ==
    /\ t \in Sinks(Rec) /\ Counted(s, t)
    /\ \A m : Sized(s, m) => Sized(t, m)
    /\ \/ /\ t.emitted = s.emitted
          /\ Part(Story(t), Story(s), FALSE)
          /\ t.failed = s.failed => Story(t) = Story(s)
       \/ /\ t.emitted = s.emitted + 1
          /\ Part(Story(t), Append(Story(s), r), t.failed = s.failed)
          /\ t.failed = s.failed => \E q \in Seq(Rec) : Story(t) = Append(q, r)

LEMMA RecordType ==
    ASSUME NEW kind \in {"event", "config"}, NEW c \in Conf, NEW k \in Nat, daemon \in Nat,
           no_log_cli \in BOOLEAN
    PROVE  Record(kind, c, k) \in Rec
<1>1. c.rest \in {0, 1, 2} /\ want_log(c) \in BOOLEAN
  BY DEF Conf, want_log
<1> QED
  BY <1>1 DEF Record, Rec

LEMMA TellsNothing ==
    ASSUME NEW s, NEW t, NEW r, t \in Sinks(Rec), Counted(s, t),
           \A m : Sized(s, m) => Sized(t, m),
           t.emitted = s.emitted, Part(Story(t), Story(s), FALSE),
           t.failed = s.failed => Story(t) = Story(s)
    PROVE  Tells(s, t, r)
BY DEF Tells

LEMMA TellsRecord ==
    ASSUME NEW s, NEW t, NEW r, t \in Sinks(Rec), Counted(s, t),
           \A m : Sized(s, m) => Sized(t, m),
           t.emitted = s.emitted + 1, Part(Story(t), Append(Story(s), r), t.failed = s.failed),
           t.failed = s.failed => \E q \in Seq(Rec) : Story(t) = Append(q, r)
    PROVE  Tells(s, t, r)
BY DEF Tells

\* A flush behind a step that told r, or nothing, tells nothing more.
LEMMA TellsThenFlush ==
    ASSUME NEW s \in Sinks(Rec), NEW r \in Rec, NEW u, Tells(s, u, r), NEW t \in flush(u)
    PROVE  /\ Tells(s, t, r) /\ t.emitted = u.emitted /\ t.open = u.open
           /\ t.failed = s.failed => u.failed = s.failed /\ t.buffer = <<>>
<1>1. u \in Sinks(Rec) /\ Counted(s, u)
  BY DEF Tells
<1>2. /\ t \in Sinks(Rec) /\ Counted(u, t) /\ t.stuck = u.stuck
      /\ t.open = u.open /\ t.emitted = u.emitted /\ t.bytes_written = u.bytes_written
      /\ Story(t) = Story(u) /\ Size(t) = Size(u)
      /\ t.failed = u.failed => t.buffer = <<>>
  BY <1>1, FlushEffect
<1>3. Counted(s, t) /\ (t.failed = s.failed => u.failed = s.failed /\ t.failed = u.failed)
  BY <1>1, <1>2, CountedChain
<1>4. \A m : Sized(u, m) => Sized(t, m)
  BY <1>1, <1>2, SizedKept
<1>5. \A m : Sized(s, m) => Sized(t, m)
  BY <1>4 DEF Tells
<1>6. CASE /\ u.emitted = s.emitted
           /\ Part(Story(u), Story(s), FALSE)
           /\ u.failed = s.failed => Story(u) = Story(s)
  BY <1>2, <1>3, <1>5, <1>6, Zenon DEF Tells
<1>7. CASE /\ u.emitted = s.emitted + 1
           /\ Part(Story(u), Append(Story(s), r), u.failed = s.failed)
           /\ u.failed = s.failed => \E q \in Seq(Rec) : Story(u) = Append(q, r)
  <2>1. Part(Story(u), Append(Story(s), r), t.failed = s.failed)
    BY <1>3, <1>7, PartWeaker
  <2> QED
    BY <1>2, <1>3, <1>5, <1>7, <2>1, Zenon DEF Tells
<1>8. Tells(s, t, r)
  BY <1>6, <1>7, Zenon DEF Tells
<1> QED
  BY <1>2, <1>3, <1>8, Zenon

LEMMA ReleasedEffect ==
    ASSUME NEW s \in Sinks(Rec)
    PROVE  LET t == Released(s)
           IN  /\ t \in Sinks(Rec) /\ Counted(s, t) /\ ~t.open /\ t.buffer = <<>>
               /\ t.emitted = s.emitted /\ t.failed = s.failed
               /\ Part(Story(t), Story(s), s.buffer = <<>>)
               /\ Story(s) = Story(t) \o s.buffer
               /\ s.buffer = <<>> => Story(t) = Story(s)
               /\ \A m : Sized(s, m) => Sized(t, m)
<1> DEFINE u == [s EXCEPT !.open = FALSE, !.buffer = <<>>]
           t == Released(s)
<1>1. /\ u \in Sinks(Rec) /\ ~u.open /\ u.buffer = <<>>
      /\ u.log = s.log /\ u.old = s.old /\ u.emitted = s.emitted
      /\ u.failed = s.failed /\ u.stuck = s.stuck
      /\ Part(Story(u), Story(s), s.buffer = <<>>)
      /\ s.buffer = <<>> => Story(u) = Story(s)
      /\ Size(u) <= Size(s)
  BY DroppedBuffer
<1>2. t = [u EXCEPT !.bytes_written = 0]
  BY DEF Released, Sinks, SinkRecord
<1> HIDE DEF u, t
<1>3. u \in SinkRecord(Rec)
  BY <1>1 DEF Sinks
<1>4. t \in SinkRecord(Rec)
  BY <1>2, <1>3 DEF SinkRecord
<1>5. /\ t.open = u.open /\ t.buffer = u.buffer /\ t.log = u.log /\ t.old = u.old
      /\ t.emitted = u.emitted /\ t.failed = u.failed /\ t.stuck = u.stuck
  BY <1>2, <1>3 DEF SinkRecord
<1>6. t \in Sinks(Rec) /\ Story(t) = Story(u) /\ Size(t) = Size(u)
  BY <1>1, <1>4, <1>5, Zenon DEF Sinks, Story, Size
<1>7. Counted(s, t)
  <2>1. s.failed >= s.failed /\ s.stuck >= s.stuck
    BY SinkFields
  <2> QED
    BY <1>1, <1>5, <2>1, Zenon DEF Counted
<1>8. \A m : Sized(s, m) => Sized(t, m)
  <2>1. t.stuck = s.stuck /\ ~t.open /\ Size(t) <= Size(s)
    BY <1>1, <1>5, <1>6, Zenon
  <2> QED
    BY <1>6, <2>1, SizedKept
<1>9. Story(s) = Story(t) \o s.buffer
  <2>1. Story(t) = t.old \o t.log
    BY <1>1, <1>5, <1>6, StoryIsSeq, Zenon
  <2> QED
    BY <1>1, <1>5, <2>1, Zenon DEF Story, Told
<1> QED
  BY <1>1, <1>5, <1>6, <1>7, <1>8, <1>9, Zenon DEF t

LEMMA CountedRecord ==
    ASSUME NEW s \in Sinks(Rec)
    PROVE  LET u == [s EXCEPT !.emitted = @ + 1]
           IN  /\ u \in Sinks(Rec) /\ u.emitted = s.emitted + 1 /\ u.open = s.open
               /\ u.failed = s.failed /\ u.stuck = s.stuck /\ u.buffer = s.buffer
               /\ Story(u) = Story(s) /\ Size(u) = Size(s) /\ u.bytes_written = s.bytes_written
<1> DEFINE u == [s EXCEPT !.emitted = @ + 1]
<1>1. s \in SinkRecord(Rec)
  BY DEF Sinks
<1>2. u \in SinkRecord(Rec)
  BY <1>1, SMTT(30) DEF SinkRecord
<1>3. /\ u.log = s.log /\ u.old = s.old /\ u.buffer = s.buffer /\ u.open = s.open
      /\ u.failed = s.failed /\ u.stuck = s.stuck /\ u.bytes_written = s.bytes_written
  BY <1>1 DEF SinkRecord
<1>4. u.emitted = s.emitted + 1
  BY <1>1 DEF SinkRecord
<1> HIDE DEF u
<1>5. u \in Sinks(Rec)
  BY <1>2, <1>3, Zenon DEF Sinks
<1>6. Story(u) = Story(s) /\ Size(u) = Size(s)
  BY <1>3, Zenon DEF Story, Size
<1> QED
  BY <1>3, <1>4, <1>5, <1>6, Zenon DEF u

LEMMA EmitEffect ==
    ASSUME NEW s \in Sinks(Rec), NEW kind \in {"event", "config"}, NEW c \in Conf,
           daemon \in Nat, no_log_cli \in BOOLEAN, NEW t \in emit_with(s, kind, c)
    PROVE  LET r == Record(kind, c, s.emitted + 1)
           IN  /\ r \in Rec /\ Tells(s, t, r)
               /\ ~s.open => t = s
               /\ s.open => t.emitted = s.emitted + 1
               /\ t.failed = s.failed /\ s.open =>
                    t.open /\ (t.buffer = Append(s.buffer, r) \/ t.buffer = Append(<<>>, r))
<1> DEFINE r == Record(kind, c, s.emitted + 1)
<1>1. r \in Rec
  BY SinkFields, RecordType
<1> HIDE DEF r
<1>2. CASE ~s.open
  <2>1. t = s
    BY <1>2 DEF emit_with
  <2>2. s.failed >= s.failed /\ s.stuck >= s.stuck
    BY SinkFields
  <2>3. Part(Story(s), Story(s), FALSE)
    BY StoryIsSeq, PartSelf
  <2>4. Tells(s, t, r)
    BY <2>1, <2>2, <2>3, Zenon DEF Tells, Counted
  <2> QED
    BY <1>1, <1>2, <2>1, <2>4, Zenon DEF r
<1>3. CASE s.open
  <2> DEFINE u == [s EXCEPT !.emitted = @ + 1]
  <2>1. t \in write_to_log(u, r)
    BY <1>3 DEF emit_with, r
  <2>2. /\ u \in Sinks(Rec) /\ u.emitted = s.emitted + 1 /\ u.open = s.open
        /\ u.failed = s.failed /\ u.stuck = s.stuck /\ u.buffer = s.buffer
        /\ Story(u) = Story(s) /\ Size(u) = Size(s) /\ u.bytes_written = s.bytes_written
    BY CountedRecord
  <2> HIDE DEF u
  <2>3. /\ t \in Sinks(Rec) /\ Counted(u, t) /\ t.emitted = u.emitted
        /\ Part(Story(t), Append(Story(u), r), t.failed = u.failed)
        /\ t.failed = u.failed =>
             /\ t.open
             /\ \E q \in Seq(Rec) : Story(t) = Append(q, r)
             /\ t.buffer = Append(u.buffer, r) \/ t.buffer = Append(<<>>, r)
        /\ \A m : Sized(u, m) => Sized(t, m)
    BY <1>1, <1>3, <2>1, <2>2, WriteEffect
  <2>4. \A m : Sized(s, m) => Sized(u, m)
    BY <2>2, SizedKept
  <2>5. \A m : Sized(s, m) => Sized(t, m)
    BY <2>3, <2>4
  <2>6. Counted(s, t)
    BY <2>2, <2>3, Zenon DEF Counted
  <2>7. Tells(s, t, r)
    BY <2>2, <2>3, <2>5, <2>6, Zenon DEF Tells
  <2> QED
    BY <1>1, <1>3, <2>2, <2>3, <2>7, Zenon DEF r
<1> QED
  BY <1>2, <1>3

\* A change of the configuration is announced by an open log.
LEMMA AnnouncedEffect ==
    ASSUME NEW s \in Sinks(Rec), conf \in Conf, daemon \in Nat, no_log_cli \in BOOLEAN,
           NEW t \in Announced(s)
    PROVE  LET r == Record("config", conf, s.emitted + 1)
           IN  /\ r \in Rec /\ Tells(s, t, r)
               /\ t.failed = s.failed =>
                    /\ want_log(conf) => t.open
                    /\ ~want_log(conf) => t.open = s.open
                    /\ s.open \/ t.open =>
                         /\ t.emitted = s.emitted + 1
                         /\ t.buffer = Append(s.buffer, r) \/ t.buffer = Append(<<>>, r)
                    /\ ~s.open /\ ~t.open => t = s
<1> DEFINE r == Record("config", conf, s.emitted + 1)
<1>1. r \in Rec
  BY SinkFields, RecordType
<1>2. CASE want_log(conf)
  <2>1. PICK u \in set_log_enabled(s, TRUE) : t \in emit_with(u, "config", conf)
    BY <1>2 DEF Announced, Then
  <2>2. /\ u \in Sinks(Rec) /\ Counted(s, u) /\ u.emitted = s.emitted
        /\ Part(Story(u), Story(s), u.failed = s.failed)
        /\ u.failed = s.failed => u.open
        /\ \A m : Sized(s, m) => Sized(u, m)
    BY SwitchOnEffect
  <2>3. /\ Tells(u, t, r)
        /\ ~u.open => t = u
        /\ u.open => t.emitted = u.emitted + 1
        /\ t.failed = u.failed /\ u.open =>
             t.open /\ (t.buffer = Append(u.buffer, r) \/ t.buffer = Append(<<>>, r))
    <3> DEFINE w == Record("config", conf, u.emitted + 1)
    <3>1. /\ Tells(u, t, w)
          /\ ~u.open => t = u
          /\ u.open => t.emitted = u.emitted + 1
          /\ t.failed = u.failed /\ u.open =>
               t.open /\ (t.buffer = Append(u.buffer, w) \/ t.buffer = Append(<<>>, w))
      BY <2>1, <2>2, EmitEffect
    <3>2. w = r
      BY <2>2, Zenon
    <3> QED
      BY <3>1, <3>2, Zenon
  <2> HIDE DEF r
  <2>4. t \in Sinks(Rec) /\ Counted(u, t) /\ \A m : Sized(u, m) => Sized(t, m)
    BY <2>3 DEF Tells
  <2>5. Counted(s, t) /\ (t.failed = s.failed => u.failed = s.failed /\ t.failed = u.failed)
    BY <2>2, <2>4, CountedChain
  <2>6. \A m : Sized(s, m) => Sized(t, m)
    BY <2>2, <2>4
  <2>7. /\ Story(s) \in Seq(Rec) /\ Story(u) \in Seq(Rec) /\ Story(t) \in Seq(Rec)
        /\ Append(Story(s), r) \in Seq(Rec) /\ Append(Story(u), r) \in Seq(Rec)
    BY <1>1, <2>2, <2>4, StoryIsSeq, AppendProperties
  <2>8. s.emitted \in Nat /\ s.emitted + 1 # s.emitted
    BY SinkFields
  <2>9. CASE ~u.open
    <3>1. t.failed # s.failed
      BY <2>2, <2>5, <2>9, Zenon
    <3>2. t.emitted = u.emitted /\ Part(Story(t), Story(u), FALSE)
      <4>1. t = u /\ Story(u) \in Seq(Rec)
        BY <2>3, <2>7, <2>9
      <4> QED
        BY <4>1, PartSelf
    <3>3. Part(Story(t), Story(s), FALSE)
      BY <2>2, <2>7, <3>2, PartOfPart
    <3>4. Tells(s, t, r)
      BY <2>2, <2>4, <2>5, <2>6, <3>1, <3>2, <3>3, Zenon DEF Tells
    <3> QED
      BY <1>1, <3>1, <3>4, Zenon DEF r
  <2>10. CASE u.open
    <3>1. /\ t.emitted = u.emitted + 1
          /\ Part(Story(t), Append(Story(u), r), t.failed = u.failed)
          /\ t.failed = u.failed => \E q \in Seq(Rec) : Story(t) = Append(q, r)
      BY <2>2, <2>3, <2>8, <2>10, Zenon DEF Tells
    <3>2. Part(Append(Story(u), r), Append(Story(s), r), u.failed = s.failed)
      <4> DEFINE a == Story(u)
                 b == Story(s)
                 w == u.failed = s.failed
      <4>1. a \in Seq(Rec) /\ b \in Seq(Rec) /\ Part(a, b, w)
        BY <2>2, <2>7
      <4> HIDE DEF a, b, w
      <4>2. Part(Append(a, r), Append(b, r), w)
        BY <1>1, <4>1, PartAppended
      <4> QED
        BY <4>2, Zenon DEF a, b, w
    <3>3. Part(Story(t), Append(Story(s), r), t.failed = s.failed)
      BY <2>5, <2>7, <3>1, <3>2, PartOfPart
    <3>4. Tells(s, t, r)
      BY <2>2, <2>4, <2>5, <2>6, <3>1, <3>3, Zenon DEF Tells
    <3>5. u.buffer = s.buffer
      <4>1. CASE s.open
        BY <2>1, <4>1, SinkOpen DEF set_log_enabled
      <4>2. CASE ~s.open
        BY <2>1, <4>2, SinkOpen, SwitchOnBuffer
      <4> QED
        BY <4>1, <4>2
    <3>6. t.failed = s.failed =>
              t.open /\ (t.buffer = Append(s.buffer, r) \/ t.buffer = Append(<<>>, r))
      BY <2>3, <2>5, <2>10, <3>5, Zenon
    <3> QED
      BY <1>1, <1>2, <2>2, <3>1, <3>4, <3>6, Zenon DEF r
  <2> QED
    BY <2>9, <2>10
<1>3. CASE ~want_log(conf)
  <2>1. t \in emit_with(s, "config", conf)
    BY <1>3 DEF Announced
  <2>2. /\ Tells(s, t, r)
        /\ ~s.open => t = s
        /\ s.open => t.emitted = s.emitted + 1
        /\ t.failed = s.failed /\ s.open =>
             t.open /\ (t.buffer = Append(s.buffer, r) \/ t.buffer = Append(<<>>, r))
    BY <2>1, EmitEffect
  <2> HIDE DEF r
  <2>3. t \in Sinks(Rec) /\ s.open \in BOOLEAN /\ t.open \in BOOLEAN
    BY <2>2, SinkOpen DEF Tells
  <2>4. t.failed = s.failed => t.open = s.open
    BY <2>2, <2>3
  <2> QED
    BY <1>1, <1>3, <2>2, <2>4, Zenon DEF r
<1> QED
  BY <1>2, <1>3

\* What follows a step that told r, or nothing, and tells nothing itself, is
\* part of that step.
LEMMA TellsThenNothing ==
    ASSUME NEW s \in Sinks(Rec), NEW r \in Rec, NEW u, Tells(s, u, r),
           NEW t \in Sinks(Rec), Counted(u, t), t.emitted = u.emitted,
           Part(Story(t), Story(u), t.failed = u.failed),
           t.failed = u.failed => Story(t) = Story(u),
           \A m : Sized(u, m) => Sized(t, m)
    PROVE  Tells(s, t, r)
<1>1. u \in Sinks(Rec) /\ Counted(s, u) /\ \A m : Sized(s, m) => Sized(u, m)
  BY DEF Tells
<1>2. Counted(s, t) /\ (t.failed = s.failed => u.failed = s.failed /\ t.failed = u.failed)
  BY <1>1, CountedChain
<1>3. \A m : Sized(s, m) => Sized(t, m)
  BY <1>1
<1>4. /\ Story(s) \in Seq(Rec) /\ Story(u) \in Seq(Rec) /\ Story(t) \in Seq(Rec)
      /\ Append(Story(s), r) \in Seq(Rec)
  BY <1>1, StoryIsSeq, AppendProperties
<1>5. ASSUME u.emitted = s.emitted,
             Part(Story(u), Story(s), FALSE),
             u.failed = s.failed => Story(u) = Story(s)
      PROVE  Tells(s, t, r)
  <2>1. Part(Story(t), Story(s), FALSE)
    BY <1>4, <1>5, PartOfPart
  <2>2. t.emitted = s.emitted /\ (t.failed = s.failed => Story(t) = Story(s))
    BY <1>2, <1>5, Zenon
  <2> QED
    BY <1>2, <1>3, <2>1, <2>2, TellsNothing
<1>6. ASSUME u.emitted = s.emitted + 1,
             Part(Story(u), Append(Story(s), r), u.failed = s.failed),
             u.failed = s.failed => \E q \in Seq(Rec) : Story(u) = Append(q, r)
      PROVE  Tells(s, t, r)
  <2>1. Part(Story(t), Append(Story(s), r), t.failed = s.failed)
    BY <1>2, <1>4, <1>6, PartOfPart
  <2>2. /\ t.emitted = s.emitted + 1
        /\ t.failed = s.failed => \E q \in Seq(Rec) : Story(t) = Append(q, r)
    BY <1>2, <1>6, Zenon
  <2> QED
    BY <1>2, <1>3, <2>1, <2>2, TellsRecord
<1>7. \/ /\ u.emitted = s.emitted
         /\ Part(Story(u), Story(s), FALSE)
         /\ u.failed = s.failed => Story(u) = Story(s)
      \/ /\ u.emitted = s.emitted + 1
         /\ Part(Story(u), Append(Story(s), r), u.failed = s.failed)
         /\ u.failed = s.failed => \E q \in Seq(Rec) : Story(u) = Append(q, r)
  BY Zenon DEF Tells
<1> QED
  BY <1>5, <1>6, <1>7, Zenon

LEMMA TellsSelf ==
    ASSUME NEW s \in Sinks(Rec), NEW r
    PROVE  Tells(s, s, r)
<1>1. s.failed >= s.failed /\ s.stuck >= s.stuck
  BY SinkFields
<1>2. Part(Story(s), Story(s), FALSE)
  BY StoryIsSeq, PartSelf
<1> QED
  BY <1>1, <1>2, Zenon DEF Tells, Counted

\* A writer that is forgotten once it is flushed takes nothing with it.
LEMMA TellsThenReleased ==
    ASSUME NEW s \in Sinks(Rec), NEW r \in Rec, NEW u, Tells(s, u, r),
           u.failed = s.failed => u.buffer = <<>>
    PROVE  LET t == Released(u)
           IN  Tells(s, t, r) /\ t.emitted = u.emitted /\ ~t.open /\ t.buffer = <<>>
<1> DEFINE t == Released(u)
<1>1. u \in Sinks(Rec) /\ Counted(s, u)
  BY DEF Tells
<1>2. /\ t \in Sinks(Rec) /\ Counted(u, t) /\ ~t.open /\ t.buffer = <<>>
      /\ t.emitted = u.emitted /\ t.failed = u.failed
      /\ Part(Story(t), Story(u), u.buffer = <<>>)
      /\ u.buffer = <<>> => Story(t) = Story(u)
      /\ \A m : Sized(u, m) => Sized(t, m)
  BY <1>1, ReleasedEffect
<1> HIDE DEF t
<1>3. Counted(s, t)
  BY <1>1, <1>2, CountedChain
<1>4. \A m : Sized(s, m) => Sized(t, m)
  BY <1>2 DEF Tells
<1>5. Story(s) \in Seq(Rec) /\ Story(u) \in Seq(Rec) /\ Story(t) \in Seq(Rec)
      /\ Append(Story(s), r) \in Seq(Rec)
  BY <1>1, <1>2, StoryIsSeq, AppendProperties
<1>6. ASSUME u.emitted = s.emitted, Part(Story(u), Story(s), FALSE),
             u.failed = s.failed => Story(u) = Story(s)
      PROVE  Tells(s, t, r)
  <2>1. Part(Story(t), Story(s), FALSE)
    BY <1>2, <1>5, <1>6, PartOfPart
  <2>2. t.emitted = s.emitted /\ (t.failed = s.failed => Story(t) = Story(s))
    BY <1>2, <1>6, Zenon
  <2> QED
    BY <1>2, <1>3, <1>4, <2>1, <2>2, TellsNothing
<1>7. ASSUME u.emitted = s.emitted + 1,
             Part(Story(u), Append(Story(s), r), u.failed = s.failed),
             u.failed = s.failed => \E q \in Seq(Rec) : Story(u) = Append(q, r)
      PROVE  Tells(s, t, r)
  <2>1. Part(Story(t), Append(Story(s), r), t.failed = s.failed)
    BY <1>2, <1>5, <1>7, PartOfPart
  <2>2. /\ t.emitted = s.emitted + 1
        /\ t.failed = s.failed => \E q \in Seq(Rec) : Story(t) = Append(q, r)
    BY <1>2, <1>7, Zenon
  <2> QED
    BY <1>2, <1>3, <1>4, <2>1, <2>2, TellsRecord
<1>8. \/ /\ u.emitted = s.emitted
         /\ Part(Story(u), Story(s), FALSE)
         /\ u.failed = s.failed => Story(u) = Story(s)
      \/ /\ u.emitted = s.emitted + 1
         /\ Part(Story(u), Append(Story(s), r), u.failed = s.failed)
         /\ u.failed = s.failed => \E q \in Seq(Rec) : Story(u) = Append(q, r)
  BY Zenon DEF Tells
<1>9. Tells(s, t, r)
  BY <1>6, <1>7, <1>8, Zenon
<1> QED
  BY <1>2, <1>9, Zenon DEF t

LEMMA HeldRecord == Nothing \notin Conf
BY DEF Nothing, Conf

\* The next record the daemon may tell.
NextRecord(r, kind) ==
    r \in Rec /\ r.daemon = daemon /\ r.seq = sink.emitted + 1 /\ r.kind = kind

LEMMA RecordFields ==
    ASSUME NEW kind \in {"event", "config"}, NEW c \in Conf, NEW k \in Nat, daemon \in Nat,
           no_log_cli \in BOOLEAN
    PROVE  LET r == Record(kind, c, k)
           IN  /\ r \in Rec /\ r.daemon = daemon /\ r.seq = k /\ r.kind = kind
               /\ r.log_enabled = want_log(c) /\ r.rest = c.rest
<1>1. Record(kind, c, k) \in Rec
  BY RecordType
<1> QED
  BY <1>1 DEF Record

\* From sink s to sink t a log may have been opened, or closed, and nothing
\* was told.
Switches(s, t) ==
    /\ t \in Sinks(Rec) /\ Counted(s, t)
    /\ \A m : Sized(s, m) => Sized(t, m)
    /\ Part(Story(t), Story(s), t.failed = s.failed)

LEMMA StartEffect ==
    ASSUME NEW s \in Sinks(Rec), ~s.open, NEW on \in BOOLEAN, NEW t \in with_stdout(s, on)
    PROVE  Switches(s, t) /\ t.emitted = 0 /\ t.buffer = <<>>
<1> DEFINE u == [s EXCEPT !.bytes_written = Len(s.log), !.emitted = 0]
<1>1. s \in SinkRecord(Rec) /\ Len(s.log) \in Nat /\ s.buffer = <<>>
  BY SinkFields, SinkOpen DEF Sinks
<1>2. u \in SinkRecord(Rec)
  BY <1>1 DEF SinkRecord
<1>3. /\ u.log = s.log /\ u.old = s.old /\ u.buffer = s.buffer /\ u.open = s.open
      /\ u.failed = s.failed /\ u.stuck = s.stuck
  BY <1>1 DEF SinkRecord
<1>4. u.emitted = 0
  BY <1>1 DEF SinkRecord
<1>5. t \in open_log(u) \/ t = u
  BY DEF with_stdout
<1> HIDE DEF u
<1>6. u \in Sinks(Rec) /\ Story(u) = Story(s) /\ Size(u) = Size(s) /\ ~u.open
  BY <1>2, <1>3, Zenon DEF Sinks, Story, Size
<1>7. \A m : Sized(s, m) => Sized(u, m)
  <2>1. Size(u) <= Size(s)
    BY <1>6, SinkFields
  <2> QED
    BY <1>3, <1>6, <2>1, SizedKept
<1>8. CASE t = u
  <2>1. s.failed >= s.failed /\ s.stuck >= s.stuck
    BY SinkFields
  <2>2. Part(Story(s), Story(s), u.failed = s.failed)
    BY StoryIsSeq, PartSelf
  <2> QED
    BY <1>1, <1>3, <1>4, <1>6, <1>7, <1>8, <2>1, <2>2, Zenon DEF Switches, Counted
<1>9. CASE t \in open_log(u)
  <2>1. /\ t \in Sinks(Rec) /\ Counted(u, t) /\ t.buffer = <<>> /\ t.emitted = u.emitted
        /\ Part(Story(t), Story(u), t.failed = u.failed)
        /\ \A m : (~m => Size(u) < Room(u)) => Sized(t, m)
    BY <1>6, <1>9, OpenLogEffect
  <2>2. \A m : Sized(u, m) => (~m => Size(u) < Room(u))
    BY Zenon DEF Sized
  <2>3. \A m : Sized(s, m) => Sized(t, m)
    BY <1>7, <2>1, <2>2
  <2> QED
    BY <1>3, <1>4, <1>6, <2>1, <2>3, Zenon DEF Switches, Counted
<1> QED
  BY <1>5, <1>8, <1>9

\* The first reload leaves the log as its configuration wants it.
LEMMA FirstReloadEffect ==
    ASSUME NEW s \in Sinks(Rec), s.buffer = <<>>, NEW on \in BOOLEAN,
           NEW t \in IF on THEN Then(set_log_enabled(s, TRUE), flush)
                     ELSE set_log_enabled(s, FALSE)
    PROVE  /\ Switches(s, t) /\ t.emitted = s.emitted /\ t.buffer = <<>>
           /\ t.failed = s.failed => (t.open <=> on)
<1>1. CASE on
  <2>1. PICK u \in set_log_enabled(s, TRUE) : t \in flush(u)
    BY <1>1 DEF Then
  <2>2. /\ u \in Sinks(Rec) /\ Counted(s, u) /\ u.emitted = s.emitted
        /\ Part(Story(u), Story(s), u.failed = s.failed)
        /\ u.failed = s.failed => u.open
        /\ \A m : Sized(s, m) => Sized(u, m)
        /\ u.buffer = <<>>
    <3>1. /\ u \in Sinks(Rec) /\ Counted(s, u) /\ u.emitted = s.emitted
          /\ Part(Story(u), Story(s), u.failed = s.failed)
          /\ u.failed = s.failed => u.open
          /\ \A m : Sized(s, m) => Sized(u, m)
      BY SwitchOnEffect
    <3>2. u.buffer = <<>>
      BY SwitchOnBuffer
    <3> QED
      BY <3>1, <3>2, Zenon
  <2>3. t = u
    BY <2>1, <2>2 DEF flush
  <2> QED
    BY <1>1, <2>2, <2>3, Zenon DEF Switches
<1>2. CASE ~on
  <2>1. t \in set_log_enabled(s, FALSE)
    BY <1>2
  <2>2. /\ t \in Sinks(Rec) /\ Counted(s, t) /\ ~t.open /\ t.buffer = <<>>
        /\ t.emitted = s.emitted
        /\ Part(Story(t), Story(s), t.failed = s.failed)
        /\ \A m : Sized(s, m) => Sized(t, m)
    BY <2>1, SwitchOffEffect
  <2> QED
    BY <1>2, <2>2, Zenon DEF Switches
<1> QED
  BY <1>1, <1>2

-----------------------------------------------------------------------------
(* The inductive invariants.                                               *)

TypeInv ==
    /\ phase \in {"down", "created", "loaded", "ready", "starting", "idle", "batch", "announcing",
                 "failing", "exiting"}
    /\ sink \in Sinks(Rec)
    /\ conf \in Conf
    /\ config \in Conf \cup {Nothing} /\ startup_record \in Conf \cup {Nothing}
    /\ no_log_cli \in BOOLEAN /\ daemon \in Nat
    /\ owed \in BOOLEAN /\ killed \in BOOLEAN /\ meddled \in BOOLEAN

\* What is held in each phase.
HeldInv ==
    /\ sink.open => phase # "down"
    /\ startup_record # Nothing <=> phase \in {"loaded", "ready"}
    /\ phase \in {"down", "created", "loaded", "ready"} => sink.buffer = <<>>
    /\ phase \notin {"down", "created"} => config \in Conf
    /\ phase # "down" => daemon # 0 /\ ~killed
    /\ phase \in {"created", "loaded", "ready"} => sink.emitted = 0

SinkInv == TypeInv /\ HeldInv /\ Sized(sink, meddled)

Ordered(q) ==
    \A i, j \in 1..Len(q) :
        i < j /\ q[i].daemon # 0 /\ q[j].daemon # 0 => Follows(q[i], q[j])

\* Nothing comes from a daemon yet to be, or from an emission yet to come.
Known(q, d, n) ==
    \A i \in 1..Len(q) :
        /\ q[i].daemon <= d
        /\ q[i].daemon = d /\ d # 0 => 1 <= q[i].seq /\ q[i].seq <= n

Chained(q) == \A i \in 1..(Len(q) - 1) : NextTo(q[i], q[i + 1])

Ends(q, d, n) == Len(q) > 0 /\ q[Len(q)].daemon = d /\ q[Len(q)].seq = n

\* The story in order; and without a gap, up to the last record emitted,
\* unless the end was killed.
StoryInv ==
    /\ Ordered(Story(sink))
    /\ Known(Story(sink), daemon, sink.emitted)
    /\ Undisturbed =>
         /\ Chained(Story(sink))
         /\ ~killed /\ sink.emitted > 0 => Ends(Story(sink), daemon, sink.emitted)

\* A log that is on when its daemon has read the files gets a record.
OwedInv ==
    /\ phase = "created" => ~owed
    /\ phase \in {"loaded", "ready"} => (owed <=> sink.open)
    /\ phase \notin {"down", "created", "loaded", "ready"} \/ (phase = "down" /\ ~killed) =>
         (owed => sink.emitted > 0)

\* A buffer of events, but for the last record in a phase that announces.
Waits(q, announcing) ==
    \A i \in 1..Len(q) : q[i].kind = "config" => announcing /\ i = Len(q)

\* What is on its way: events, and a configuration behind them until it is
\* flushed; and nothing while the daemon sleeps.
BufferInv ==
    Undisturbed =>
        /\ phase = "idle" => sink.buffer = <<>>
        /\ Waits(sink.buffer, Announcing)

\* The last record of q in which daemon d announces a configuration tells
\* that the log is on or off, and what else is in force.
Latest(q, d, on, rest) ==
    \A i \in 1..Len(q) :
        /\ q[i].daemon = d /\ q[i].kind = "config"
        /\ \A j \in 1..Len(q) : i < j => ~(q[j].daemon = d /\ q[j].kind = "config")
        => /\ q[i].log_enabled = on
           /\ on => q[i].rest = rest
           /\ ~on => i = Len(q)

\* The phases in which a configuration is in force.
InPower == {"loaded", "ready", "starting", "idle", "batch", "announcing"}

\* Until a disabled log is closed, which is the end of its announcement, the
\* record that says so is its last line already.
SwitchInv ==
    Undisturbed =>
        /\ phase \in {"loaded", "ready"} => startup_record = config
        /\ phase \in InPower =>
             /\ want_log(config) => sink.open
             /\ phase # "announcing" => (sink.open => want_log(config))
             /\ Latest(Story(sink), daemon, want_log(config), config.rest)

-----------------------------------------------------------------------------
(* What the actions make of the sink.                                      *)

\* What an emission leaves in the buffer of an open log.
Joined(q, p, r) == q = Append(p, r) \/ q = Append(<<>>, r)

LEMMA StartupEffect ==
    ASSUME SinkInv, emit_startup_record, phase \in {"loaded", "ready"}
    PROVE  \E r : /\ NextRecord(r, "config") /\ Tells(sink, sink', r)
                  /\ r.log_enabled = want_log(startup_record) /\ r.rest = startup_record.rest
                  /\ ~sink.open => sink' = sink
                  /\ sink.open => sink'.emitted = sink.emitted + 1
                  /\ sink'.failed = sink.failed /\ sink.open =>
                       sink'.open /\ Joined(sink'.buffer, sink.buffer, r)
<1>1. /\ sink \in Sinks(Rec) /\ daemon \in Nat /\ no_log_cli \in BOOLEAN
      /\ startup_record \in Conf
  BY DEF SinkInv, TypeInv, HeldInv
<1>2. sink' \in emit_with(sink, "config", startup_record)
  BY <1>1, HeldRecord DEF emit_startup_record
<1> DEFINE r == Record("config", startup_record, sink.emitted + 1)
<1>3. /\ r \in Rec /\ Tells(sink, sink', r)
      /\ ~sink.open => sink' = sink
      /\ sink.open => sink'.emitted = sink.emitted + 1
      /\ sink'.failed = sink.failed /\ sink.open =>
           sink'.open /\ Joined(sink'.buffer, sink.buffer, r)
  BY <1>1, <1>2, EmitEffect DEF Joined
<1>4. sink.emitted + 1 \in Nat
  BY <1>1, SinkFields
<1>5. /\ r.daemon = daemon /\ r.seq = sink.emitted + 1 /\ r.kind = "config"
      /\ r.log_enabled = want_log(startup_record) /\ r.rest = startup_record.rest
  BY <1>1, <1>4, RecordFields
<1> HIDE DEF r
<1> QED
  BY <1>3, <1>5, Zenon DEF NextRecord

LEMMA EventEffect ==
    ASSUME SinkInv, Event
    PROVE  \E r : /\ NextRecord(r, "event") /\ Tells(sink, sink', r)
                  /\ ~sink.open => sink' = sink
                  /\ sink.open => sink'.emitted = sink.emitted + 1
                  /\ sink'.failed = sink.failed /\ sink.open =>
                       sink'.open /\ Joined(sink'.buffer, sink.buffer, r)
<1>1. /\ sink \in Sinks(Rec) /\ daemon \in Nat /\ no_log_cli \in BOOLEAN
      /\ config \in Conf
  BY DEF SinkInv, TypeInv, HeldInv, Event
<1>2. sink' \in emit_with(sink, "event", config)
  BY DEF Event
<1> DEFINE r == Record("event", config, sink.emitted + 1)
<1>3. /\ r \in Rec /\ Tells(sink, sink', r)
      /\ ~sink.open => sink' = sink
      /\ sink.open => sink'.emitted = sink.emitted + 1
      /\ sink'.failed = sink.failed /\ sink.open =>
           sink'.open /\ Joined(sink'.buffer, sink.buffer, r)
  BY <1>1, <1>2, EmitEffect DEF Joined
<1>4. sink.emitted + 1 \in Nat
  BY <1>1, SinkFields
<1>5. r.daemon = daemon /\ r.seq = sink.emitted + 1 /\ r.kind = "event"
  BY <1>1, <1>4, RecordFields
<1> HIDE DEF r
<1> QED
  BY <1>3, <1>5, Zenon DEF NextRecord

LEMMA ReloadEffect ==
    ASSUME SinkInv, reload_configs
    PROVE  \/ sink' = sink /\ config' = config /\ phase' = "batch"
           \/ /\ phase' = "announcing"
              /\ \E r : /\ NextRecord(r, "config") /\ Tells(sink, sink', r)
                        /\ r.log_enabled = want_log(conf) /\ r.rest = conf.rest
                        /\ sink'.failed = sink.failed =>
                             /\ want_log(conf) => sink'.open
                             /\ sink.open \/ sink'.open =>
                                  /\ sink'.emitted = sink.emitted + 1
                                  /\ Joined(sink'.buffer, sink.buffer, r)
                             /\ ~sink.open /\ ~sink'.open => sink' = sink
<1>1. /\ sink \in Sinks(Rec) /\ daemon \in Nat /\ no_log_cli \in BOOLEAN
      /\ conf \in Conf
  BY DEF SinkInv, TypeInv, HeldInv
<1>2. CASE conf = config
  BY <1>2 DEF reload_configs
<1>3. CASE conf # config
  <2>1. sink' \in Announced(sink) /\ phase' = "announcing"
    BY <1>3 DEF reload_configs
  <2> DEFINE r == Record("config", conf, sink.emitted + 1)
  <2>2. /\ r \in Rec /\ Tells(sink, sink', r)
        /\ sink'.failed = sink.failed =>
             /\ want_log(conf) => sink'.open
             /\ sink.open \/ sink'.open =>
                  /\ sink'.emitted = sink.emitted + 1
                  /\ Joined(sink'.buffer, sink.buffer, r)
             /\ ~sink.open /\ ~sink'.open => sink' = sink
    BY <1>1, <2>1, AnnouncedEffect, Zenon DEF Joined
  <2>3. sink.emitted + 1 \in Nat
    BY <1>1, SinkFields
  <2>4. /\ r.daemon = daemon /\ r.seq = sink.emitted + 1 /\ r.kind = "config"
        /\ r.log_enabled = want_log(conf) /\ r.rest = conf.rest
    BY <1>1, <2>3, RecordFields
  <2> HIDE DEF r
  <2> QED
    BY <2>1, <2>2, <2>4, Zenon DEF NextRecord
<1> QED
  BY <1>2, <1>3

\* Some record is always next.
LEMMA SomeRecord ==
    ASSUME SinkInv
    PROVE  \E r : NextRecord(r, "config")
<1> DEFINE c == [log_enabled |-> FALSE, rest |-> 1]
           r == Record("config", c, sink.emitted + 1)
<1>1. c \in Conf
  BY DEF Conf
<1>2. sink.emitted + 1 \in Nat /\ daemon \in Nat /\ no_log_cli \in BOOLEAN
  BY SinkFields DEF SinkInv, TypeInv
<1> HIDE DEF c
<1>3. r \in Rec /\ r.daemon = daemon /\ r.seq = sink.emitted + 1 /\ r.kind = "config"
  BY <1>1, <1>2, RecordFields
<1> HIDE DEF r
<1> QED
  BY <1>3, Zenon DEF NextRecord

LEMMA FlushedEffect ==
    ASSUME SinkInv, NEW t \in flush(sink)
    PROVE  \E r : /\ NextRecord(r, "config") /\ Tells(sink, t, r)
                  /\ t.emitted = sink.emitted /\ t.open = sink.open
                  /\ t.failed = sink.failed => t.buffer = <<>>
<1>1. PICK r : NextRecord(r, "config")
  BY SomeRecord
<1>2. sink \in Sinks(Rec) /\ r \in Rec
  BY <1>1 DEF NextRecord, SinkInv, TypeInv
<1>3. Tells(sink, sink, r)
  BY <1>2, TellsSelf
<1>4. /\ Tells(sink, t, r) /\ t.emitted = sink.emitted /\ t.open = sink.open
      /\ t.failed = sink.failed => t.buffer = <<>>
  BY <1>2, <1>3, TellsThenFlush
<1> QED
  BY <1>1, <1>4

\* The steps that flush, and the announcement's last, which may close the log.
LEMMA SettledEffect ==
    ASSUME SinkInv, StartupFlushed \/ ReloadSettled \/ EndBatch
    PROVE  \E r : /\ NextRecord(r, "config") /\ Tells(sink, sink', r)
                  /\ sink'.emitted = sink.emitted
                  /\ sink'.failed = sink.failed => sink'.buffer = <<>>
                  /\ IF phase = "announcing" /\ ~want_log(config) THEN ~sink'.open
                     ELSE sink'.open = sink.open
<1>1. CASE sink' \in flush(sink) /\ (phase # "announcing" \/ want_log(config))
  BY <1>1, FlushedEffect, Zenon
<1>2. CASE sink' \in set_log_enabled(sink, FALSE) /\ phase = "announcing" /\ ~want_log(config)
  <2>1. PICK r : NextRecord(r, "config")
    BY SomeRecord
  <2>2. sink \in Sinks(Rec) /\ r \in Rec
    BY <2>1 DEF NextRecord, SinkInv, TypeInv
  <2>3. /\ sink' \in Sinks(Rec) /\ Counted(sink, sink') /\ ~sink'.open /\ sink'.buffer = <<>>
        /\ sink'.emitted = sink.emitted
        /\ Part(Story(sink'), Story(sink), sink'.failed = sink.failed)
        /\ sink'.failed = sink.failed => Story(sink') = Story(sink)
        /\ \A m : Sized(sink, m) => Sized(sink', m)
    BY <1>2, <2>2, SwitchOffEffect
  <2>4. Tells(sink, sink, r)
    BY <2>2, TellsSelf
  <2>5. Tells(sink, sink', r)
    BY <2>2, <2>3, <2>4, TellsThenNothing
  <2> QED
    BY <1>2, <2>1, <2>3, <2>5, Zenon
<1> QED
  BY <1>1, <1>2 DEF StartupFlushed, ReloadSettled, Settled, EndBatch

\* An exit other than by SIGKILL flushes the log, and lets go of it.
LEMMA ExitEffect ==
    ASSUME SinkInv, fatal \/ Shutdown
    PROVE  \E r : /\ NextRecord(r, "config") /\ Tells(sink, sink', r)
                  /\ ~sink'.open /\ sink'.buffer = <<>> /\ sink'.emitted = sink.emitted
<1>1. PICK u \in flush(sink) : sink' = Released(u)
  BY DEF fatal, Shutdown
<1>2. PICK r : /\ NextRecord(r, "config") /\ Tells(sink, u, r)
               /\ u.emitted = sink.emitted
               /\ u.failed = sink.failed => u.buffer = <<>>
  BY FlushedEffect
<1>3. r \in Rec /\ sink \in Sinks(Rec)
  BY <1>2 DEF NextRecord, SinkInv, TypeInv
<1>4. /\ Tells(sink, sink', r) /\ sink'.emitted = u.emitted
      /\ ~sink'.open /\ sink'.buffer = <<>>
  BY <1>1, <1>2, <1>3, TellsThenReleased
<1> QED
  BY <1>2, <1>4, Zenon

-----------------------------------------------------------------------------
(* Types and sizes.                                                        *)

LEMMA ToldSink ==
    ASSUME SinkInv, NEW t, NEW r, Tells(sink, t, r)
    PROVE  t \in Sinks(Rec) /\ Sized(t, meddled)
BY DEF SinkInv, Tells

LEMMA SwitchedSink ==
    ASSUME SinkInv, NEW t, Switches(sink, t)
    PROVE  t \in Sinks(Rec) /\ Sized(t, meddled)
BY DEF SinkInv, Switches

LEMMA SinkInit == Init => SinkInv
<1> SUFFICES ASSUME Init PROVE SinkInv
  OBVIOUS
<1>1. <<>> \in Seq(Rec) /\ Len(<<>>) = 0
  BY EmptySeq
<1>2. sink = NoFiles /\ NoFiles \in SinkRecord(Rec)
  BY <1>1 DEF Init, NoFiles, SinkRecord
<1>3. /\ sink.log = <<>> /\ sink.buffer = <<>> /\ sink.open = FALSE
      /\ sink.stuck = 0
  BY <1>2 DEF NoFiles
<1>4. BufferCap \in Nat /\ 0 <= BufferCap
  BY TelemetryAssumption
<1>5. sink \in Sinks(Rec)
  BY <1>1, <1>2, <1>3, <1>4, Zenon DEF Sinks
<1>6. Sized(sink, meddled)
  <2>1. Size(sink) = 0
    <3>1. Size(sink) = 0 + 0
      BY <1>1, <1>3, Zenon DEF Size
    <3> QED
      BY <3>1
  <2>2. Size(sink) < Room(sink)
    <3>1. Room(sink) \in Nat /\ Room(sink) >= Cap /\ Cap >= 2 /\ Cap \in Nat
      BY <1>3, RoomFacts
    <3> QED
      BY <2>1, <3>1
  <2> QED
    BY <1>3, <2>2, Zenon DEF Sized
<1>7. TypeInv /\ HeldInv
  BY <1>3, <1>5 DEF Init, TypeInv, HeldInv
<1> QED
  BY <1>6, <1>7 DEF SinkInv

\* An edited log owes nothing to the threshold until a daemon opens it.
LEMMA EditLogEffect ==
    ASSUME SinkInv, EditLog
    PROVE  /\ sink' \in Sinks(Rec) /\ Sized(sink', TRUE)
           /\ sink'.open = sink.open /\ sink'.buffer = sink.buffer
           /\ sink'.emitted = sink.emitted /\ sink'.old = sink.old
           /\ sink'.log = <<>> \/ sink'.log = sink.log \o [i \in 1..Cap |-> Foreign]
<1>1. sink \in SinkRecord(Rec) /\ sink \in Sinks(Rec) /\ ~sink.open
  BY DEF SinkInv, TypeInv, Sinks, EditLog
<1>2. PICK log \in {<<>>, sink.log \o [i \in 1..Cap |-> Foreign]} :
          sink' = [sink EXCEPT !.log = log]
  BY DEF EditLog
<1>3. log \in Seq(Rec)
  <2>1. Cap \in Nat
    BY TelemetryAssumption
  <2>2. Foreign \in Rec
    BY DEF Foreign, Rec
  <2>3. [i \in 1..Cap |-> Foreign] \in Seq(Rec)
    BY <2>1, <2>2, IsASeq
  <2>4. sink.log \in Seq(Rec)
    BY <1>1, SinkFields
  <2>5. sink.log \o [i \in 1..Cap |-> Foreign] \in Seq(Rec)
    BY <2>3, <2>4, InSeq
  <2> QED
    BY <1>2, <2>5, EmptySeq
<1>4. /\ sink'.open = sink.open /\ sink'.buffer = sink.buffer /\ sink'.emitted = sink.emitted
      /\ sink'.old = sink.old /\ sink'.log = log
  BY <1>1, <1>2 DEF SinkRecord
<1>5. sink' \in SinkRecord(Rec)
  BY <1>1, <1>2, <1>3 DEF SinkRecord
<1>6. sink' \in Sinks(Rec)
  BY <1>1, <1>4, <1>5, Zenon DEF Sinks
<1>7. Sized(sink', TRUE)
  BY <1>1, <1>4, Zenon DEF Sized
<1> QED
  BY <1>2, <1>4, <1>6, <1>7

\* A daemon that ends before it has a sink leaves the files alone.
LEMMA fatal_exitEffect ==
    ASSUME SinkInv, fatal_exit
    PROVE  /\ sink' \in Sinks(Rec) /\ Sized(sink', meddled) /\ ~sink'.open
           /\ sink'.emitted = 0 /\ sink'.buffer = <<>> /\ sink'.failed = sink.failed
           /\ Story(sink') = Story(sink)
<1>1. sink \in SinkRecord(Rec) /\ sink \in Sinks(Rec) /\ ~sink.open /\ sink.buffer = <<>>
  BY SinkOpen DEF SinkInv, TypeInv, HeldInv, Sinks, fatal_exit, NewDaemon
<1>2. sink' = [sink EXCEPT !.emitted = 0]
  BY DEF fatal_exit
<1>3. /\ sink'.open = sink.open /\ sink'.buffer = sink.buffer /\ sink'.log = sink.log
      /\ sink'.old = sink.old /\ sink'.failed = sink.failed /\ sink'.stuck = sink.stuck
      /\ sink'.emitted = 0
  BY <1>1, <1>2 DEF SinkRecord
<1>4. sink' \in SinkRecord(Rec)
  BY <1>1, <1>2 DEF SinkRecord
<1>5. sink' \in Sinks(Rec) /\ Story(sink') = Story(sink) /\ Size(sink') = Size(sink)
  BY <1>1, <1>3, <1>4, Zenon DEF Sinks, Story, Size
<1>6. \A m : Sized(sink, m) => Sized(sink', m)
  <2>1. Size(sink') <= Size(sink) /\ sink'.stuck = sink.stuck /\ ~sink'.open
    BY <1>1, <1>3, <1>5, SinkFields
  <2> QED
    BY <1>1, <1>5, <2>1, SizedKept
<1>7. Sized(sink', meddled)
  BY <1>6 DEF SinkInv
<1> QED
  BY <1>1, <1>3, <1>5, <1>7, Zenon

LEMMA SinkStep == SinkInv /\ [Next]_vars => SinkInv'
<1> SUFFICES ASSUME SinkInv, [Next]_vars PROVE SinkInv'
  OBVIOUS
<1>0. TypeInv /\ HeldInv /\ Sized(sink, meddled) /\ sink \in Sinks(Rec)
  BY DEF SinkInv, TypeInv
<1>1. CASE Start
  <2>1. ~sink.open /\ (conf.log_enabled /\ ~no_log_cli') \in BOOLEAN
    BY <1>0, <1>1 DEF HeldInv, Start, NewDaemon
  <2>2. sink' \in with_stdout(sink, conf.log_enabled /\ ~no_log_cli')
    BY <1>1 DEF Start
  <2>3. Switches(sink, sink') /\ sink'.buffer = <<>> /\ sink'.emitted = 0
    BY <1>0, <2>1, <2>2, StartEffect
  <2>4. sink' \in Sinks(Rec) /\ Sized(sink', meddled) /\ meddled' = meddled
    BY <1>1, <2>3, SwitchedSink DEF Start, files
  <2>5. daemon' \in Nat /\ daemon' # 0
    BY <1>0, <1>1 DEF TypeInv, Start, NewDaemon
  <2>6. TypeInv'
    BY <1>0, <1>1, <2>4, <2>5, Zenon DEF TypeInv, Start, NewDaemon, files
  <2>7. HeldInv'
    BY <1>0, <1>1, <2>3 DEF TypeInv, HeldInv, Start, NewDaemon, files
  <2> QED
    BY <2>4, <2>6, <2>7, Zenon DEF SinkInv
<1>2. CASE fatal_exit
  <2>1. /\ sink' \in Sinks(Rec) /\ Sized(sink', meddled) /\ meddled' = meddled
        /\ ~sink'.open /\ sink'.buffer = <<>>
    BY <1>2, fatal_exitEffect DEF fatal_exit, files
  <2>2. daemon' \in Nat
    BY <1>0, <1>2 DEF TypeInv, fatal_exit, NewDaemon
  <2>3. TypeInv'
    BY <1>0, <1>2, <2>1, <2>2, Zenon DEF TypeInv, fatal_exit, NewDaemon, files
  <2>4. HeldInv'
    BY <1>0, <1>2, <2>1 DEF TypeInv, HeldInv, fatal_exit, NewDaemon, files
  <2> QED
    BY <2>1, <2>3, <2>4, Zenon DEF SinkInv
<1>3. CASE FirstReload
  <2>1. /\ want_log(conf) \in BOOLEAN /\ sink.buffer = <<>>
        /\ sink' \in IF want_log(conf) THEN Then(set_log_enabled(sink, TRUE), flush)
                     ELSE set_log_enabled(sink, FALSE)
    BY <1>0, <1>3 DEF TypeInv, HeldInv, FirstReload, want_log, Conf
  <2>2. Switches(sink, sink') /\ sink'.buffer = <<>> /\ sink'.emitted = sink.emitted
    BY <1>0, <2>1, FirstReloadEffect
  <2>3. sink' \in Sinks(Rec) /\ Sized(sink', meddled) /\ meddled' = meddled
    BY <1>3, <2>2, SwitchedSink DEF FirstReload, files
  <2>4. sink'.open \in BOOLEAN
    BY <2>3, SinkOpen
  <2>5. TypeInv' /\ HeldInv'
    BY <1>0, <1>3, <2>2, <2>3, <2>4, HeldRecord DEF TypeInv, HeldInv, FirstReload, files
  <2> QED
    BY <2>3, <2>5, Zenon DEF SinkInv
<1>4. CASE LogcatSpawned
  <2>1. UNCHANGED <<conf, config, no_log_cli, daemon, owed, killed, files>> /\ phase = "loaded"
    BY <1>4 DEF LogcatSpawned
  <2>2. CASE phase' = "ready" /\ UNCHANGED <<sink, startup_record>>
    BY <1>0, <2>1, <2>2 DEF SinkInv, TypeInv, HeldInv, files
  <2>3. CASE phase' = "failing" /\ emit_startup_record
    <3>1. sink' \in Sinks(Rec) /\ Sized(sink', meddled)
      BY <2>1, <2>3, StartupEffect, ToldSink
    <3>2. TypeInv' /\ HeldInv'
      BY <1>0, <2>1, <2>3, <3>1 DEF TypeInv, HeldInv, emit_startup_record, files
    <3> QED
      BY <2>1, <3>1, <3>2, Zenon DEF SinkInv, files
  <2> QED
    BY <1>4, <2>2, <2>3 DEF LogcatSpawned
<1>5. CASE run
  <2>1. phase = "ready" /\ emit_startup_record
    BY <1>5 DEF run
  <2>2. sink' \in Sinks(Rec) /\ Sized(sink', meddled) /\ meddled' = meddled
    BY <1>5, <2>1, StartupEffect, ToldSink DEF run, files
  <2>3. TypeInv' /\ HeldInv'
    BY <1>0, <1>5, <2>2 DEF TypeInv, HeldInv, run, emit_startup_record, files
  <2> QED
    BY <2>2, <2>3, Zenon DEF SinkInv
<1>6. CASE Event
  <2>1. sink' \in Sinks(Rec) /\ Sized(sink', meddled) /\ meddled' = meddled
    BY <1>6, EventEffect, ToldSink DEF Event, files
  <2>2. TypeInv' /\ HeldInv'
    BY <1>0, <1>6, <2>1 DEF TypeInv, HeldInv, Event, files
  <2> QED
    BY <2>1, <2>2, Zenon DEF SinkInv
<1>7. CASE reload_configs
  <2>1. sink' \in Sinks(Rec) /\ Sized(sink', meddled) /\ meddled' = meddled
    BY <1>0, <1>7, ReloadEffect, ToldSink DEF reload_configs, files
  <2>2. TypeInv' /\ HeldInv'
    BY <1>0, <1>7, <2>1 DEF TypeInv, HeldInv, reload_configs, files
  <2> QED
    BY <2>1, <2>2, Zenon DEF SinkInv
<1>8. CASE StartupFlushed \/ ReloadSettled \/ EndBatch
  <2>1. UNCHANGED <<conf, config, no_log_cli, startup_record, ghosts, files>>
    BY <1>8 DEF StartupFlushed, ReloadSettled, EndBatch
  <2>2. sink' \in Sinks(Rec) /\ Sized(sink', meddled) /\ meddled' = meddled
    BY <1>8, <2>1, SettledEffect, ToldSink DEF files
  <2>3. /\ phase \in {"starting", "failing", "announcing", "batch"}
        /\ phase' \in {"idle", "exiting", "batch"}
    BY <1>8 DEF StartupFlushed, ReloadSettled, EndBatch
  <2>4. TypeInv' /\ HeldInv'
    BY <1>0, <2>1, <2>2, <2>3 DEF TypeInv, HeldInv, files, ghosts
  <2> QED
    BY <2>2, <2>4, Zenon DEF SinkInv
<1>9. CASE ReactorFails
  BY <1>0, <1>9 DEF SinkInv, TypeInv, HeldInv, ReactorFails, files, ghosts
<1>10. CASE fatal \/ Shutdown
  <2>1. /\ UNCHANGED <<conf, config, no_log_cli, startup_record, ghosts, files>>
        /\ phase \in {"exiting", "idle"} /\ phase' = "down"
    BY <1>10 DEF fatal, Shutdown
  <2>2. /\ sink' \in Sinks(Rec) /\ Sized(sink', meddled) /\ meddled' = meddled
        /\ ~sink'.open /\ sink'.buffer = <<>>
    BY <1>10, <2>1, ExitEffect, ToldSink DEF files
  <2>3. TypeInv' /\ HeldInv'
    BY <1>0, <2>1, <2>2 DEF TypeInv, HeldInv, files, ghosts
  <2> QED
    BY <2>2, <2>3, Zenon DEF SinkInv
<1>11. CASE Sigkill
  <2>1. /\ sink' \in Sinks(Rec) /\ ~sink'.open /\ sink'.buffer = <<>>
        /\ \A m : Sized(sink, m) => Sized(sink', m)
    BY <1>0, <1>11, ReleasedEffect DEF Sigkill
  <2>2. meddled' = meddled
    BY <1>11 DEF Sigkill, files
  <2>3. TypeInv' /\ HeldInv'
    BY <1>0, <1>11, <2>1 DEF TypeInv, HeldInv, Sigkill, files
  <2> QED
    BY <1>0, <2>1, <2>2, <2>3, Zenon DEF SinkInv
<1>12. CASE EditConf
  BY <1>0, <1>12 DEF SinkInv, TypeInv, HeldInv, EditConf, Edit, ghosts
<1>13. CASE EditLog
  <2>1. /\ sink' \in Sinks(Rec) /\ Sized(sink', TRUE) /\ meddled' = TRUE
        /\ sink'.open = sink.open /\ sink'.buffer = sink.buffer
        /\ sink'.emitted = sink.emitted
    BY <1>13, EditLogEffect DEF EditLog
  <2>2. TypeInv' /\ HeldInv'
    BY <1>0, <1>13, <2>1 DEF TypeInv, HeldInv, EditLog, Edit, ghosts
  <2> QED
    BY <2>1, <2>2, Zenon DEF SinkInv
<1>14. CASE UNCHANGED vars
  BY <1>0, <1>14 DEF SinkInv, TypeInv, HeldInv, vars, ghosts, files
<1> QED
  BY <1>1, <1>2, <1>3, <1>4, <1>5, <1>6, <1>7, <1>8, <1>9, <1>10, <1>11, <1>12, <1>13, <1>14
  DEF Next, Daemon, Operator

LEMMA SinkAlways == Spec => []SinkInv
BY SinkInit, SinkStep, PTL DEF Spec

\* The type invariant: the buffer is bounded and exists only behind an open
\* log, and the startup record is held exactly from the first reload to run().
THEOREM LifecycleTypeCorrect == Spec => []TypeOK
<1>1. SinkInv => TypeOK
  <2> SUFFICES ASSUME SinkInv PROVE TypeOK
    OBVIOUS
  <2>1. TypeInv /\ HeldInv /\ sink \in Sinks(Rec)
    BY DEF SinkInv, TypeInv
  <2>2. Len(sink.buffer) <= BufferCap /\ (sink.buffer # <<>> => sink.open)
    BY <2>1 DEF Sinks
  <2> QED
    BY <2>1, <2>2 DEF TypeOK, TypeInv, HeldInv
<1> QED
  BY <1>1, SinkAlways, PTL

\* Rotation keeps an open log below its threshold, or below one more for
\* every rename that failed, whatever the threshold and however many daemons
\* died on the file (telemetry.rs:190-251).
THEOREM CapHeldCorrect == Spec => []CapHeld
<1>1. SinkInv => CapHeld
  <2> SUFFICES ASSUME SinkInv, sink.open
               PROVE  LET size == Len(sink.log) + Len(sink.buffer)
                      IN  /\ sink.stuck = 0 => size < Cap
                          /\ ~meddled => size < Cap * (sink.stuck + 1)
    BY DEF CapHeld
  <2>1. sink \in Sinks(Rec) /\ Sized(sink, meddled)
    BY DEF SinkInv, TypeInv
  <2>2. sink.stuck = 0 => Size(sink) < Cap
    BY <2>1, Zenon DEF Sized
  <2>3. ~meddled => Size(sink) < Room(sink)
    BY <2>1, Zenon DEF Sized
  <2>4. Room(sink) = Cap * (sink.stuck + 1)
    <3>1. sink.stuck \in Nat /\ Cap \in Nat
      BY <2>1, SinkFields, TelemetryAssumption
    <3> QED
      BY <3>1 DEF Room
  <2> QED
    BY <2>2, <2>3, <2>4, Zenon DEF Size
<1> QED
  BY <1>1, SinkAlways, PTL

-----------------------------------------------------------------------------
(* The story: what parts and one more record leave in order.               *)

\* What is left of an ordered story is ordered, and known.
LEMMA OrderedPart ==
    ASSUME NEW a \in Seq(Rec), NEW b \in Seq(Rec), NEW w, Part(a, b, w), NEW d \in Nat, NEW n
    PROVE  /\ Ordered(b) => Ordered(a)
           /\ Known(b, d, n) => Known(a, d, n)
<1>1. PICK f \in [1..Len(a) -> 1..Len(b)] :
          /\ \A i, j \in 1..Len(a) : i < j => f[i] < f[j]
          /\ \A i \in 1..Len(a) : a[i] = b[f[i]]
  BY DEF Part
<1>2. \A i \in 1..Len(a) : f[i] \in 1..Len(b)
  BY <1>1
<1>3. ASSUME Ordered(b) PROVE Ordered(a)
  <2> SUFFICES ASSUME NEW i \in 1..Len(a), NEW j \in 1..Len(a),
                      i < j, a[i].daemon # 0, a[j].daemon # 0
               PROVE  Follows(a[i], a[j])
    BY DEF Ordered
  <2>1. a[i] = b[f[i]] /\ a[j] = b[f[j]] /\ f[i] < f[j]
    BY <1>1
  <2>2. Follows(b[f[i]], b[f[j]])
    BY <1>2, <1>3, <2>1, Zenon DEF Ordered
  <2> QED
    BY <2>1, <2>2, Zenon
<1>4. ASSUME Known(b, d, n) PROVE Known(a, d, n)
  <2> SUFFICES ASSUME NEW i \in 1..Len(a)
               PROVE  /\ a[i].daemon <= d
                      /\ a[i].daemon = d /\ d # 0 => 1 <= a[i].seq /\ a[i].seq <= n
    BY DEF Known
  <2>1. a[i] = b[f[i]] /\ f[i] \in 1..Len(b)
    BY <1>1, <1>2
  <2> QED
    BY <1>4, <2>1, Zenon DEF Known
<1> QED
  BY <1>3, <1>4

\* What is left of a story that lost only its beginning has no gap.
LEMMA ChainedPart ==
    ASSUME NEW a \in Seq(Rec), NEW b \in Seq(Rec), Part(a, b, TRUE), Chained(b)
    PROVE  Chained(a)
<1> DEFINE l == Len(a)
           m == Len(b)
<1>1. PICK f \in [1..l -> 1..m] :
          /\ \A i \in 1..l : a[i] = b[f[i]]
          /\ l <= m /\ \A i \in 1..l : f[i] = i + (m - l)
  BY DEF Part
<1>2. l \in Nat /\ m \in Nat
  BY LenProperties
<1> HIDE DEF l, m
<1>3. ASSUME NEW i \in 1..(l - 1)
      PROVE  NextTo(a[i], a[i + 1])
  <2>1. i \in 1..l /\ i + 1 \in 1..l
    BY <1>2
  <2>2. f[i] = i + (m - l) /\ f[i + 1] = (i + 1) + (m - l)
    BY <1>1, <2>1
  <2>3. f[i + 1] = f[i] + 1 /\ f[i] \in 1..(m - 1)
    BY <1>1, <1>2, <2>1, <2>2
  <2>4. a[i] = b[f[i]] /\ a[i + 1] = b[f[i] + 1]
    BY <1>1, <2>1, <2>3
  <2>5. NextTo(b[f[i]], b[f[i] + 1])
    BY <2>3, Zenon DEF Chained, m
  <2> QED
    BY <2>4, <2>5, Zenon
<1> QED
  BY <1>3, Zenon DEF Chained, l

LEMMA ChainedFront ==
    ASSUME NEW a \in Seq(Rec), NEW b \in Seq(Rec), Chained(a \o b)
    PROVE  Chained(a)
<1> DEFINE l == Len(a)
           q == a \o b
<1>1. l \in Nat /\ Len(b) \in Nat /\ Len(q) = l + Len(b)
  BY LenProperties, ConcatProperties
<1>2. \A i \in 1..(Len(a) + Len(b)) : q[i] = IF i <= Len(a) THEN a[i] ELSE b[i - Len(a)]
  BY ConcatProperties
<1> HIDE DEF l, q
<1>3. ASSUME NEW i \in 1..(l - 1) PROVE NextTo(a[i], a[i + 1])
  <2>1. i \in 1..(l + Len(b)) /\ i + 1 \in 1..(l + Len(b)) /\ i <= l /\ i + 1 <= l
        /\ i \in 1..(Len(q) - 1)
    BY <1>1
  <2>2. q[i] = a[i] /\ q[i + 1] = a[i + 1]
    BY <1>2, <2>1 DEF l
  <2>3. NextTo(q[i], q[i + 1])
    BY <2>1, Zenon DEF Chained, q
  <2> QED
    BY <2>2, <2>3, Zenon
<1> QED
  BY <1>3, Zenon DEF Chained, l

\* The record that is next continues the story.
LEMMA OrderedAppend ==
    ASSUME NEW q \in Seq(Rec), NEW r \in Rec, NEW d \in Nat \ {0}, NEW n \in Nat,
           Ordered(q), Known(q, d, n), r.daemon = d, r.seq = n + 1
    PROVE  Ordered(Append(q, r)) /\ Known(Append(q, r), d, n + 1)
<1> DEFINE l == Len(q)
           p == Append(q, r)
<1>1. l \in Nat /\ Len(p) = l + 1 /\ (\A i \in 1..l : p[i] = q[i]) /\ p[l + 1] = r
  BY LenProperties, AppendProperties
<1>2. \A i \in 1..l : /\ q[i].daemon <= d
                      /\ q[i].daemon = d /\ d # 0 => 1 <= q[i].seq /\ q[i].seq <= n
  BY Zenon DEF Known, l
<1>3. \A i \in 1..l : q[i].daemon \in Nat /\ q[i].seq \in Nat
  <2>1. \A i \in 1..l : q[i] \in Rec
    BY ElementOfSeq DEF l
  <2> QED
    BY <2>1 DEF Rec
<1>4. \A i, j \in 1..l : i < j /\ q[i].daemon # 0 /\ q[j].daemon # 0 => Follows(q[i], q[j])
  BY Zenon DEF Ordered, l
<1> HIDE DEF l, p
<1>5. ASSUME NEW i \in 1..Len(p), NEW j \in 1..Len(p), i < j,
             p[i].daemon # 0, p[j].daemon # 0
      PROVE  Follows(p[i], p[j])
  <2>1. i \in 1..l /\ (j \in 1..l \/ j = l + 1)
    BY <1>1, <1>5
  <2>2. CASE j \in 1..l
    <3>1. p[i] = q[i] /\ p[j] = q[j]
      BY <1>1, <2>1, <2>2
    <3> QED
      BY <1>4, <1>5, <2>1, <2>2, <3>1, Zenon
  <2>3. CASE j = l + 1
    <3>1. p[i] = q[i] /\ p[j] = r
      BY <1>1, <2>1, <2>3
    <3>2. q[i].daemon < d \/ (q[i].daemon = d /\ q[i].seq < n + 1)
      BY <1>2, <1>3, <2>1
    <3> QED
      BY <3>1, <3>2, Zenon DEF Follows
  <2> QED
    BY <2>1, <2>2, <2>3
<1>6. ASSUME NEW i \in 1..Len(p)
      PROVE  /\ p[i].daemon <= d
             /\ p[i].daemon = d /\ d # 0 => 1 <= p[i].seq /\ p[i].seq <= n + 1
  <2>1. i \in 1..l \/ i = l + 1
    BY <1>1
  <2>2. CASE i \in 1..l
    BY <1>1, <1>2, <1>3, <2>2, SMTT(30)
  <2>3. CASE i = l + 1
    <3>1. p[i].daemon = d /\ p[i].seq = n + 1
      BY <1>1, <2>3, Zenon
    <3>2. d <= d /\ 1 <= n + 1 /\ n + 1 <= n + 1
      OBVIOUS
    <3> QED
      BY <3>1, <3>2, Zenon
  <2> QED
    BY <2>1, <2>2, <2>3
<1>7. Ordered(p) /\ Known(p, d, n + 1)
  BY <1>5, <1>6, Zenon DEF Ordered, Known
<1> QED
  BY <1>7 DEF p

LEMMA ChainedAppend ==
    ASSUME NEW q \in Seq(Rec), NEW r \in Rec, NEW d \in Nat \ {0}, NEW n \in Nat,
           Chained(q), Known(q, d, n), n > 0 => Ends(q, d, n), r.daemon = d, r.seq = n + 1
    PROVE  Chained(Append(q, r))
<1> DEFINE l == Len(q)
           p == Append(q, r)
<1>1. l \in Nat /\ Len(p) = l + 1 /\ (\A i \in 1..l : p[i] = q[i]) /\ p[l + 1] = r
  BY LenProperties, AppendProperties
<1>2. \A i \in 1..l : q[i].daemon = d => 1 <= q[i].seq /\ q[i].seq <= n
  BY Zenon DEF Known, l
<1>3. \A i \in 1..l : q[i].daemon \in Nat /\ q[i].seq \in Nat
  <2>1. \A i \in 1..l : q[i] \in Rec
    BY ElementOfSeq DEF l
  <2> QED
    BY <2>1 DEF Rec
<1>4. n > 0 => q[l].daemon = d /\ q[l].seq = n
  BY Zenon DEF Ends, l
<1>5. \A i \in 1..(l - 1) : NextTo(q[i], q[i + 1])
  BY Zenon DEF Chained, l
<1> HIDE DEF l, p
<1>6. ASSUME NEW i \in 1..(Len(p) - 1) PROVE NextTo(p[i], p[i + 1])
  <2>1. i \in 1..l /\ (i \in 1..(l - 1) \/ i = l)
    BY <1>1
  <2>2. CASE i \in 1..(l - 1)
    <3>1. i \in 1..l /\ i + 1 \in 1..l
      BY <1>1, <2>2
    <3>2. p[i] = q[i] /\ p[i + 1] = q[i + 1]
      BY <1>1, <3>1, Zenon
    <3> QED
      BY <1>5, <2>2, <3>2, Zenon
  <2>3. CASE i = l
    <3>1. p[i] = q[l] /\ p[i + 1] = r
      BY <1>1, <2>1, <2>3
    <3>2. IF q[l].daemon = d THEN n + 1 = q[l].seq + 1 ELSE n = 0
      BY <1>2, <1>3, <1>4, <2>1, <2>3
    <3>3. NextTo(q[l], r)
      <4>1. CASE q[l].daemon = d
        BY <3>2, <4>1, Zenon DEF NextTo
      <4>2. CASE q[l].daemon # d
        <5>1. r.seq = 1
          BY <3>2, <4>2
        <5> QED
          BY <4>2, <5>1, Zenon DEF NextTo
      <4> QED
        BY <4>1, <4>2
    <3> QED
      BY <3>1, <3>3, Zenon
  <2> QED
    BY <2>1, <2>2, <2>3
<1> QED
  BY <1>6, Zenon DEF Chained, p

LEMMA EndsAppend ==
    ASSUME NEW q \in Seq(Rec), NEW r \in Rec
    PROVE  Ends(Append(q, r), r.daemon, r.seq)
<1> DEFINE p == Append(q, r)
           l == Len(q)
<1>1. l \in Nat /\ Len(p) = l + 1 /\ p[l + 1] = r
  BY LenProperties, AppendProperties
<1> HIDE DEF p, l
<1>2. Len(p) > 0 /\ p[Len(p)] = r
  BY <1>1
<1> QED
  BY <1>2, Zenon DEF Ends, p

LEMMA KnownNext ==
    ASSUME NEW q \in Seq(Rec), NEW d \in Nat, NEW n, Known(q, d, n)
    PROVE  Known(q, d + 1, 0)
<1> SUFFICES ASSUME NEW i \in 1..Len(q)
             PROVE  /\ q[i].daemon <= d + 1
                    /\ q[i].daemon = d + 1 /\ d + 1 # 0 => 1 <= q[i].seq /\ q[i].seq <= 0
  BY DEF Known
<1>1. q[i] \in Rec
  BY ElementOfSeq
<1>2. q[i].daemon \in Nat
  BY <1>1 DEF Rec
<1>3. q[i].daemon <= d
  BY Zenon DEF Known
<1> QED
  BY <1>2, <1>3

\* What others append is nobody's record.
LEMMA OrderedForeign ==
    ASSUME NEW q \in Seq(Rec), NEW k \in Nat, NEW d \in Nat, NEW n, Ordered(q), Known(q, d, n)
    PROVE  /\ Ordered(q \o [i \in 1..k |-> Foreign])
           /\ Known(q \o [i \in 1..k |-> Foreign], d, n)
<1> DEFINE f == [i \in 1..k |-> Foreign]
           p == q \o f
           l == Len(q)
<1>1. Foreign \in Rec /\ Foreign.daemon = 0
  BY DEF Foreign, Rec
<1>2. f \in Seq(Rec) /\ Len(f) = k /\ \A i \in 1..k : f[i] = Foreign
  BY <1>1, IsASeq, LenProperties
<1> HIDE DEF f
<1>3. /\ l \in Nat /\ Len(p) = l + k
      /\ \A i \in 1..(l + k) : p[i] = IF i <= l THEN q[i] ELSE f[i - l]
  BY <1>2, LenProperties, ConcatProperties
<1>4. \A i \in 1..l : /\ q[i].daemon <= d
                      /\ q[i].daemon = d /\ d # 0 => 1 <= q[i].seq /\ q[i].seq <= n
  BY Zenon DEF Known, l
<1>5. \A i, j \in 1..l : i < j /\ q[i].daemon # 0 /\ q[j].daemon # 0 => Follows(q[i], q[j])
  BY Zenon DEF Ordered, l
<1> HIDE DEF l, p
<1>6. ASSUME NEW i \in 1..Len(p)
      PROVE  (i \in 1..l /\ p[i] = q[i]) \/ p[i] = Foreign
  <2>1. CASE i <= l
    BY <1>3, <2>1
  <2>2. CASE ~(i <= l)
    <3>1. i - l \in 1..k /\ i \in 1..(l + k)
      BY <1>3, <2>2
    <3>2. p[i] = f[i - l]
      BY <1>3, <2>2, <3>1
    <3> QED
      BY <1>2, <3>1, <3>2
  <2> QED
    BY <2>1, <2>2
<1>7. Ordered(p)
  <2> SUFFICES ASSUME NEW i \in 1..Len(p), NEW j \in 1..Len(p), i < j,
                      p[i].daemon # 0, p[j].daemon # 0
               PROVE  Follows(p[i], p[j])
    BY DEF Ordered
  <2>1. /\ i \in 1..l /\ p[i] = q[i]
        /\ j \in 1..l /\ p[j] = q[j]
    BY <1>1, <1>6, Zenon
  <2> QED
    BY <1>5, <2>1, Zenon
<1>8. Known(p, d, n)
  <2> SUFFICES ASSUME NEW i \in 1..Len(p)
               PROVE  /\ p[i].daemon <= d
                      /\ p[i].daemon = d /\ d # 0 => 1 <= p[i].seq /\ p[i].seq <= n
    BY DEF Known
  <2>1. CASE i \in 1..l /\ p[i] = q[i]
    BY <1>4, <2>1, Zenon
  <2>2. CASE p[i] = Foreign
    <3>1. p[i].daemon = 0
      BY <1>1, <2>2, Zenon
    <3> QED
      BY <3>1
  <2> QED
    BY <1>6, <2>1, <2>2
<1> QED
  BY <1>7, <1>8 DEF p, f

\* A call that failed stays counted.
LEMMA UndisturbedBefore ==
    ASSUME SinkInv, Counted(sink, sink'), meddled' = meddled \/ meddled' = TRUE, Undisturbed'
    PROVE  Undisturbed /\ sink'.failed = sink.failed
<1>1. sink.failed \in Nat /\ meddled \in BOOLEAN
  BY SinkFields DEF SinkInv, TypeInv
<1>2. sink'.failed >= sink.failed /\ sink'.failed = 0 /\ ~meddled'
  BY DEF Counted, Undisturbed
<1> DEFINE m == sink.failed
           n == sink'.failed
<1>3. m \in Nat /\ n >= m /\ n = 0
  BY <1>1, <1>2
<1> HIDE DEF m, n
<1>4. m = 0 /\ n = m
  BY <1>3
<1> QED
  BY <1>2, <1>4 DEF m, n, Undisturbed

\* A step that tells one record at most continues the story.
LEMMA ToldStory ==
    ASSUME SinkInv, StoryInv, phase # "down", NEW kind, NEW r, NextRecord(r, kind),
           Tells(sink, sink', r), UNCHANGED <<daemon, killed, meddled>>
    PROVE  StoryInv'
<1> DEFINE a == Story(sink)
           b == Story(sink')
           n == sink.emitted
           k == sink'.emitted
<1>1. /\ sink \in Sinks(Rec) /\ sink' \in Sinks(Rec)
      /\ daemon \in Nat \ {0} /\ ~killed
  BY DEF SinkInv, TypeInv, HeldInv, Tells
<1>2. a \in Seq(Rec) /\ b \in Seq(Rec) /\ n \in Nat
  BY <1>1, StoryIsSeq, SinkFields
<1>3. r \in Rec /\ r.daemon = daemon /\ r.seq = n + 1
  BY DEF NextRecord
<1>4. Ordered(a) /\ Known(a, daemon, n)
  BY DEF StoryInv
<1>5. Undisturbed' =>
          sink'.failed = sink.failed /\ Chained(a) /\ (n > 0 => Ends(a, daemon, n))
  <2> SUFFICES ASSUME Undisturbed'
               PROVE  sink'.failed = sink.failed /\ Chained(a) /\ (n > 0 => Ends(a, daemon, n))
    OBVIOUS
  <2>1. Counted(sink, sink')
    BY DEF Tells
  <2>2. Undisturbed /\ sink'.failed = sink.failed
    BY <2>1, UndisturbedBefore
  <2> QED
    BY <1>1, <2>2 DEF StoryInv
<1>6. \/ k = n /\ Part(b, a, FALSE) /\ (sink'.failed = sink.failed => b = a)
      \/ /\ k = n + 1 /\ Part(b, Append(a, r), sink'.failed = sink.failed)
         /\ sink'.failed = sink.failed => \E q \in Seq(Rec) : b = Append(q, r)
  BY Zenon DEF Tells
<1> HIDE DEF a, b, n, k
<1>7. /\ Ordered(b) /\ Known(b, daemon, k)
      /\ Undisturbed' => Chained(b) /\ (k > 0 => Ends(b, daemon, k))
  <2>1. ASSUME k = n, Part(b, a, FALSE), sink'.failed = sink.failed => b = a
        PROVE  /\ Ordered(b) /\ Known(b, daemon, k)
               /\ Undisturbed' => Chained(b) /\ (k > 0 => Ends(b, daemon, k))
    <3>1. Ordered(b) /\ Known(b, daemon, k)
      BY <1>1, <1>2, <1>4, <2>1, OrderedPart
    <3> QED
      BY <1>5, <2>1, <3>1, Zenon
  <2>2. ASSUME k = n + 1, Part(b, Append(a, r), sink'.failed = sink.failed),
               sink'.failed = sink.failed => \E q \in Seq(Rec) : b = Append(q, r)
        PROVE  /\ Ordered(b) /\ Known(b, daemon, k)
               /\ Undisturbed' => Chained(b) /\ (k > 0 => Ends(b, daemon, k))
    <3>1. Ordered(Append(a, r)) /\ Known(Append(a, r), daemon, n + 1)
      BY <1>1, <1>2, <1>3, <1>4, OrderedAppend
    <3>2. Append(a, r) \in Seq(Rec)
      BY <1>2, <1>3, AppendProperties
    <3>3. Ordered(b) /\ Known(b, daemon, k)
      BY <1>1, <1>2, <2>2, <3>1, <3>2, OrderedPart, Zenon
    <3>4. ASSUME Undisturbed' PROVE Chained(b) /\ Ends(b, daemon, k)
      <4>1. Chained(Append(a, r))
        BY <1>1, <1>2, <1>3, <1>4, <1>5, <3>4, ChainedAppend
      <4>2. Part(b, Append(a, r), TRUE)
        BY <1>5, <2>2, <3>4, PartWeaker
      <4>3. Chained(b)
        BY <1>2, <3>2, <4>1, <4>2, ChainedPart
      <4>4. PICK q \in Seq(Rec) : b = Append(q, r)
        BY <1>5, <2>2, <3>4
      <4>5. Ends(Append(q, r), r.daemon, r.seq)
        BY <1>3, EndsAppend
      <4> QED
        BY <1>3, <2>2, <4>3, <4>4, <4>5, Zenon
    <3> QED
      BY <3>3, <3>4, Zenon
  <2> QED
    BY <1>6, <2>1, <2>2, Zenon
<1> QED
  BY <1>7, Zenon DEF StoryInv, a, b, k

\* A log that changes hands, or is switched, loses its beginning at most.
LEMMA SwitchedStory ==
    ASSUME SinkInv, StoryInv, Switches(sink, sink'), sink'.emitted = 0, meddled' = meddled,
           Known(Story(sink), daemon', 0), daemon' \in Nat
    PROVE  StoryInv'
<1> DEFINE a == Story(sink)
           b == Story(sink')
<1>1. sink \in Sinks(Rec) /\ sink' \in Sinks(Rec)
  BY DEF SinkInv, TypeInv, Switches
<1>2. a \in Seq(Rec) /\ b \in Seq(Rec)
  BY <1>1, StoryIsSeq
<1>3. Ordered(a) /\ Known(a, daemon', 0)
  BY DEF StoryInv
<1>4. Undisturbed' => sink'.failed = sink.failed /\ Chained(a)
  <2> SUFFICES ASSUME Undisturbed' PROVE sink'.failed = sink.failed /\ Chained(a)
    OBVIOUS
  <2>1. Counted(sink, sink')
    BY DEF Switches
  <2>2. Undisturbed /\ sink'.failed = sink.failed
    BY <2>1, UndisturbedBefore
  <2> QED
    BY <2>2 DEF StoryInv
<1>5. Part(b, a, sink'.failed = sink.failed)
  BY DEF Switches
<1> HIDE DEF a, b
<1>6. Ordered(b) /\ Known(b, daemon', 0)
  BY <1>2, <1>3, <1>5, OrderedPart
<1>7. Undisturbed' => Chained(b)
  <2> SUFFICES ASSUME Undisturbed' PROVE Chained(b)
    OBVIOUS
  <2>1. Part(b, a, TRUE)
    BY <1>4, <1>5, PartWeaker
  <2> QED
    BY <1>2, <1>4, <2>1, ChainedPart
<1>8. ~(0 > 0)
  OBVIOUS
<1> QED
  BY <1>6, <1>7, <1>8, Zenon DEF StoryInv, a, b

\* SIGKILL cuts the story behind what is on disk.
LEMMA CutStory ==
    ASSUME SinkInv, StoryInv, Sigkill
    PROVE  StoryInv'
<1> DEFINE a == Story(sink)
           b == Story(sink')
<1>1. sink \in Sinks(Rec) /\ daemon \in Nat /\ sink' = Released(sink)
  BY DEF SinkInv, TypeInv, Sigkill
<1>2. /\ sink' \in Sinks(Rec) /\ Counted(sink, sink') /\ sink'.emitted = sink.emitted
      /\ Part(b, a, sink.buffer = <<>>)
      /\ Told(sink.old, sink.log, sink.buffer) = b \o sink.buffer
  BY <1>1, ReleasedEffect DEF Story
<1>3. a \in Seq(Rec) /\ b \in Seq(Rec) /\ sink.buffer \in Seq(Rec)
  BY <1>1, <1>2, StoryIsSeq, SinkFields
<1>4. a = b \o sink.buffer
  BY <1>2 DEF Story
<1>5. Ordered(a) /\ Known(a, daemon, sink.emitted)
  BY DEF StoryInv
<1>6. killed' /\ meddled' = meddled /\ daemon' = daemon
  BY DEF Sigkill, files
<1>7. Undisturbed' => Chained(a)
  <2> SUFFICES ASSUME Undisturbed' PROVE Chained(a)
    OBVIOUS
  <2>1. Undisturbed
    BY <1>2, <1>6, UndisturbedBefore
  <2> QED
    BY <2>1 DEF StoryInv
<1> HIDE DEF a, b
<1>8. Ordered(b) /\ Known(b, daemon, sink.emitted)
  BY <1>1, <1>2, <1>3, <1>5, OrderedPart
<1>9. Chained(a) => Chained(b)
  <2>1. Chained(b \o sink.buffer) => Chained(b)
    BY <1>3, ChainedFront
  <2> QED
    BY <1>4, <2>1, Zenon
<1> QED
  BY <1>2, <1>6, <1>7, <1>8, <1>9, Zenon DEF StoryInv, b

\* What the operator does to a log that is off takes no record's place.
LEMMA EditedStory ==
    ASSUME SinkInv, StoryInv, EditLog
    PROVE  StoryInv'
<1> DEFINE files1 == sink.old \o sink.log
           files2 == sink'.old \o sink'.log
           foreign == [i \in 1..Cap |-> Foreign]
<1>1. /\ sink \in Sinks(Rec) /\ sink' \in Sinks(Rec) /\ sink.buffer = <<>> /\ sink'.buffer = <<>>
      /\ sink'.old = sink.old /\ sink'.emitted = sink.emitted
      /\ sink'.log = <<>> \/ sink'.log = sink.log \o foreign
  <2>1. sink \in Sinks(Rec) /\ ~sink.open
    BY DEF SinkInv, TypeInv, EditLog
  <2>2. sink.buffer = <<>>
    BY <2>1, SinkOpen
  <2> QED
    BY <2>1, <2>2, EditLogEffect
<1>2. /\ Story(sink) = files1 /\ Story(sink') = files2
      /\ files1 \in Seq(Rec) /\ files2 \in Seq(Rec)
  BY <1>1, StoryIsSeq
<1>3. daemon \in Nat /\ daemon' = daemon /\ meddled' = TRUE /\ Cap \in Nat
  BY TelemetryAssumption DEF SinkInv, TypeInv, EditLog, ghosts
<1>4. Ordered(files1) /\ Known(files1, daemon, sink.emitted)
  BY <1>2, Zenon DEF StoryInv
<1>5. sink.old \in Seq(Rec) /\ sink.log \in Seq(Rec)
  BY <1>1, SinkFields
<1>6. CASE sink'.log = <<>>
  <2>1. files2 = sink.old
    BY <1>1, <1>5, <1>6, ConcatEmptySeq
  <2>2. Part(sink.old, files1, FALSE)
    BY <1>5, PartFront
  <2> HIDE DEF files1, files2
  <2>3. Ordered(files2) /\ Known(files2, daemon, sink.emitted)
    BY <1>2, <1>3, <1>4, <2>1, <2>2, OrderedPart
  <2> QED
    BY <1>1, <1>2, <1>3, <2>3, Zenon DEF StoryInv, Undisturbed
<1>7. CASE sink'.log = sink.log \o foreign
  <2>1. foreign \in Seq(Rec)
    <3>1. Foreign \in Rec
      BY DEF Foreign, Rec
    <3> QED
      BY <1>3, <3>1, IsASeq
  <2>2. sink.old \o (sink.log \o foreign) = files1 \o foreign
    <3>1. Associative(Seq(Rec))
      BY SeqAssociative
    <3> HIDE DEF foreign
    <3> QED
      BY <1>5, <2>1, <3>1, Zenon DEF Associative
  <2>3. files2 = files1 \o foreign
    BY <1>1, <1>7, <2>2, Zenon
  <2> HIDE DEF files1, files2
  <2>4. Ordered(files1 \o foreign) /\ Known(files1 \o foreign, daemon, sink.emitted)
    BY <1>2, <1>3, <1>4, OrderedForeign
  <2>5. Ordered(files2) /\ Known(files2, daemon, sink.emitted)
    BY <2>3, <2>4, Zenon
  <2> QED
    BY <1>1, <1>2, <1>3, <2>5, Zenon DEF StoryInv, Undisturbed
<1> QED
  BY <1>1, <1>6, <1>7

LEMMA StoryInit == Init => StoryInv
<1> SUFFICES ASSUME Init PROVE StoryInv
  OBVIOUS
<1>1. sink = NoFiles /\ sink \in Sinks(Rec)
  BY SinkInit DEF Init, SinkInv, TypeInv
<1>2. sink.old = <<>> /\ sink.log = <<>> /\ sink.buffer = <<>> /\ sink.emitted = 0
  BY <1>1 DEF NoFiles
<1>3. <<>> \in Seq(Rec) /\ Len(<<>>) = 0
  BY EmptySeq
<1>4. <<>> \o <<>> = <<>>
  BY <1>3, ConcatEmptySeq
<1>5. Story(sink) = <<>>
  BY <1>2, <1>4, Zenon DEF Story, Told
<1>6. 1..0 = {} /\ 1..(0 - 1) = {} /\ ~(0 > 0)
  OBVIOUS
<1>7. Ordered(<<>>) /\ Known(<<>>, daemon, 0) /\ Chained(<<>>)
  BY <1>3, <1>6, Zenon DEF Ordered, Known, Chained
<1> QED
  BY <1>2, <1>5, <1>6, <1>7, Zenon DEF StoryInv

LEMMA StoryStep == SinkInv /\ StoryInv /\ [Next]_vars => StoryInv'
<1> SUFFICES ASSUME SinkInv, StoryInv, [Next]_vars PROVE StoryInv'
  OBVIOUS
<1>0. TypeInv /\ HeldInv /\ sink \in Sinks(Rec) /\ Story(sink) \in Seq(Rec)
  BY StoryIsSeq DEF SinkInv, TypeInv
<1>1. ASSUME NewDaemon
      PROVE  daemon' = daemon + 1 /\ daemon' \in Nat /\ Known(Story(sink), daemon', 0)
             /\ ~sink.open
  <2>1. daemon \in Nat /\ Known(Story(sink), daemon, sink.emitted)
    BY <1>0 DEF TypeInv, StoryInv
  <2>2. Known(Story(sink), daemon + 1, 0)
    BY <1>0, <2>1, KnownNext
  <2>3. daemon' = daemon + 1 /\ phase = "down" /\ daemon + 1 \in Nat
    BY <1>1, <2>1 DEF NewDaemon
  <2> QED
    BY <1>0, <2>2, <2>3, Zenon DEF HeldInv
<1>2. CASE Start
  <2>1. ~sink.open /\ (conf.log_enabled /\ ~no_log_cli') \in BOOLEAN /\ NewDaemon
    BY <1>0, <1>1, <1>2 DEF Start
  <2>2. sink' \in with_stdout(sink, conf.log_enabled /\ ~no_log_cli')
    BY <1>2 DEF Start
  <2>3. Switches(sink, sink') /\ sink'.emitted = 0
    BY <1>0, <2>1, <2>2, StartEffect
  <2>4. meddled' = meddled
    BY <1>2 DEF Start, files
  <2> QED
    BY <1>1, <2>1, <2>3, <2>4, SwitchedStory
<1>3. CASE fatal_exit
  <2>1. /\ sink'.emitted = 0 /\ sink'.failed = sink.failed /\ Story(sink') = Story(sink)
        /\ meddled' = meddled /\ NewDaemon
    BY <1>3, fatal_exitEffect DEF fatal_exit, files
  <2>2. ~(0 > 0)
    OBVIOUS
  <2>3. Known(Story(sink), daemon', 0)
    BY <1>1, <2>1
  <2> QED
    BY <2>1, <2>2, <2>3, Zenon DEF StoryInv, Undisturbed
<1>4. CASE FirstReload
  <2>1. /\ want_log(conf) \in BOOLEAN /\ sink.buffer = <<>> /\ sink.emitted = 0
        /\ sink' \in IF want_log(conf) THEN Then(set_log_enabled(sink, TRUE), flush)
                     ELSE set_log_enabled(sink, FALSE)
    BY <1>0, <1>4 DEF TypeInv, HeldInv, FirstReload, want_log, Conf
  <2>2. Switches(sink, sink') /\ sink'.emitted = sink.emitted
    BY <1>0, <2>1, FirstReloadEffect
  <2>3. meddled' = meddled /\ daemon' = daemon /\ daemon \in Nat
    BY <1>0, <1>4 DEF FirstReload, files, TypeInv
  <2>4. Known(Story(sink), daemon', 0) /\ sink'.emitted = 0
    BY <2>1, <2>2, <2>3, Zenon DEF StoryInv
  <2> QED
    BY <2>2, <2>3, <2>4, SwitchedStory
<1>5. ASSUME phase # "down", NEW kind, NEW r, NextRecord(r, kind), Tells(sink, sink', r),
             UNCHANGED <<daemon, killed, meddled>>
      PROVE  StoryInv'
  BY <1>5, ToldStory
<1>6. CASE LogcatSpawned
  <2>1. /\ UNCHANGED <<daemon, killed, meddled>> /\ phase = "loaded" /\ phase # "down"
        /\ UNCHANGED sink \/ emit_startup_record
    BY <1>6 DEF LogcatSpawned, files
  <2>2. CASE UNCHANGED sink
    BY <2>1, <2>2 DEF StoryInv, Undisturbed
  <2>3. CASE emit_startup_record
    BY <1>5, <2>1, <2>3, StartupEffect
  <2> QED
    BY <2>1, <2>2, <2>3
<1>7. CASE run
  <2>1. /\ UNCHANGED <<daemon, killed, meddled>> /\ phase = "ready" /\ phase # "down"
        /\ emit_startup_record
    BY <1>7 DEF run, files
  <2> QED
    BY <1>5, <2>1, StartupEffect
<1>8. CASE Event
  <2>1. phase # "down" /\ UNCHANGED <<daemon, killed, meddled>>
    BY <1>8 DEF Event, files
  <2> QED
    BY <1>5, <1>8, <2>1, EventEffect
<1>9. CASE reload_configs
  <2>1. phase # "down" /\ UNCHANGED <<daemon, killed, meddled>>
    BY <1>9 DEF reload_configs, files
  <2>2. CASE sink' = sink
    BY <2>1, <2>2 DEF StoryInv, Undisturbed
  <2> QED
    BY <1>5, <1>9, <2>1, <2>2, ReloadEffect
<1>10. CASE StartupFlushed \/ ReloadSettled \/ EndBatch
  <2>1. phase # "down" /\ UNCHANGED <<daemon, killed, meddled>>
    BY <1>10 DEF StartupFlushed, ReloadSettled, EndBatch, ghosts, files
  <2> QED
    BY <1>5, <1>10, <2>1, SettledEffect
<1>11. CASE ReactorFails
  BY <1>11 DEF ReactorFails, ghosts, files, StoryInv, Undisturbed
<1>12. CASE fatal \/ Shutdown
  <2>1. phase # "down" /\ UNCHANGED <<daemon, killed, meddled>>
    BY <1>12 DEF fatal, Shutdown, ghosts, files
  <2> QED
    BY <1>5, <1>12, <2>1, ExitEffect
<1>13. CASE Sigkill
  BY <1>13, CutStory
<1>14. CASE EditConf
  BY <1>14 DEF EditConf, ghosts, StoryInv, Undisturbed
<1>15. CASE EditLog
  BY <1>15, EditedStory
<1>16. CASE UNCHANGED vars
  BY <1>16 DEF vars, ghosts, files, StoryInv, Undisturbed
<1> QED
  BY <1>2, <1>3, <1>4, <1>6, <1>7, <1>8, <1>9, <1>10, <1>11, <1>12, <1>13, <1>14, <1>15, <1>16
  DEF Next, Daemon, Operator

\* The records of the daemons stand in the order of emission through both
\* files, whatever rotations, restarts, kills, failed calls and edits of a
\* log that is off came between; and without a failed call or an edit no
\* record between two kept ones is missing (telemetry.rs:190-310).
THEOREM OrderedLogCorrect == Spec => []OrderedLog
<1>1. SinkInv /\ StoryInv => OrderedLog
  <2> SUFFICES ASSUME SinkInv, StoryInv PROVE OrderedLog
    OBVIOUS
  <2>1. sink \in Sinks(Rec) /\ daemon \in Nat
    BY DEF SinkInv, TypeInv
  <2>2. Files \in Seq(Rec) /\ sink.buffer \in Seq(Rec) /\ Story(sink) \in Seq(Rec)
    BY <2>1, StoryIsSeq, SinkFields DEF Files
  <2>3. Part(Files, Files \o sink.buffer, FALSE)
    BY <2>2, PartFront
  <2>4. Story(sink) = Files \o sink.buffer
    BY DEF Story, Told, Files
  <2>5. Ordered(Story(sink)) /\ (Undisturbed => Chained(Story(sink)))
    BY DEF StoryInv
  <2>6. Part(Files, Story(sink), FALSE)
    BY <2>3, <2>4, Zenon
  <2>7. Ordered(Files)
    BY <2>1, <2>2, <2>5, <2>6, OrderedPart
  <2>8. Chained(Files \o sink.buffer) => Chained(Files)
    BY <2>2, ChainedFront
  <2>9. Undisturbed => Chained(Files)
    BY <2>4, <2>5, <2>8, Zenon
  <2>10. DOMAIN Files = 1..Len(Files)
    BY <2>2, LenProperties
  <2> QED
    BY <2>7, <2>9, <2>10, Zenon DEF OrderedLog, Ordered, Chained
<1>2. Init => SinkInv /\ StoryInv
  BY SinkInit, StoryInit
<1>3. SinkInv /\ StoryInv /\ [Next]_vars => (SinkInv /\ StoryInv)'
  BY SinkStep, StoryStep
<1> QED
  BY <1>1, <1>2, <1>3, PTL DEF Spec

-----------------------------------------------------------------------------
(* What is owed, and what is on its way.                                   *)

LEMMA ToldEmitted ==
    ASSUME SinkInv, NEW t, NEW r, Tells(sink, t, r)
    PROVE  /\ t.emitted \in Nat /\ (sink.emitted > 0 => t.emitted > 0)
           /\ t.emitted = sink.emitted + 1 => t.emitted > 0
<1>1. sink \in Sinks(Rec) /\ t \in Sinks(Rec)
  BY DEF SinkInv, TypeInv, Tells
<1> DEFINE m == sink.emitted
           n == t.emitted
<1>2. m \in Nat /\ n \in Nat
  BY <1>1, SinkFields
<1>3. n = m \/ n = m + 1
  BY DEF Tells
<1> HIDE DEF m, n
<1>4. (m > 0 => n > 0) /\ (n = m + 1 => n > 0)
  BY <1>2, <1>3
<1> QED
  BY <1>2, <1>4 DEF m, n

LEMMA OwedStep == SinkInv /\ OwedInv /\ [Next]_vars => OwedInv'
<1> SUFFICES ASSUME SinkInv, OwedInv, [Next]_vars PROVE OwedInv'
  OBVIOUS
<1>0. TypeInv /\ HeldInv /\ sink \in Sinks(Rec) /\ sink.open \in BOOLEAN
  BY SinkOpen DEF SinkInv, TypeInv
<1>1. CASE Start
  BY <1>1 DEF OwedInv, Start, NewDaemon
<1>2. CASE fatal_exit
  BY <1>2 DEF OwedInv, fatal_exit, NewDaemon
<1>3. CASE FirstReload
  <2>1. owed' = sink'.open /\ phase' = "loaded"
    BY <1>3 DEF FirstReload
  <2> QED
    BY <2>1, Zenon DEF OwedInv
<1>4. CASE LogcatSpawned
  <2>1. owed' = owed /\ killed' = killed /\ phase = "loaded"
    BY <1>4 DEF LogcatSpawned
  <2>2. owed <=> sink.open
    BY <2>1 DEF OwedInv
  <2>3. CASE phase' = "ready" /\ sink' = sink
    BY <2>1, <2>2, <2>3 DEF OwedInv
  <2>4. CASE phase' = "failing" /\ emit_startup_record
    <3>1. PICK r : /\ Tells(sink, sink', r)
                   /\ sink.open => sink'.emitted = sink.emitted + 1
      BY <2>1, <2>4, StartupEffect
    <3>2. owed => sink'.emitted > 0
      BY <2>2, <3>1, ToldEmitted
    <3> QED
      BY <2>1, <2>4, <3>2 DEF OwedInv
  <2> QED
    BY <1>4, <2>3, <2>4 DEF LogcatSpawned
<1>5. CASE run
  <2>1. owed' = owed /\ phase = "ready" /\ phase' = "starting" /\ emit_startup_record
    BY <1>5 DEF run
  <2>2. owed <=> sink.open
    BY <2>1 DEF OwedInv
  <2>3. PICK r : /\ Tells(sink, sink', r)
                 /\ sink.open => sink'.emitted = sink.emitted + 1
    BY <2>1, StartupEffect
  <2>4. owed => sink'.emitted > 0
    BY <2>2, <2>3, ToldEmitted
  <2> QED
    BY <2>1, <2>4 DEF OwedInv
\* Once the held record is emitted what is owed is paid, and stays so.
<1>6. ASSUME phase \in {"starting", "idle", "batch", "announcing", "failing", "exiting"},
             phase' \in {"idle", "batch", "announcing", "exiting", "down"}, owed' = owed,
             NEW r, Tells(sink, sink', r)
      PROVE  OwedInv'
  <2>1. owed' => sink'.emitted > 0
    BY <1>6, ToldEmitted DEF OwedInv
  <2> QED
    BY <1>6, <2>1 DEF OwedInv
<1>7. CASE Event
  <2>1. phase \in {"idle", "batch"} /\ phase' = "batch" /\ owed' = owed
    BY <1>7 DEF Event
  <2> QED
    BY <1>6, <1>7, <2>1, EventEffect
<1>8. CASE reload_configs
  <2>1. /\ phase \in {"idle", "batch"} /\ phase' \in {"batch", "announcing"} /\ owed' = owed
    BY <1>8 DEF reload_configs
  <2>2. CASE sink' = sink
    BY <2>1, <2>2 DEF OwedInv
  <2> QED
    BY <1>6, <1>8, <2>1, <2>2, ReloadEffect
<1>9. CASE StartupFlushed \/ ReloadSettled \/ EndBatch
  <2>1. /\ phase \in {"starting", "failing", "announcing", "batch"}
        /\ phase' \in {"idle", "exiting", "batch"} /\ owed' = owed
    BY <1>9 DEF StartupFlushed, ReloadSettled, EndBatch, ghosts
  <2> QED
    BY <1>6, <1>9, <2>1, SettledEffect
<1>10. CASE ReactorFails
  BY <1>10 DEF OwedInv, ReactorFails, ghosts
<1>11. CASE fatal \/ Shutdown
  <2>1. phase \in {"exiting", "idle"} /\ phase' = "down" /\ owed' = owed
    BY <1>11 DEF fatal, Shutdown, ghosts
  <2> QED
    BY <1>6, <1>11, <2>1, ExitEffect
<1>12. CASE Sigkill
  BY <1>12 DEF OwedInv, Sigkill
<1>13. CASE EditConf
  BY <1>13 DEF OwedInv, EditConf, ghosts
<1>14. CASE EditLog
  <2>1. sink'.open = sink.open /\ sink'.emitted = sink.emitted
    BY <1>14, EditLogEffect
  <2> QED
    BY <1>14, <2>1 DEF OwedInv, EditLog, ghosts
<1>15. CASE UNCHANGED vars
  BY <1>15 DEF OwedInv, vars, ghosts
<1> QED
  BY <1>1, <1>2, <1>3, <1>4, <1>5, <1>7, <1>8, <1>9, <1>10, <1>11, <1>12, <1>13, <1>14, <1>15
  DEF Next, Daemon, Operator

\* A record joins events; behind it only a flush may follow a configuration.
LEMMA RecordWaits ==
    ASSUME NEW p \in Seq(Rec), NEW r \in Rec, NEW q, Joined(q, p, r), Waits(p, FALSE), NEW a,
           r.kind = "config" => a
    PROVE  Waits(q, a)
<1>1. <<>> \in Seq(Rec) /\ Len(<<>>) = 0 /\ 1..0 = {}
  BY EmptySeq
<1>2. Waits(<<>>, FALSE)
  BY <1>1, Zenon DEF Waits
<1>3. PICK e \in {p, <<>>} : q = Append(e, r)
  BY DEF Joined
<1>4. e \in Seq(Rec) /\ Waits(e, FALSE)
  BY <1>1, <1>2, <1>3
<1> DEFINE l == Len(e)
<1>5. l \in Nat /\ Len(q) = l + 1 /\ (\A i \in 1..l : q[i] = e[i]) /\ q[l + 1] = r
  BY <1>3, <1>4, LenProperties, AppendProperties
<1>6. \A i \in 1..l : e[i].kind # "config"
  BY <1>4, Zenon DEF Waits
<1> HIDE DEF l
<1>7. \A i \in 1..Len(q) : i \in 1..l \/ i = l + 1
  BY <1>5
<1>8. ASSUME NEW i \in 1..Len(q), q[i].kind = "config" PROVE a /\ i = Len(q)
  <2>1. CASE i \in 1..l
    BY <1>5, <1>6, <1>8, <2>1, Zenon
  <2>2. CASE i = l + 1
    BY <1>5, <1>8, <2>2, Zenon
  <2> QED
    BY <1>7, <2>1, <2>2
<1> QED
  BY <1>8, Zenon DEF Waits

LEMMA NothingWaits == \A a : Waits(<<>>, a)
<1>1. Len(<<>>) = 0 /\ 1..0 = {}
  BY EmptySeq
<1> QED
  BY <1>1, Zenon DEF Waits

LEMMA ToldBefore ==
    ASSUME SinkInv, NEW r, Tells(sink, sink', r), meddled' = meddled, Undisturbed'
    PROVE  Undisturbed /\ sink'.failed = sink.failed
<1>1. Counted(sink, sink')
  BY DEF Tells
<1> QED
  BY <1>1, UndisturbedBefore

LEMMA BufferStep == SinkInv /\ BufferInv /\ [Next]_vars => BufferInv'
<1> SUFFICES ASSUME SinkInv, BufferInv, [Next]_vars, Undisturbed'
             PROVE  /\ phase' = "idle" => sink'.buffer = <<>>
                    /\ Waits(sink'.buffer, Announcing')
  BY DEF BufferInv, Waits
<1>0. /\ TypeInv /\ HeldInv /\ sink \in Sinks(Rec)
      /\ sink.buffer \in Seq(Rec)
  BY SinkFields DEF SinkInv, TypeInv
<1>1. ASSUME sink'.buffer = <<>>
      PROVE  /\ phase' = "idle" => sink'.buffer = <<>>
             /\ Waits(sink'.buffer, Announcing')
  BY <1>1, NothingWaits, Zenon
<1>2. ASSUME Undisturbed, sink'.buffer = sink.buffer, phase' = phase
      PROVE  /\ phase' = "idle" => sink'.buffer = <<>>
             /\ Waits(sink'.buffer, Announcing')
  BY <1>2, Zenon DEF BufferInv, Announcing
\* A step that emits, where nothing but events waits.
<1>3. ASSUME phase \in {"loaded", "ready", "idle", "batch"}, meddled' = meddled,
             NEW kind, NEW r, NextRecord(r, kind), Tells(sink, sink', r),
             sink' = sink \/ Joined(sink'.buffer, sink.buffer, r) \/ sink'.buffer = <<>>,
             phase' # "idle", kind = "config" => Announcing'
      PROVE  /\ phase' = "idle" => sink'.buffer = <<>>
             /\ Waits(sink'.buffer, Announcing')
  <2>1. Undisturbed
    BY <1>3, ToldBefore
  <2>2. ~Announcing
    BY <1>3 DEF Announcing
  <2>3. Waits(sink.buffer, FALSE)
    BY <2>1, <2>2, Zenon DEF BufferInv, Waits
  <2>4. r \in Rec /\ r.kind = kind
    BY <1>3 DEF NextRecord
  <2>5. CASE sink' = sink
    BY <1>3, <2>3, <2>5, Zenon DEF Waits
  <2>6. CASE Joined(sink'.buffer, sink.buffer, r)
    <3>1. Waits(sink'.buffer, Announcing')
      BY <1>0, <1>3, <2>3, <2>4, <2>6, RecordWaits
    <3> QED
      BY <1>3, <3>1
  <2> QED
    BY <1>1, <1>3, <2>5, <2>6
<1>4. CASE Start
  <2>1. ~sink.open /\ (conf.log_enabled /\ ~no_log_cli') \in BOOLEAN
    BY <1>0, <1>4 DEF HeldInv, Start, NewDaemon
  <2>2. sink' \in with_stdout(sink, conf.log_enabled /\ ~no_log_cli')
    BY <1>4 DEF Start
  <2>3. sink'.buffer = <<>>
    BY <1>0, <2>1, <2>2, StartEffect
  <2> QED
    BY <1>1, <2>3
<1>5. CASE fatal_exit
  BY <1>1, <1>5, fatal_exitEffect
<1>6. CASE FirstReload
  <2>1. /\ want_log(conf) \in BOOLEAN /\ sink.buffer = <<>>
        /\ sink' \in IF want_log(conf) THEN Then(set_log_enabled(sink, TRUE), flush)
                     ELSE set_log_enabled(sink, FALSE)
    BY <1>0, <1>6 DEF TypeInv, HeldInv, FirstReload, want_log, Conf
  <2>2. sink'.buffer = <<>>
    BY <1>0, <2>1, FirstReloadEffect
  <2> QED
    BY <1>1, <2>2
<1>7. ASSUME emit_startup_record, phase \in {"loaded", "ready"},
             phase' \in {"failing", "starting"}, meddled' = meddled
      PROVE  /\ phase' = "idle" => sink'.buffer = <<>>
             /\ Waits(sink'.buffer, Announcing')
  <2>1. PICK r : /\ NextRecord(r, "config") /\ Tells(sink, sink', r)
                 /\ ~sink.open => sink' = sink
                 /\ sink'.failed = sink.failed /\ sink.open => Joined(sink'.buffer, sink.buffer, r)
    BY <1>7, StartupEffect
  <2>2. sink'.failed = sink.failed
    BY <1>7, <2>1, ToldBefore
  <2>3. sink' = sink \/ Joined(sink'.buffer, sink.buffer, r)
    BY <2>1, <2>2
  <2>4. phase' # "idle" /\ Announcing'
    BY <1>7 DEF Announcing
  <2> QED
    BY <1>3, <1>7, <2>1, <2>3, <2>4
<1>8. CASE LogcatSpawned
  <2>1. meddled' = meddled /\ phase = "loaded"
    BY <1>8 DEF LogcatSpawned, files
  <2>2. CASE phase' = "ready" /\ UNCHANGED <<sink, startup_record>>
    <3>1. sink'.buffer = <<>>
      BY <1>0, <2>1, <2>2 DEF HeldInv
    <3> QED
      BY <1>1, <3>1
  <2>3. CASE phase' = "failing" /\ emit_startup_record
    BY <1>7, <2>1, <2>3
  <2> QED
    BY <1>8, <2>2, <2>3 DEF LogcatSpawned
<1>9. CASE run
  BY <1>7, <1>9 DEF run, files
<1>10. CASE Event
  <2>1. meddled' = meddled /\ phase \in {"idle", "batch"} /\ phase' = "batch"
    BY <1>10 DEF Event, files
  <2>2. PICK r : /\ NextRecord(r, "event") /\ Tells(sink, sink', r)
                 /\ ~sink.open => sink' = sink
                 /\ sink'.failed = sink.failed /\ sink.open => Joined(sink'.buffer, sink.buffer, r)
    BY <1>10, EventEffect
  <2>3. sink'.failed = sink.failed
    BY <2>1, <2>2, ToldBefore
  <2>4. sink' = sink \/ Joined(sink'.buffer, sink.buffer, r)
    BY <2>2, <2>3
  <2> QED
    BY <1>3, <2>1, <2>2, <2>4
<1>11. CASE reload_configs
  <2>1. meddled' = meddled /\ phase \in {"idle", "batch"}
    BY <1>11 DEF reload_configs, files
  <2>2. CASE conf = config
    <3>1. phase' = "batch" /\ sink' = sink
      BY <1>11, <2>2 DEF reload_configs
    <3>2. Undisturbed /\ ~Announcing
      BY <2>1, <3>1 DEF Undisturbed, Announcing
    <3>3. Waits(sink'.buffer, Announcing')
      BY <3>1, <3>2, Zenon DEF BufferInv, Waits
    <3> QED
      BY <3>1, <3>3
  <2>3. CASE conf # config
    <3>1. PICK r : /\ NextRecord(r, "config") /\ Tells(sink, sink', r)
                   /\ sink'.failed = sink.failed =>
                        /\ sink.open \/ sink'.open => Joined(sink'.buffer, sink.buffer, r)
                        /\ ~sink.open /\ ~sink'.open => sink' = sink
      BY <1>11, <2>3, ReloadEffect DEF reload_configs
    <3>2. sink'.failed = sink.failed
      BY <2>1, <3>1, ToldBefore
    <3>3. sink' = sink \/ Joined(sink'.buffer, sink.buffer, r)
      BY <3>1, <3>2
    <3>4. phase' # "idle" /\ Announcing'
      BY <1>11, <2>3 DEF reload_configs, Announcing
    <3> QED
      BY <1>3, <2>1, <3>1, <3>3, <3>4
  <2> QED
    BY <2>2, <2>3
<1>12. CASE StartupFlushed \/ ReloadSettled \/ EndBatch
  <2>1. meddled' = meddled
    BY <1>12 DEF StartupFlushed, ReloadSettled, EndBatch, files
  <2>2. sink'.buffer = <<>>
    BY <1>12, <2>1, SettledEffect, ToldBefore
  <2> QED
    BY <1>1, <2>2
<1>13. CASE ReactorFails
  <2>1. sink' = sink /\ Undisturbed /\ phase' = "exiting" /\ ~Announcing
    BY <1>13 DEF ReactorFails, files, Undisturbed, Announcing
  <2>2. Waits(sink'.buffer, Announcing')
    BY <2>1, Zenon DEF BufferInv, Waits
  <2> QED
    BY <2>1, <2>2
<1>14. CASE fatal \/ Shutdown
  BY <1>1, <1>14, ExitEffect
<1>15. CASE Sigkill
  BY <1>0, <1>1, <1>15, ReleasedEffect DEF Sigkill
<1>16. CASE EditConf
  BY <1>2, <1>16 DEF EditConf, Undisturbed
<1>17. CASE EditLog
  BY <1>17 DEF EditLog, Undisturbed
<1>18. CASE UNCHANGED vars
  BY <1>2, <1>18 DEF vars, files, Undisturbed
<1> QED
  BY <1>4, <1>5, <1>6, <1>8, <1>9, <1>10, <1>11, <1>12, <1>13, <1>14, <1>15, <1>16, <1>17, <1>18
  DEF Next, Daemon, Operator

\* What holds of the log in every state.
LogInv == SinkInv /\ StoryInv /\ OwedInv /\ BufferInv

LEMMA LogAlways == Spec => []LogInv
<1>1. Init => LogInv
  <2> SUFFICES ASSUME Init PROVE OwedInv /\ BufferInv
    BY SinkInit, StoryInit DEF LogInv
  <2>1. sink.buffer = <<>> /\ OwedInv
    BY DEF Init, NoFiles, OwedInv
  <2> QED
    BY <2>1, NothingWaits, Zenon DEF BufferInv
<1>2. LogInv /\ [Next]_vars => LogInv'
  BY SinkStep, StoryStep, OwedStep, BufferStep DEF LogInv
<1> QED
  BY <1>1, <1>2, PTL DEF Spec

\* Without a failed call or an edit of the log, a daemon that sleeps, or has
\* ended other than by SIGKILL, has left the last record it emitted on disk,
\* and its configuration if the log was on when it had read its files.  What
\* SIGKILL may find in the buffer is events, and behind them a configuration
\* record only between its emission and its flush (daemon.rs:226-236, 358-395).
THEOREM NothingLostCorrect == Spec => []NothingLost
<1>1. LogInv => NothingLost
  <2> SUFFICES ASSUME SinkInv, StoryInv, OwedInv, BufferInv, Undisturbed
               PROVE  /\ phase = "idle" \/ (phase = "down" /\ ~killed) =>
                           /\ owed => sink.emitted > 0
                           /\ sink.emitted > 0 =>
                                /\ Files # <<>>
                                /\ Files[Len(Files)].daemon = daemon
                                /\ Files[Len(Files)].seq = sink.emitted
                      /\ \A i \in DOMAIN sink.buffer :
                           sink.buffer[i].kind = "config" =>
                               Announcing /\ i = Len(sink.buffer)
    BY DEF LogInv, NothingLost
  <2>1. sink \in Sinks(Rec) /\ HeldInv
    BY DEF SinkInv, TypeInv
  <2>2. DOMAIN sink.buffer = 1..Len(sink.buffer)
    <3>1. \A q \in Seq(Rec) : DOMAIN q = 1..Len(q)
      BY LenProperties
    <3> QED
      BY <2>1, <3>1, SinkFields, Zenon
  <2>3. \A i \in DOMAIN sink.buffer :
            sink.buffer[i].kind = "config" => Announcing /\ i = Len(sink.buffer)
    BY <2>2, Zenon DEF BufferInv, Waits
  <2>4. ASSUME phase = "idle" \/ (phase = "down" /\ ~killed)
        PROVE  /\ owed => sink.emitted > 0
               /\ sink.emitted > 0 => Ends(Files, daemon, sink.emitted)
    <3>1. sink.buffer = <<>>
      <4>1. CASE phase = "idle"
        BY <4>1, Zenon DEF BufferInv
      <4>2. CASE phase = "down"
        BY <2>1, <4>2 DEF HeldInv
      <4> QED
        BY <2>4, <4>1, <4>2
    <3>2. Story(sink) = Files
      BY <2>1, <3>1, StoryIsSeq, Zenon DEF Files
    <3>3. ~killed
      BY <2>1, <2>4 DEF HeldInv
    <3>4. owed => sink.emitted > 0
      BY <2>4, Zenon DEF OwedInv
    <3> QED
      BY <3>2, <3>3, <3>4, Zenon DEF StoryInv
  <2>5. \A d, n : Ends(Files, d, n) =>
           Files # <<>> /\ Files[Len(Files)].daemon = d /\ Files[Len(Files)].seq = n
    <3>1. Len(<<>>) = 0 /\ ~(0 > 0)
      OBVIOUS
    <3> QED
      BY <3>1, Zenon DEF Ends
  <2> QED
    BY <2>3, <2>4, <2>5, Zenon
<1> QED
  BY <1>1, LogAlways, PTL

-----------------------------------------------------------------------------
(* The last announcement.                                                  *)

\* It is still the last one when the story has lost its beginning.
LEMMA LatestPart ==
    ASSUME NEW a \in Seq(Rec), NEW b \in Seq(Rec), Part(a, b, TRUE),
           NEW d, NEW on \in BOOLEAN, NEW rest, Latest(b, d, on, rest)
    PROVE  Latest(a, d, on, rest)
<1> DEFINE l == Len(a)
           m == Len(b)
<1>1. PICK f \in [1..l -> 1..m] :
          /\ \A i \in 1..l : a[i] = b[f[i]]
          /\ l <= m /\ \A i \in 1..l : f[i] = i + (m - l)
  BY DEF Part
<1>2. l \in Nat /\ m \in Nat
  BY LenProperties
<1> HIDE DEF l, m
<1> SUFFICES ASSUME NEW i \in 1..l, a[i].daemon = d, a[i].kind = "config",
                    \A j \in 1..l : i < j => ~(a[j].daemon = d /\ a[j].kind = "config")
             PROVE  /\ a[i].log_enabled = on
                    /\ on => a[i].rest = rest
                    /\ ~on => i = l
  BY DEF Latest, l
<1>3. f[i] \in 1..m /\ a[i] = b[f[i]] /\ f[i] = i + (m - l)
  BY <1>1
<1>4. \A j \in 1..m : f[i] < j => ~(b[j].daemon = d /\ b[j].kind = "config")
  <2> SUFFICES ASSUME NEW j \in 1..m, f[i] < j
               PROVE  ~(b[j].daemon = d /\ b[j].kind = "config")
    OBVIOUS
  <2>1. j - (m - l) \in 1..l /\ i < j - (m - l) /\ (j - (m - l)) + (m - l) = j
    BY <1>1, <1>2, <1>3
  <2>2. a[j - (m - l)] = b[j]
    BY <1>1, <2>1
  <2> QED
    BY <2>1, <2>2, Zenon
<1>5. /\ b[f[i]].log_enabled = on
      /\ on => b[f[i]].rest = rest
      /\ ~on => f[i] = m
  BY <1>3, <1>4, Zenon DEF Latest, m
<1>6. f[i] = m => i = l
  BY <1>2, <1>3
<1> QED
  BY <1>3, <1>5, <1>6, Zenon

\* A configuration told last is the last one told.
LEMMA LatestTold ==
    ASSUME NEW q \in Seq(Rec), NEW r \in Rec, r.kind = "config"
    PROVE  Latest(Append(q, r), r.daemon, r.log_enabled, r.rest)
<1> DEFINE p == Append(q, r)
           l == Len(q)
<1>1. l \in Nat /\ Len(p) = l + 1 /\ p[l + 1] = r
  BY LenProperties, AppendProperties
<1> HIDE DEF p, l
<1> SUFFICES ASSUME NEW i \in 1..Len(p),
                    \A j \in 1..Len(p) :
                        i < j => ~(p[j].daemon = r.daemon /\ p[j].kind = "config")
             PROVE  /\ p[i].log_enabled = r.log_enabled
                    /\ p[i].rest = r.rest
                    /\ i = Len(p)
  BY Zenon DEF Latest, p
<1>2. l + 1 \in 1..Len(p) /\ (i < l + 1 \/ i = l + 1)
  BY <1>1
<1>3. i = l + 1
  BY <1>1, <1>2, Zenon
<1> QED
  BY <1>1, <1>3, Zenon

\* An event told while the log is on leaves it the last one.
LEMMA LatestEvent ==
    ASSUME NEW q \in Seq(Rec), NEW r \in Rec, r.kind = "event", NEW d, NEW rest,
           Latest(q, d, TRUE, rest)
    PROVE  Latest(Append(q, r), d, TRUE, rest)
<1> DEFINE p == Append(q, r)
           l == Len(q)
<1>1. l \in Nat /\ Len(p) = l + 1 /\ (\A i \in 1..l : p[i] = q[i]) /\ p[l + 1] = r
  BY LenProperties, AppendProperties
<1>2. \A i \in 1..l :
          /\ q[i].daemon = d /\ q[i].kind = "config"
          /\ \A j \in 1..l : i < j => ~(q[j].daemon = d /\ q[j].kind = "config")
          => q[i].log_enabled = TRUE /\ q[i].rest = rest
  BY Zenon DEF Latest, l
<1> HIDE DEF p, l
<1> SUFFICES ASSUME NEW i \in 1..Len(p), p[i].daemon = d, p[i].kind = "config",
                    \A j \in 1..Len(p) : i < j => ~(p[j].daemon = d /\ p[j].kind = "config")
             PROVE  p[i].log_enabled = TRUE /\ p[i].rest = rest
  BY Zenon DEF Latest, p
<1>3. i \in 1..l
  <2>1. i \in 1..l \/ i = l + 1
    BY <1>1
  <2>2. i # l + 1
    <3>1. "event" # "config"
      OBVIOUS
    <3> QED
      BY <1>1, <3>1, Zenon
  <2> QED
    BY <2>1, <2>2
<1>4. \A j \in 1..l : i < j => ~(q[j].daemon = d /\ q[j].kind = "config")
  <2>1. \A j \in 1..l : j \in 1..Len(p)
    BY <1>1
  <2> QED
    BY <1>1, <2>1, Zenon
<1> QED
  BY <1>1, <1>2, <1>3, <1>4, Zenon

\* A daemon that has told nothing has announced nothing.
LEMMA LatestNone ==
    ASSUME NEW q \in Seq(Rec), NEW d \in Nat \ {0}, Known(q, d, 0), NEW on, NEW rest
    PROVE  Latest(q, d, on, rest)
<1>1. ASSUME NEW i \in 1..Len(q), q[i].daemon = d PROVE FALSE
  <2>1. q[i] \in Rec
    BY ElementOfSeq
  <2>2. q[i].seq \in Nat
    BY <2>1 DEF Rec
  <2>3. 1 <= q[i].seq /\ q[i].seq <= 0
    BY <1>1 DEF Known
  <2> QED
    BY <2>2, <2>3
<1> QED
  BY <1>1, Zenon DEF Latest

LEMMA LatestOff ==
    ASSUME NEW q, NEW d, NEW x, NEW y, Latest(q, d, FALSE, x)
    PROVE  Latest(q, d, FALSE, y)
BY Zenon DEF Latest

\* What a step that told r, or nothing, without a failed call leaves of the
\* story.
LEMMA ToldCleanly ==
    ASSUME SinkInv, NEW kind, NEW r, NextRecord(r, kind), Tells(sink, sink', r),
           sink'.failed = sink.failed
    PROVE  /\ r \in Rec /\ r.daemon = daemon /\ r.kind = kind
           /\ Story(sink) \in Seq(Rec) /\ Story(sink') \in Seq(Rec)
           /\ Append(Story(sink), r) \in Seq(Rec)
           /\ sink'.emitted = sink.emitted => Story(sink') = Story(sink)
           /\ sink'.emitted = sink.emitted + 1 =>
                /\ Part(Story(sink'), Append(Story(sink), r), TRUE)
                /\ \E q \in Seq(Rec) : Story(sink') = Append(q, r)
<1>1. sink \in Sinks(Rec) /\ sink' \in Sinks(Rec)
  BY DEF SinkInv, TypeInv, Tells
<1>2. r \in Rec /\ r.daemon = daemon /\ r.kind = kind
  BY DEF NextRecord
<1>3. /\ Story(sink) \in Seq(Rec) /\ Story(sink') \in Seq(Rec)
      /\ Append(Story(sink), r) \in Seq(Rec)
  BY <1>1, <1>2, StoryIsSeq, AppendProperties
<1>4. sink.emitted + 1 # sink.emitted
  BY <1>1, SinkFields
<1>5. \/ /\ sink'.emitted = sink.emitted
         /\ Story(sink') = Story(sink)
      \/ /\ sink'.emitted = sink.emitted + 1
         /\ Part(Story(sink'), Append(Story(sink), r), sink'.failed = sink.failed)
         /\ \E q \in Seq(Rec) : Story(sink') = Append(q, r)
  BY Zenon DEF Tells
<1>6. Part(Story(sink'), Append(Story(sink), r), sink'.failed = sink.failed) =>
          Part(Story(sink'), Append(Story(sink), r), TRUE)
  BY PartWeaker
<1> QED
  BY <1>2, <1>3, <1>4, <1>5, <1>6, Zenon

LEMMA SwitchStep == LogInv /\ LogInv' /\ SwitchInv /\ [Next]_vars => SwitchInv'
<1> SUFFICES ASSUME LogInv, LogInv', SwitchInv, [Next]_vars, Undisturbed'
             PROVE  /\ phase' \in {"loaded", "ready"} => startup_record' = config'
                    /\ phase' \in InPower =>
                         /\ want_log(config)' => sink'.open
                         /\ phase' # "announcing" => (sink'.open => want_log(config)')
                         /\ Latest(Story(sink'), daemon', want_log(config)', config'.rest)
  BY DEF SwitchInv, InPower
<1> DEFINE Goal == /\ phase' \in {"loaded", "ready"} => startup_record' = config'
                   /\ phase' \in InPower =>
                        /\ want_log(config)' => sink'.open
                        /\ phase' # "announcing" => (sink'.open => want_log(config)')
                        /\ Latest(Story(sink'), daemon', want_log(config)', config'.rest)
<1>0. /\ SinkInv /\ StoryInv /\ TypeInv /\ HeldInv
      /\ sink \in Sinks(Rec) /\ sink' \in Sinks(Rec)
      /\ sink.open \in BOOLEAN /\ sink'.open \in BOOLEAN /\ daemon \in Nat
      /\ want_log(config) \in BOOLEAN /\ want_log(conf) \in BOOLEAN
  <2>1. SinkInv /\ StoryInv /\ sink \in Sinks(Rec) /\ sink' \in Sinks(Rec)
    BY DEF LogInv, SinkInv, TypeInv
  <2> QED
    BY <2>1, SinkOpen DEF SinkInv, TypeInv, want_log
<1>1. ASSUME phase' \in {"down", "created", "failing", "exiting"} PROVE Goal
  BY <1>1 DEF InPower
\* A step that leaves what is in force alone, and the log but for a flush.
<1>2. ASSUME config' = config, no_log_cli' = no_log_cli, daemon' = daemon, Undisturbed,
             Story(sink') = Story(sink), phase \in InPower,
             phase' \in {"loaded", "ready"} =>
                 phase \in {"loaded", "ready"} /\ startup_record' = startup_record,
             want_log(config) => (sink.open => sink'.open),
             phase' # "announcing" /\ sink'.open =>
                 want_log(config) \/ (phase # "announcing" /\ sink.open)
      PROVE  Goal
  <2>1. want_log(config)' = want_log(config)
    BY <1>2 DEF want_log
  <2>2. startup_record' = config' \/ ~(phase' \in {"loaded", "ready"})
    BY <1>2 DEF SwitchInv
  <2>3. /\ want_log(config) => sink.open
        /\ phase # "announcing" => (sink.open => want_log(config))
        /\ Latest(Story(sink), daemon, want_log(config), config.rest)
    BY <1>2, Zenon DEF SwitchInv
  <2> QED
    BY <1>2, <2>1, <2>2, <2>3, Zenon
<1>3. ASSUME NEW kind, NEW r, NextRecord(r, kind), Tells(sink, sink', r), meddled' = meddled
      PROVE  /\ Undisturbed /\ sink'.failed = sink.failed
             /\ r \in Rec /\ r.daemon = daemon /\ r.kind = kind
             /\ Story(sink) \in Seq(Rec) /\ Story(sink') \in Seq(Rec)
             /\ Append(Story(sink), r) \in Seq(Rec)
             /\ sink'.emitted = sink.emitted => Story(sink') = Story(sink)
             /\ sink'.emitted = sink.emitted + 1 =>
                  /\ Part(Story(sink'), Append(Story(sink), r), TRUE)
                  /\ \E q \in Seq(Rec) : Story(sink') = Append(q, r)
  <2>1. Undisturbed /\ sink'.failed = sink.failed
    BY <1>0, <1>3, ToldBefore
  <2> QED
    BY <1>0, <1>3, <2>1, ToldCleanly
<1>4. CASE Start
  BY <1>1, <1>4 DEF Start
<1>5. CASE fatal_exit
  BY <1>1, <1>5 DEF fatal_exit, NewDaemon
<1>6. CASE FirstReload
  <2>1. /\ want_log(conf) \in BOOLEAN /\ sink.buffer = <<>> /\ sink.emitted = 0
        /\ sink' \in IF want_log(conf) THEN Then(set_log_enabled(sink, TRUE), flush)
                     ELSE set_log_enabled(sink, FALSE)
        /\ daemon \in Nat \ {0}
    BY <1>0, <1>6 DEF TypeInv, HeldInv, FirstReload, want_log, Conf
  <2>2. /\ Switches(sink, sink') /\ sink'.emitted = sink.emitted
        /\ sink'.failed = sink.failed => (sink'.open <=> want_log(conf))
    BY <1>0, <2>1, FirstReloadEffect
  <2>3. /\ meddled' = meddled /\ daemon' = daemon /\ no_log_cli' = no_log_cli
        /\ config' = conf /\ startup_record' = conf
    BY <1>6 DEF FirstReload, files
  <2>4. sink'.failed = sink.failed
    <3>1. Counted(sink, sink')
      BY <2>2 DEF Switches
    <3> QED
      BY <1>0, <2>3, <3>1, UndisturbedBefore
  <2>5. want_log(config)' = want_log(conf) /\ (sink'.open <=> want_log(config)')
    BY <2>2, <2>3, <2>4 DEF want_log
  <2>6. Known(Story(sink'), daemon, 0)
    <3>1. StoryInv'
      BY DEF LogInv
    <3>2. Known(Story(sink'), daemon', sink'.emitted)
      BY <3>1, Zenon DEF StoryInv
    <3> QED
      BY <2>1, <2>2, <2>3, <3>2, Zenon
  <2>7. Story(sink') \in Seq(Rec)
    BY <1>0, StoryIsSeq
  <2>8. Latest(Story(sink'), daemon', want_log(config)', config'.rest)
    BY <2>1, <2>3, <2>6, <2>7, LatestNone
  <2> QED
    BY <2>3, <2>5, <2>8, Zenon
<1>7. CASE LogcatSpawned
  <2>1. /\ phase = "loaded" /\ config' = config /\ no_log_cli' = no_log_cli
        /\ daemon' = daemon /\ meddled' = meddled
    BY <1>7 DEF LogcatSpawned, files
  <2>2. CASE phase' = "ready" /\ sink' = sink /\ startup_record' = startup_record
    <3>1. Undisturbed /\ phase \in InPower /\ phase # "announcing"
      BY <2>1, <2>2 DEF Undisturbed, InPower
    <3> QED
      BY <1>2, <2>1, <2>2, <3>1
  <2>3. CASE phase' = "failing"
    BY <1>1, <2>3
  <2> QED
    BY <1>7, <2>2, <2>3 DEF LogcatSpawned
<1>8. CASE run
  <2>1. /\ phase = "ready" /\ phase' = "starting" /\ config' = config /\ emit_startup_record
        /\ no_log_cli' = no_log_cli /\ daemon' = daemon /\ meddled' = meddled
    BY <1>8 DEF run, files
  <2>2. PICK r : /\ NextRecord(r, "config") /\ Tells(sink, sink', r)
                 /\ r.log_enabled = want_log(startup_record) /\ r.rest = startup_record.rest
                 /\ ~sink.open => sink' = sink
                 /\ sink.open => sink'.emitted = sink.emitted + 1
                 /\ sink'.failed = sink.failed /\ sink.open => sink'.open
    BY <1>0, <2>1, StartupEffect
  <2>3. /\ Undisturbed /\ sink'.failed = sink.failed
        /\ r \in Rec /\ r.daemon = daemon /\ r.kind = "config"
        /\ sink'.emitted = sink.emitted + 1 => \E q \in Seq(Rec) : Story(sink') = Append(q, r)
    BY <1>3, <2>1, <2>2
  <2>4. /\ startup_record = config
        /\ sink.open <=> want_log(config)
        /\ Latest(Story(sink), daemon, want_log(config), config.rest)
    BY <2>1, <2>3 DEF SwitchInv, InPower
  <2>5. Latest(Story(sink'), daemon, want_log(config), config.rest)
    <3>1. CASE ~sink.open
      BY <2>2, <2>4, <3>1, Zenon
    <3>2. CASE sink.open
      <4>1. PICK q \in Seq(Rec) : Story(sink') = Append(q, r)
        BY <2>2, <2>3, <3>2
      <4>2. Latest(Append(q, r), r.daemon, r.log_enabled, r.rest)
        BY <2>3, LatestTold
      <4>3. r.log_enabled = want_log(config) /\ r.rest = config.rest
        BY <2>2, <2>4, Zenon
      <4> QED
        BY <2>3, <4>1, <4>2, <4>3, Zenon
    <3> QED
      BY <3>1, <3>2
  <2>6. want_log(config)' = want_log(config)
    BY <2>1 DEF want_log
  <2>7. sink'.open <=> sink.open
    BY <2>2, <2>3
  <2>8. ~(phase' \in {"loaded", "ready"})
    BY <2>1
  <2> QED
    BY <2>1, <2>4, <2>5, <2>6, <2>7, <2>8, Zenon
<1>9. CASE Event
  <2>1. /\ phase \in {"idle", "batch"} /\ phase' = "batch" /\ config' = config
        /\ no_log_cli' = no_log_cli /\ daemon' = daemon /\ meddled' = meddled
    BY <1>9 DEF Event, files
  <2>2. PICK r : /\ NextRecord(r, "event") /\ Tells(sink, sink', r)
                 /\ ~sink.open => sink' = sink
                 /\ sink.open => sink'.emitted = sink.emitted + 1
                 /\ sink'.failed = sink.failed /\ sink.open => sink'.open
    BY <1>0, <1>9, EventEffect
  <2>3. /\ Undisturbed /\ sink'.failed = sink.failed
        /\ r \in Rec /\ r.kind = "event"
        /\ Story(sink) \in Seq(Rec) /\ Story(sink') \in Seq(Rec)
        /\ Append(Story(sink), r) \in Seq(Rec)
        /\ sink'.emitted = sink.emitted + 1 =>
             Part(Story(sink'), Append(Story(sink), r), TRUE)
    BY <1>3, <2>1, <2>2
  <2>4. phase \in InPower /\ phase # "announcing" /\ ~(phase' \in {"loaded", "ready"})
    BY <2>1 DEF InPower
  <2>5. CASE ~sink.open
    BY <1>2, <2>1, <2>2, <2>3, <2>4, <2>5
  <2>6. CASE sink.open
    <3>1. /\ want_log(config) <=> sink.open
          /\ Latest(Story(sink), daemon, want_log(config), config.rest)
      BY <2>3, <2>4 DEF SwitchInv
    <3>2. want_log(config) = TRUE /\ sink'.open
      BY <1>0, <2>2, <2>3, <2>6, <3>1
    <3>3. Latest(Story(sink), daemon, TRUE, config.rest)
      BY <3>1, <3>2, Zenon
    <3>4. Latest(Append(Story(sink), r), daemon, TRUE, config.rest)
      BY <2>3, <3>3, LatestEvent
    <3>5. Latest(Story(sink'), daemon, TRUE, config.rest)
      BY <2>2, <2>3, <2>6, <3>4, LatestPart
    <3>6. want_log(config)' = TRUE
      BY <2>1, <3>2 DEF want_log
    <3> QED
      BY <2>1, <2>4, <3>2, <3>5, <3>6, Zenon
  <2> QED
    BY <2>5, <2>6
<1>10. CASE reload_configs
  <2>1. /\ phase \in {"idle", "batch"} /\ config' = conf
        /\ no_log_cli' = no_log_cli /\ daemon' = daemon /\ meddled' = meddled
    BY <1>10 DEF reload_configs, files
  <2>2. phase \in InPower /\ phase # "announcing" /\ ~(phase' \in {"loaded", "ready"})
    BY <1>10, <2>1 DEF InPower, reload_configs
  <2>3. CASE sink' = sink /\ config' = config
    <3>1. Undisturbed
      BY <2>1, <2>3 DEF Undisturbed
    <3> QED
      BY <1>2, <2>1, <2>2, <2>3, <3>1
  <2>4. ASSUME NEW r, NextRecord(r, "config"), Tells(sink, sink', r),
               phase' = "announcing", r.log_enabled = want_log(conf), r.rest = conf.rest,
               sink'.failed = sink.failed =>
                   /\ want_log(conf) => sink'.open
                   /\ sink.open \/ sink'.open => sink'.emitted = sink.emitted + 1
                   /\ ~sink.open /\ ~sink'.open => sink' = sink
        PROVE  Goal
    <3>1. /\ Undisturbed /\ sink'.failed = sink.failed
          /\ r \in Rec /\ r.daemon = daemon /\ r.kind = "config"
          /\ sink'.emitted = sink.emitted + 1 => \E q \in Seq(Rec) : Story(sink') = Append(q, r)
      BY <1>3, <2>1, <2>4
    <3>2. /\ want_log(config) => sink.open
          /\ Latest(Story(sink), daemon, want_log(config), config.rest)
      BY <2>2, <3>1 DEF SwitchInv
    <3>3. Latest(Story(sink'), daemon, want_log(conf), conf.rest)
      <4>1. CASE ~sink.open /\ ~sink'.open
        <5>1. want_log(config) = FALSE /\ want_log(conf) = FALSE /\ sink' = sink
          BY <1>0, <2>4, <3>1, <3>2, <4>1
        <5>2. Latest(Story(sink), daemon, FALSE, config.rest)
          BY <3>2, <5>1, Zenon
        <5>3. Latest(Story(sink), daemon, FALSE, conf.rest)
          BY <5>2, LatestOff
        <5> QED
          BY <5>1, <5>3, Zenon
      <4>2. CASE sink.open \/ sink'.open
        <5>1. PICK q \in Seq(Rec) : Story(sink') = Append(q, r)
          BY <2>4, <3>1, <4>2
        <5>2. Latest(Append(q, r), r.daemon, r.log_enabled, r.rest)
          BY <3>1, LatestTold
        <5> QED
          BY <2>4, <3>1, <5>1, <5>2, Zenon
      <4> QED
        BY <4>1, <4>2
    <3>4. want_log(config)' = want_log(conf)
      BY <2>1 DEF want_log
    <3>5. want_log(conf) => sink'.open
      BY <2>4, <3>1
    <3> QED
      BY <2>1, <2>2, <2>4, <3>3, <3>4, <3>5, Zenon
  <2> QED
    BY <1>0, <1>10, <2>3, <2>4, ReloadEffect
<1>11. CASE StartupFlushed \/ ReloadSettled \/ EndBatch
  <2>1. /\ config' = config /\ no_log_cli' = no_log_cli /\ daemon' = daemon
        /\ meddled' = meddled
        /\ \/ phase \in {"starting", "announcing", "batch"} /\ phase' \in {"idle", "batch"}
           \/ phase' = "exiting"
    BY <1>11 DEF StartupFlushed, ReloadSettled, EndBatch, ghosts, files
  <2>2. PICK r : /\ NextRecord(r, "config") /\ Tells(sink, sink', r)
                 /\ sink'.emitted = sink.emitted
                 /\ IF phase = "announcing" /\ ~want_log(config) THEN ~sink'.open
                    ELSE sink'.open = sink.open
    BY <1>0, <1>11, SettledEffect
  <2>3. Undisturbed /\ Story(sink') = Story(sink)
    BY <1>3, <2>1, <2>2
  <2>4. CASE phase' = "exiting"
    BY <1>1, <2>4
  <2>5. CASE phase \in {"starting", "announcing", "batch"} /\ phase' \in {"idle", "batch"}
    <3>1. phase \in InPower /\ ~(phase' \in {"loaded", "ready"})
      BY <2>5 DEF InPower
    <3> QED
      BY <1>2, <2>1, <2>2, <2>3, <3>1
  <2> QED
    BY <2>1, <2>4, <2>5
<1>12. CASE ReactorFails
  BY <1>1, <1>12 DEF ReactorFails
<1>13. CASE fatal \/ Shutdown
  BY <1>1, <1>13 DEF fatal, Shutdown
<1>14. CASE Sigkill
  BY <1>1, <1>14 DEF Sigkill
<1>15. ASSUME EditConf \/ UNCHANGED vars PROVE Goal
  <2>1. /\ sink' = sink /\ config' = config /\ no_log_cli' = no_log_cli /\ daemon' = daemon
        /\ meddled' = meddled /\ phase' = phase /\ startup_record' = startup_record
    BY <1>15 DEF EditConf, vars, ghosts, files
  <2>2. Undisturbed
    BY <2>1 DEF Undisturbed
  <2>3. CASE phase \in InPower
    <3>1. phase # "announcing" \/ phase' = "announcing"
      BY <2>1
    <3> QED
      BY <1>2, <2>1, <2>2, <2>3, <3>1
  <2>4. CASE phase \notin InPower
    <3>1. phase \in {"down", "created", "failing", "exiting"}
      BY <1>0, <2>4 DEF TypeInv, InPower
    <3> QED
      BY <1>1, <2>1, <3>1
  <2> QED
    BY <2>3, <2>4
<1>16. CASE EditLog
  BY <1>16 DEF EditLog, Undisturbed
<1> QED
  BY <1>4, <1>5, <1>6, <1>7, <1>8, <1>9, <1>10, <1>11, <1>12, <1>13, <1>14, <1>15, <1>16
  DEF Next, Daemon, Operator

\* Without a failed call or an edit of the log, whenever the daemon sleeps
\* the last configuration record it has left in the files tells what is in
\* force, and is the last line of a log that is off (daemon.rs:350-376).
THEOREM SwitchesAnnouncedCorrect == Spec => []SwitchesAnnounced
<1>1. LogInv /\ SwitchInv => SwitchesAnnounced
  <2> SUFFICES ASSUME LogInv, SwitchInv, Undisturbed, phase = "idle",
                      NEW i \in DOMAIN Files, Announces(Files[i]),
                      \A j \in DOMAIN Files : i < j => ~Announces(Files[j])
               PROVE  /\ Files[i].log_enabled = sink.open
                      /\ sink.open => Files[i].rest = config.rest
                      /\ ~sink.open => i = Len(Files)
    BY DEF SwitchesAnnounced
  <2>1. sink \in Sinks(Rec) /\ sink.buffer = <<>>
    BY DEF LogInv, SinkInv, TypeInv, BufferInv
  <2>2. Story(sink) = Files /\ Files \in Seq(Rec)
    BY <2>1, StoryIsSeq, Zenon DEF Files
  <2>3. DOMAIN Files = 1..Len(Files)
    BY <2>2, LenProperties
  <2>4. sink.open \in BOOLEAN /\ want_log(config) \in BOOLEAN
    BY <2>1, SinkOpen DEF want_log, LogInv, SinkInv, TypeInv, HeldInv, Conf
  <2>5. /\ want_log(config) <=> sink.open
        /\ Latest(Story(sink), daemon, want_log(config), config.rest)
    BY DEF SwitchInv, InPower
  <2>6. Latest(Files, daemon, sink.open, config.rest)
    <3>1. want_log(config) = sink.open
      BY <2>4, <2>5
    <3> QED
      BY <2>2, <2>5, <3>1, Zenon
  <2> QED
    BY <2>3, <2>6, Zenon DEF Latest, Announces
<1>2. Init => SwitchInv
  BY DEF Init, SwitchInv, InPower
<1> QED
  BY <1>1, <1>2, LogAlways, SwitchStep, PTL DEF Spec
=============================================================================
