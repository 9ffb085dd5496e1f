----------------------------- MODULE PipelineProofs ----------------------------
(***************************************************************************)
(* Proofs about the pipeline of one file, for files of any length and      *)
(* channels, batches and checkpoint intervals of any size.                 *)
(***************************************************************************)
EXTENDS Pipeline, SequenceTheorems, NaturalsInduction, WellFoundedInduction, TLAPS

--------------------------------------------------------------------------------
(***************************************************************************)
(* Induction and recursion over an interval                                *)
(***************************************************************************)

\* A set that has a and with every number of the interval the next one has the
\* whole interval: its first exception would have a predecessor.
LEMMA IntervalInduction ==
  ASSUME NEW a \in Nat, NEW n \in Nat, NEW S,
         a <= n => a \in S,
         \A i \in a .. n : i + 1 <= n /\ i \in S => i + 1 \in S
  PROVE  a .. n \subseteq S
<1> DEFINE T == (a .. n) \ S
<1> SUFFICES ASSUME T # {} PROVE FALSE
  OBVIOUS
<1>1. T \subseteq Nat
  OBVIOUS
<1>2. PICK x \in T : \A y \in T : ~ (<<y, x>> \in OpToRel(<, Nat))
  BY <1>1, NatLessThanWellFounded, WFMin
<1>3. \A y \in T : ~ (y < x)
  BY <1>1, <1>2 DEF OpToRel
<1>4. x # a /\ x - 1 \in a .. n /\ x - 1 + 1 = x
  OBVIOUS
<1>5. x - 1 \notin T
  BY <1>3, <1>4
<1> QED BY <1>4, <1>5

\* f is defined by recursion on the interval a .. n.
Recurs(f, a, n, base, step) ==
  f = [i \in a .. n |-> IF i = a THEN base ELSE step[<<i, f[i - 1]>>]]

\* A recursive function on an interval exists: it can be computed up to any of
\* the interval's numbers.
LEMMA RecursionExists ==
  ASSUME NEW a \in Nat, NEW n \in Nat, a <= n, NEW T, NEW base \in T,
         NEW step, \A i \in a + 1 .. n : \A t \in T : step[<<i, t>>] \in T
  PROVE  \E f \in [a .. n -> T] : Recurs(f, a, n, base, step)
<1> DEFINE Upto(k, f) == f = [i \in a .. k |-> IF i = a THEN base ELSE step[<<i, f[i - 1]>>]]
           S == {k \in a .. n : \E f \in [a .. k -> T] : Upto(k, f)}
<1>1. a \in S
  <2> DEFINE f == [i \in a .. a |-> base]
  <2>1. f \in [a .. a -> T] /\ Upto(a, f)
    OBVIOUS
  <2> HIDE DEF f, Upto
  <2> QED BY <2>1
<1>2. ASSUME NEW k \in a .. n, k + 1 <= n, k \in S PROVE k + 1 \in S
  <2>1. PICK f \in [a .. k -> T] : Upto(k, f)
    BY <1>2
  <2> DEFINE g == [i \in a .. k + 1 |-> IF i <= k THEN f[i] ELSE step[<<i, f[k]>>]]
  <2>2. step[<<k + 1, f[k]>>] \in T
    BY <1>2, <2>1
  <2>3. g \in [a .. k + 1 -> T]
    BY <1>2, <2>1, <2>2
  <2>4. \A i \in a .. k + 1 : g[i] = IF i = a THEN base ELSE step[<<i, g[i - 1]>>]
    <3> SUFFICES ASSUME NEW i \in a .. k + 1
                 PROVE  g[i] = IF i = a THEN base ELSE step[<<i, g[i - 1]>>]
      OBVIOUS
    <3>1. CASE i <= k
      <4>1. i \in a .. k /\ (i # a => i - 1 \in a .. k /\ i - 1 <= k /\ i - 1 \in a .. k + 1)
        BY <3>1
      <4>2. g[i] = f[i] /\ (i # a => g[i - 1] = f[i - 1])
        BY <3>1, <4>1
      <4> QED BY <2>1, <4>1, <4>2
    <3>2. CASE i = k + 1
      <4>1. g[i] = step[<<i, f[k]>>] /\ i # a /\ i - 1 = k /\ g[k] = f[k]
        BY <3>2
      <4> QED BY <4>1
    <3> QED BY <3>1, <3>2
  <2>5. Upto(k + 1, g)
    BY <2>3, <2>4
  <2>6. k + 1 \in a .. n
    BY <1>2
  <2> HIDE DEF g, Upto
  <2> QED BY <2>3, <2>5, <2>6
<1>3. n \in S
  <2> HIDE DEF S
  <2>1. a .. n \subseteq S
    BY <1>1, <1>2, IntervalInduction
  <2> QED BY <2>1
<1> QED BY <1>3 DEF Recurs

--------------------------------------------------------------------------------
(***************************************************************************)
(* The records of a file                                                   *)
(***************************************************************************)

\* RecordsTo is the function that its definition describes.
LEMMA RecordsToDef ==
  ASSUME Len(file) \in Nat
  PROVE  /\ RecordsTo \in [0 .. Len(file) -> Seq(1 .. Len(file))]
         /\ RecordsTo[0] = <<>>
         /\ \A n \in 1 .. Len(file) :
              RecordsTo[n] = IF file[n] = "record" THEN Append(RecordsTo[n - 1], n)
                                                   ELSE RecordsTo[n - 1]
<1> DEFINE N == Len(file)
           T == Seq(1 .. N)
           step == [p \in (1 .. N) \X T |->
                      IF file[p[1]] = "record" THEN Append(p[2], p[1]) ELSE p[2]]
           Is(f) == f = [n \in 0 .. N |->
                           IF n = 0 THEN <<>>
                           ELSE IF file[n] = "record" THEN Append(f[n - 1], n) ELSE f[n - 1]]
<1>1. \A n \in 1 .. N : \A t \in T :
        /\ step[<<n, t>>] = IF file[n] = "record" THEN Append(t, n) ELSE t
        /\ step[<<n, t>>] \in T
  <2> SUFFICES ASSUME NEW n \in 1 .. N, NEW t \in T
               PROVE  /\ step[<<n, t>>] = IF file[n] = "record" THEN Append(t, n) ELSE t
                      /\ step[<<n, t>>] \in T
    OBVIOUS
  <2>1. step[<<n, t>>] = IF file[n] = "record" THEN Append(t, n) ELSE t
    <3> HIDE DEF T
    <3> QED OBVIOUS
  <2>2. Append(t, n) \in T
    OBVIOUS
  <2> HIDE DEF step, T
  <2> QED BY <2>1, <2>2
<1>2. \E f \in [0 .. N -> T] : Recurs(f, 0, N, <<>>, step)
  <2>1. <<>> \in T /\ 0 + 1 = 1 /\ 0 \in Nat /\ 0 <= N
    OBVIOUS
  <2> HIDE DEF step, T, N
  <2>2. \A n \in 0 + 1 .. N : \A t \in T : step[<<n, t>>] \in T
    BY <1>1, <2>1
  <2> QED BY <2>1, <2>2, RecursionExists, Len(file) \in Nat DEF N
<1>3. PICK f \in [0 .. N -> T] : Recurs(f, 0, N, <<>>, step)
  BY <1>2
<1>4. \A n \in 0 .. N : n # 0 => n \in 1 .. N /\ n - 1 \in 0 .. N
  OBVIOUS
<1>5. Is(f)
  <2> HIDE DEF step, T
  <2>1. \A n \in 0 .. N : n # 0 => f[n - 1] \in T
    BY <1>3, <1>4
  <2>2. \A n \in 0 .. N :
          f[n] = IF n = 0 THEN <<>>
                 ELSE IF file[n] = "record" THEN Append(f[n - 1], n) ELSE f[n - 1]
    BY <1>1, <1>3, <1>4, <2>1 DEF Recurs
  <2> QED BY <1>3, <2>2
<1>6. RecordsTo = CHOOSE g : Is(g)
  BY DEF RecordsTo
<1>7. Is(RecordsTo)
  <2> HIDE DEF Is
  <2> QED BY <1>5, <1>6
<1>8. \A n \in 0 .. N :
        RecordsTo[n] = IF n = 0 THEN <<>>
                       ELSE IF file[n] = "record" THEN Append(RecordsTo[n - 1], n)
                            ELSE RecordsTo[n - 1]
  <2> HIDE DEF T
  <2> QED BY <1>7
<1>9. 0 .. N \subseteq {n \in 0 .. N : RecordsTo[n] \in T}
  <2> DEFINE S == {n \in 0 .. N : RecordsTo[n] \in T}
  <2>1. 0 \in S
    BY <1>7
  <2>2. ASSUME NEW n \in 0 .. N, n + 1 <= N, n \in S PROVE n + 1 \in S
    <3>1. n + 1 \in 1 .. N /\ n + 1 - 1 = n
      BY <2>2
    <3>2. RecordsTo[n + 1] = IF file[n + 1] = "record" THEN Append(RecordsTo[n], n + 1)
                             ELSE RecordsTo[n]
      BY <1>8, <3>1
    <3>3. Append(RecordsTo[n], n + 1) \in T
      BY <2>2, <3>1
    <3> HIDE DEF T
    <3> QED BY <2>2, <3>1, <3>2, <3>3
  <2>3. 0 .. N \subseteq S
    <3> HIDE DEF S
    <3> QED BY <2>1, <2>2, IntervalInduction
  <2> QED BY <2>3
<1>10. RecordsTo \in [0 .. N -> T]
  <2>1. RecordsTo = [n \in 0 .. N |-> RecordsTo[n]]
    BY <1>7
  <2> QED BY <1>9, <2>1
<1>11. 0 \in 0 .. N /\ \A n \in 1 .. N : n # 0 /\ n \in 0 .. N
  OBVIOUS
<1> HIDE DEF Is, step
<1> QED BY <1>8, <1>10, <1>11

--------------------------------------------------------------------------------
(***************************************************************************)
(* Sequences: prefixes, and the batches of a channel laid end to end       *)
(***************************************************************************)

\* A prefix agrees with the longer sequence at each of its positions.
LEMMA PrefixPointwise ==
  ASSUME NEW S, NEW s \in Seq(S), NEW t \in Seq(S)
  PROVE  IsPrefix(s, t) <=> Len(s) <= Len(t) /\ \A i \in 1 .. Len(s) : s[i] = t[i]
<1>1. SubSeq(s, 1, Len(s)) = s
  BY SubSeqFull
<1>2. ASSUME Len(s) <= Len(t)
      PROVE  /\ SubSeq(t, 1, Len(s)) \in Seq(S)
             /\ Len(SubSeq(t, 1, Len(s))) = Len(s)
             /\ \A i \in 1 .. Len(s) : SubSeq(t, 1, Len(s))[i] = t[i]
  BY <1>2
<1>3. CASE IsPrefix(s, t)
  BY <1>1, <1>2, <1>3 DEF IsPrefix
<1>4. ASSUME Len(s) <= Len(t), \A i \in 1 .. Len(s) : s[i] = t[i]
      PROVE  IsPrefix(s, t)
  <2>1. s = SubSeq(t, 1, Len(s))
    BY <1>2, <1>4, SeqEqual
  <2> QED BY <1>1, <1>4, <2>1 DEF IsPrefix
<1> QED BY <1>3, <1>4

\* A sequence is a prefix of every sequence that begins with it.
LEMMA PrefixOfConcat ==
  ASSUME NEW S, NEW s \in Seq(S), NEW t \in Seq(S)
  PROVE  IsPrefix(s, s \o t)
<1>1. s \o t \in Seq(S) /\ Len(s) <= Len(s \o t) /\ \A i \in 1 .. Len(s) : (s \o t)[i] = s[i]
  OBVIOUS
<1> QED BY <1>1, PrefixPointwise

LEMMA PrefixTransitive ==
  ASSUME NEW S, NEW s \in Seq(S), NEW t \in Seq(S), NEW u \in Seq(S),
         IsPrefix(s, t), IsPrefix(t, u)
  PROVE  IsPrefix(s, u)
<1>1. Len(s) <= Len(t) /\ \A i \in 1 .. Len(s) : s[i] = t[i]
  BY PrefixPointwise
<1>2. Len(t) <= Len(u) /\ \A i \in 1 .. Len(t) : t[i] = u[i]
  BY PrefixPointwise
<1>3. Len(s) <= Len(u) /\ \A i \in 1 .. Len(s) : i \in 1 .. Len(t)
  BY <1>1, <1>2
<1> QED BY <1>1, <1>2, <1>3, PrefixPointwise

\* f lays the elements of c end to end, one after the other.
Lays(f, c) ==
  /\ f[1] = c[1]
  /\ \A i \in 2 .. Len(c) : f[i] = f[i - 1] \o c[i]

\* FlattenSeq of a channel that is not empty is what its definition describes.
LEMMA FlattenDef ==
  ASSUME NEW S, NEW c \in Seq(Seq(S)), c # <<>>
  PROVE  \E f \in [1 .. Len(c) -> Seq(S)] : Lays(f, c) /\ FlattenSeq(c) = f[Len(c)]
<1> DEFINE N == Len(c)
           T == Seq(S)
           step == [p \in (1 .. N) \X T |-> p[2] \o c[p[1]]]
           Is(f) == f = [i \in 1 .. N |-> IF i = 1 THEN c[i] ELSE f[i - 1] \o c[i]]
<1>1. N \in Nat /\ N >= 1 /\ 1 \in 1 .. N /\ \A i \in 1 .. N : c[i] \in T
  OBVIOUS
<1>2. \A i \in 1 .. N : \A t \in T : step[<<i, t>>] = t \o c[i] /\ step[<<i, t>>] \in T
  <2> SUFFICES ASSUME NEW i \in 1 .. N, NEW t \in T
               PROVE  step[<<i, t>>] = t \o c[i] /\ step[<<i, t>>] \in T
    OBVIOUS
  <2>1. step[<<i, t>>] = t \o c[i]
    <3> HIDE DEF T, N
    <3> QED OBVIOUS
  <2>2. t \o c[i] \in T
    BY <1>1, ConcatProperties
  <2> HIDE DEF step, T
  <2> QED BY <2>1, <2>2
<1>3. PICK f \in [1 .. N -> T] : Recurs(f, 1, N, c[1], step)
  <2>1. \A i \in 1 + 1 .. N : i \in 1 .. N
    BY <1>1
  <2> HIDE DEF step, T, N
  <2> QED BY <1>1, <1>2, <2>1, RecursionExists
<1>4. Is(f)
  <2>1. \A i \in 1 .. N : i # 1 => i - 1 \in 1 .. N
    BY <1>1
  <2> HIDE DEF step, T, N
  <2>2. \A i \in 1 .. N : f[i] = IF i = 1 THEN c[i] ELSE f[i - 1] \o c[i]
    BY <1>1, <1>2, <1>3, <2>1 DEF Recurs
  <2> QED BY <1>3, <2>2
<1> DEFINE flat == CHOOSE g : Is(g)
<1>5. FlattenSeq(c) = flat[N]
  BY <1>1 DEF FlattenSeq
<1>6. Is(flat)
  <2> HIDE DEF Is
  <2> QED BY <1>4
<1> HIDE DEF flat
<1>7. \A i \in 1 .. N : flat[i] = IF i = 1 THEN c[i] ELSE flat[i - 1] \o c[i]
  <2> HIDE DEF T, N
  <2> QED BY <1>6
<1>8. Lays(flat, c)
  <2>1. \A i \in 2 .. N : i # 1 /\ i \in 1 .. N
    BY <1>1
  <2> QED BY <1>1, <1>7, <2>1 DEF Lays
<1>9. 1 .. N \subseteq {i \in 1 .. N : flat[i] \in T}
  <2> DEFINE U == {i \in 1 .. N : flat[i] \in T}
  <2>1. 1 \in U
    BY <1>1, <1>7
  <2>2. ASSUME NEW i \in 1 .. N, i + 1 <= N, i \in U PROVE i + 1 \in U
    <3>1. i + 1 \in 1 .. N /\ i + 1 # 1 /\ i + 1 - 1 = i
      BY <1>1, <2>2
    <3>2. flat[i + 1] = flat[i] \o c[i + 1]
      <4> DEFINE j == i + 1
      <4>1. j \in 1 .. N /\ j # 1 /\ j - 1 = i
        BY <3>1
      <4> HIDE DEF j, N, T
      <4>2. flat[j] = flat[j - 1] \o c[j]
        BY <1>7, <4>1
      <4> QED BY <4>1, <4>2 DEF j
    <3>3. flat[i] \in T /\ c[i + 1] \in T
      BY <1>1, <2>2, <3>1
    <3>4. flat[i] \o c[i + 1] \in T
      BY <3>3, ConcatProperties
    <3> HIDE DEF T
    <3> QED BY <3>1, <3>2, <3>4
  <2>3. 1 .. N \subseteq U
    <3> HIDE DEF U, N
    <3> QED BY <1>1, <2>1, <2>2, IntervalInduction
  <2> QED BY <2>3
<1>10. flat \in [1 .. N -> T]
  <2>1. flat = [i \in 1 .. N |-> flat[i]]
    BY <1>6
  <2> HIDE DEF Is
  <2> QED BY <1>9, <2>1
<1> QED BY <1>5, <1>8, <1>10

LEMMA FlattenEmpty == FlattenSeq(<<>>) = <<>>
BY DEF FlattenSeq

LEMMA FlattenType ==
  ASSUME NEW S, NEW c \in Seq(Seq(S))
  PROVE  FlattenSeq(c) \in Seq(S)
<1>1. CASE c = <<>>
  BY <1>1, FlattenEmpty, EmptySeq
<1>2. CASE c # <<>>
  <2>1. PICK f \in [1 .. Len(c) -> Seq(S)] : FlattenSeq(c) = f[Len(c)]
    BY <1>2, FlattenDef
  <2>2. Len(c) \in 1 .. Len(c)
    BY <1>2
  <2> QED BY <2>1, <2>2
<1> QED BY <1>1, <1>2

\* A batch that is sent comes after all that the channel holds.
LEMMA FlattenAppend ==
  ASSUME NEW S, NEW c \in Seq(Seq(S)), NEW b \in Seq(S)
  PROVE  FlattenSeq(Append(c, b)) = FlattenSeq(c) \o b
<1> DEFINE d == Append(c, b)
           n == Len(c)
<1>1. /\ d \in Seq(Seq(S)) /\ d # <<>> /\ n \in Nat /\ Len(d) = n + 1
      /\ d[n + 1] = b /\ \A i \in 1 .. n : d[i] = c[i]
  BY AppendProperties
<1> HIDE DEF d
<1>2. PICK g \in [1 .. n + 1 -> Seq(S)] : Lays(g, d) /\ FlattenSeq(d) = g[n + 1]
  BY <1>1, FlattenDef
<1>3. CASE c = <<>>
  <2>1. n = 0 /\ n + 1 = 1
    BY <1>3
  <2>2. FlattenSeq(d) = b
    BY <1>1, <1>2, <2>1 DEF Lays
  <2>3. FlattenSeq(c) \o b = b
    BY <1>3, FlattenEmpty, ConcatEmptySeq
  <2> QED BY <2>2, <2>3 DEF d
<1>4. CASE c # <<>>
  <2>1. n >= 1
    BY <1>4, <1>1
  <2>2. PICK f \in [1 .. n -> Seq(S)] : Lays(f, c) /\ FlattenSeq(c) = f[n]
    BY <1>4, FlattenDef
  <2> DEFINE U == {i \in 1 .. n : g[i] = f[i]}
  <2>3. 1 \in U
    BY <1>1, <1>2, <2>1, <2>2 DEF Lays
  <2>4. ASSUME NEW i \in 1 .. n, i + 1 <= n, i \in U PROVE i + 1 \in U
    <3> DEFINE j == i + 1
    <3>1. j \in 1 .. n /\ j \in 2 .. n /\ j \in 2 .. n + 1 /\ j - 1 = i
      BY <1>1, <2>4
    <3> HIDE DEF j, n
    <3>2. f[j] = f[j - 1] \o c[j] /\ g[j] = g[j - 1] \o d[j]
      BY <1>1, <1>2, <2>2, <3>1 DEF Lays, n
    <3>3. f[j] = f[i] \o c[j] /\ g[j] = g[i] \o d[j] /\ d[j] = c[j] /\ g[i] = f[i]
      BY <1>1, <2>4, <3>1, <3>2
    <3>4. g[j] = f[j]
      BY <3>3
    <3> QED BY <3>1, <3>4 DEF j
  <2>5. 1 .. n \subseteq U
    <3> HIDE DEF U, n
    <3> QED BY <1>1, <2>3, <2>4, IntervalInduction
  <2>6. g[n] = f[n]
    <3>1. n \in 1 .. n
      BY <1>1, <2>1
    <3> HIDE DEF n
    <3> QED BY <2>5, <3>1
  <2>7. g[n + 1] = g[n] \o d[n + 1]
    <3> DEFINE j == n + 1
    <3>1. j \in 2 .. n + 1 /\ j - 1 = n
      BY <1>1, <2>1
    <3> HIDE DEF j, n
    <3>2. g[j] = g[j - 1] \o d[j]
      BY <1>1, <1>2, <3>1 DEF Lays
    <3> QED BY <3>1, <3>2 DEF j
  <2> QED BY <1>1, <1>2, <2>2, <2>6, <2>7 DEF d
<1> QED BY <1>3, <1>4

\* The batch that is received is the first of what the channel holds.
LEMMA FlattenTail ==
  ASSUME NEW S, NEW c \in Seq(Seq(S)), c # <<>>
  PROVE  FlattenSeq(c) = Head(c) \o FlattenSeq(Tail(c))
<1>0. \A x, y, z \in Seq(S) : (x \o y) \o z = x \o (y \o z)
  BY ConcatAssociative
<1> DEFINE d == Tail(c)
           n == Len(d)
<1>1. /\ d \in Seq(Seq(S)) /\ n \in Nat /\ Len(c) = n + 1 /\ Head(c) = c[1] /\ c[1] \in Seq(S)
      /\ \A i \in 1 .. n : d[i] = c[i + 1] /\ d[i] \in Seq(S)
  BY HeadTailProperties
<1> HIDE DEF d
<1>2. PICK f \in [1 .. n + 1 -> Seq(S)] : Lays(f, c) /\ FlattenSeq(c) = f[n + 1]
  BY <1>1, FlattenDef
<1>3. CASE d = <<>>
  <2>1. n = 0 /\ n + 1 = 1
    BY <1>3
  <2>2. FlattenSeq(c) = c[1]
    BY <1>2, <2>1 DEF Lays
  <2>3. c[1] \o FlattenSeq(d) = c[1]
    BY <1>1, <1>3, FlattenEmpty, ConcatEmptySeq
  <2> QED BY <1>1, <2>2, <2>3 DEF d
<1>4. CASE d # <<>>
  <2>1. n >= 1
    BY <1>4, <1>1
  <2>2. PICK g \in [1 .. n -> Seq(S)] : Lays(g, d) /\ FlattenSeq(d) = g[n]
    BY <1>1, <1>4, FlattenDef
  <2> DEFINE U == {i \in 1 .. n : f[i + 1] = c[1] \o g[i]}
  <2>7. \A i \in 1 .. n : f[i + 1] = f[i] \o d[i]
    <3> SUFFICES ASSUME NEW i \in 1 .. n PROVE f[i + 1] = f[i] \o d[i]
      OBVIOUS
    <3> DEFINE j == i + 1
    <3>1. j \in 2 .. n + 1 /\ j - 1 = i
      BY <1>1
    <3> HIDE DEF j, n
    <3>2. f[j] = f[j - 1] \o c[j]
      BY <1>1, <1>2, <3>1 DEF Lays
    <3>3. d[i] = c[j]
      BY <1>1 DEF j
    <3> QED BY <3>1, <3>2, <3>3 DEF j
  <2>3. 1 \in U
    <3>1. 1 \in 1 .. n
      BY <1>1, <2>1
    <3>2. f[1 + 1] = f[1] \o d[1]
      BY <2>7, <3>1
    <3> QED BY <1>2, <2>2, <3>1, <3>2 DEF Lays
  <2>4. ASSUME NEW i \in 1 .. n, i + 1 <= n, i \in U PROVE i + 1 \in U
    <3> DEFINE j == i + 1
    <3>1. j \in 1 .. n /\ j \in 2 .. n /\ j - 1 = i
      BY <1>1, <2>4
    <3>2. f[j] = c[1] \o g[i]
      BY <2>4
    <3> HIDE DEF j, n
    <3>3. f[j + 1] = (c[1] \o g[i]) \o d[j]
      BY <2>7, <3>1, <3>2
    <3>4. g[j] = g[i] \o d[j]
      <4>1. g[j] = g[j - 1] \o d[j]
        BY <2>2, <3>1 DEF Lays, n
      <4> QED BY <3>1, <4>1
    <3>5. (c[1] \o g[i]) \o d[j] = c[1] \o (g[i] \o d[j])
      <4>1. c[1] \in Seq(S) /\ g[i] \in Seq(S) /\ d[j] \in Seq(S)
        BY <1>1, <2>2, <3>1
      <4> QED BY <1>0, <4>1
    <3> QED BY <3>1, <3>3, <3>4, <3>5 DEF j
  <2>5. 1 .. n \subseteq U
    <3> HIDE DEF U, n
    <3> QED BY <1>1, <2>3, <2>4, IntervalInduction
  <2>6. f[n + 1] = c[1] \o g[n]
    <3>1. n \in 1 .. n
      BY <1>1, <2>1
    <3> HIDE DEF n
    <3> QED BY <2>5, <3>1
  <2> QED BY <1>1, <1>2, <2>2, <2>6 DEF d
<1> QED BY <1>3, <1>4

--------------------------------------------------------------------------------
(***************************************************************************)
(* The inductive invariant                                                 *)
(***************************************************************************)

\* What each task holds where it is, and which tasks have ended before it got
\* there.
Lifecycle ==
  /\ parser = "send" => held = line /\ line > 0
  /\ batcher \in {"lastFlush", "finish", "ok"} => parser \in Ended /\ parseChan = <<>>
  /\ batcher \in {"finish", "ok"} => batch = <<>>
  /\ batcher \in {"flush", "lastFlush"} => batch # <<>>
  /\ batcher = "receive" => Len(batch) < BatchSize
  /\ \A i \in 1 .. Len(batchChan) : batchChan[i] # <<>>
  /\ publisher \in {"publish", "confirm"} <=> publishing # <<>>
  /\ publisher = "ok" => batcher \in Ended /\ batchChan = <<>>

\* Every end that is not the end of the file comes from a failed publisher.
Causes ==
  /\ FailureHasCause
  /\ parser = "ok" /\ publisher # "error" => line = Len(file)
  /\ outcome # "running" => {parser, batcher, publisher} \subseteq Ended

\* The records read, sent and taken, and the last checkpoint.
Counted ==
  /\ parsed + Len(Held) <= Len(RecordsTo[line])
  /\ taken + Len(parseChan) <= parsed
  /\ publisher # "error" => /\ parsed + Len(Held) = Len(RecordsTo[line])
                            /\ taken + Len(parseChan) = parsed
  /\ CheckpointIsReached

PInv == TypeOK /\ Lifecycle /\ Causes /\ Counted /\ NothingLost

\* The lines of a file.
LEMMA FileFacts ==
  ASSUME file \in BoundedSeq(Line, MaxLines)
  PROVE  Len(file) \in 0 .. MaxLines /\ Len(file) \in Nat /\ file \in Seq(Line)
<1>1. PICK m \in 0 .. MaxLines : file \in [1 .. m -> Line]
  BY DEF BoundedSeq, SeqOf
<1>2. m \in Nat
  BY PipelineAssumption
<1>3. file \in Seq(Line) /\ Len(file) = m
  BY <1>1, <1>2
<1> QED BY <1>1, <1>2, <1>3

\* There are at most as many records as lines, and those of the first lines are
\* the first records.
LEMMA RecordsToFacts ==
  ASSUME Len(file) \in Nat, NEW n \in 0 .. Len(file)
  PROVE  /\ RecordsTo[n] \in Seq(1 .. Len(file))
         /\ Len(RecordsTo[n]) \in Nat
         /\ Len(RecordsTo[n]) <= n
         /\ IsPrefix(RecordsTo[n], Records)
         /\ Len(RecordsTo[n]) <= Len(Records)
<1> DEFINE N == Len(file)
           T == Seq(1 .. N)
           Fits == {k \in 0 .. N : Len(RecordsTo[k]) <= k}
           Begins == {k \in n .. N : IsPrefix(RecordsTo[n], RecordsTo[k])}
<1>1. \A k \in 0 .. N : RecordsTo[k] \in T /\ Len(RecordsTo[k]) \in Nat
  BY RecordsToDef
<1>2. \A k \in 0 .. N : k + 1 <= N =>
        RecordsTo[k + 1] \in {RecordsTo[k], Append(RecordsTo[k], k + 1)}
  <2> SUFFICES ASSUME NEW k \in 0 .. N, k + 1 <= N
               PROVE  RecordsTo[k + 1] \in {RecordsTo[k], Append(RecordsTo[k], k + 1)}
    OBVIOUS
  <2> DEFINE j == k + 1
  <2>1. j \in 1 .. Len(file) /\ j - 1 = k
    OBVIOUS
  <2> HIDE DEF j
  <2>2. RecordsTo[j] \in {RecordsTo[j - 1], Append(RecordsTo[j - 1], j)}
    BY <2>1, RecordsToDef
  <2> QED BY <2>1, <2>2 DEF j
<1>3. 0 .. N \subseteq Fits
  <2>1. 0 \in Fits
    BY RecordsToDef
  <2>2. ASSUME NEW k \in 0 .. N, k + 1 <= N, k \in Fits PROVE k + 1 \in Fits
    <3>1. Len(RecordsTo[k + 1]) \in {Len(RecordsTo[k]), Len(RecordsTo[k]) + 1}
      BY <1>1, <1>2, <2>2
    <3> QED BY <1>1, <2>2, <3>1
  <2> HIDE DEF Fits
  <2> QED BY <2>1, <2>2, IntervalInduction
<1>4. n .. N \subseteq Begins
  <2>1. \A k \in n .. N : k \in 0 .. N
    OBVIOUS
  <2>2. n \in Begins
    BY <1>1, PrefixPointwise
  <2>3. ASSUME NEW k \in n .. N, k + 1 <= N, k \in Begins PROVE k + 1 \in Begins
    <3>1. RecordsTo[k] \in T /\ RecordsTo[k + 1] \in T /\ RecordsTo[n] \in T /\ k + 1 \in 1 .. N
      BY <1>1, <2>1, <2>3
    <3>2. IsPrefix(RecordsTo[k], Append(RecordsTo[k], k + 1))
      <4>1. Append(RecordsTo[k], k + 1) = RecordsTo[k] \o <<k + 1>>
        BY <3>1, AppendIsConcat
      <4>2. <<k + 1>> \in T
        BY <3>1
      <4> HIDE DEF T
      <4> QED BY <3>1, <4>1, <4>2, PrefixOfConcat DEF T
    <3>3. IsPrefix(RecordsTo[n], RecordsTo[k + 1])
      <4>1. CASE RecordsTo[k + 1] = RecordsTo[k]
        BY <2>3, <4>1
      <4>2. CASE RecordsTo[k + 1] = Append(RecordsTo[k], k + 1)
        <5>1. IsPrefix(RecordsTo[n], RecordsTo[k])
          BY <2>3
        <5> QED BY <3>1, <3>2, <4>2, <5>1, PrefixTransitive
      <4> QED BY <1>2, <2>1, <2>3, <4>1, <4>2
    <3> QED BY <2>3, <3>3
  <2>4. n \in Nat /\ N \in Nat
    OBVIOUS
  <2> HIDE DEF Begins, N
  <2> QED BY <2>2, <2>3, <2>4, IntervalInduction
<1>5. n \in n .. N /\ N \in n .. N /\ N \in 0 .. N
  OBVIOUS
<1>6. IsPrefix(RecordsTo[n], Records)
  BY <1>4, <1>5 DEF Records
<1>7. Len(RecordsTo[n]) <= Len(Records)
  BY <1>6 DEF IsPrefix
<1> QED BY <1>1, <1>3, <1>6, <1>7

--------------------------------------------------------------------------------
(***************************************************************************)
(* The invariant is inductive                                              *)
(***************************************************************************)

Numbers == 1 .. MaxLines

\* The kinds of the variables, in the form that the steps below use.
LEMMA Shapes ==
  ASSUME TypeOK, Lifecycle
  PROVE  /\ Len(file) \in Nat /\ Len(file) <= MaxLines /\ MaxLines \in Nat
         /\ line \in 0 .. Len(file) /\ line \in Nat
         /\ {QueueSize, BatchSize, BatchQueue, SaveInterval} \subseteq Nat \ {0}
         /\ {held, parsed, taken, saved, total} \subseteq Nat
         /\ {parseChan, batch, publishing, accepted, Held} \subseteq Seq(Numbers)
         /\ batchChan \in Seq(Seq(Numbers)) /\ FlattenSeq(batchChan) \in Seq(Numbers)
<1>1. Len(file) \in Nat /\ Len(file) <= MaxLines /\ MaxLines \in Nat
  BY FileFacts, PipelineAssumption DEF TypeOK
<1>2. line \in 0 .. Len(file) /\ line \in Nat /\ {held, parsed, taken, saved, total} \subseteq Nat
  BY <1>1 DEF TypeOK
<1>3. batchChan \in Seq(Seq(Numbers)) /\ FlattenSeq(batchChan) \in Seq(Numbers)
  BY FlattenType DEF TypeOK, Numbers
<1>4. parser = "send" => held \in Numbers
  BY <1>1, <1>2 DEF Lifecycle, Numbers
<1>5. {parseChan, batch, publishing, accepted, Held} \subseteq Seq(Numbers)
  <2>1. {parseChan, batch, publishing, accepted} \subseteq Seq(Numbers)
    BY DEF TypeOK, Numbers
  <2>2. Held \in Seq(Numbers)
    BY <1>4 DEF Held
  <2> QED BY <2>1, <2>2
<1> QED BY <1>1, <1>2, <1>3, <1>5, PipelineAssumption

\* The file does not change, and with it its records.
LEMMA SameFile ==
  ASSUME file' = file
  PROVE  RecordsTo' = RecordsTo /\ Records' = Records
BY DEF Records, RecordsTo

LEMMA FileKept ==
  ASSUME [Next]_vars
  PROVE  file' = file
BY DEF Next, vars, ParserSteps, BatcherSteps, PublisherSteps, Environment, ParserReads,
       ParserSends, ParserFindsReceiverGone, ParserFinishes, ParserFails, BatcherReceives,
       BatcherIdles, BatcherSeesEnd, BatcherSends, BatcherFindsReceiverGone, BatcherFinishes,
       PublisherReceives, PublisherSeesEnd, Publish, Confirmed, PublishFails, Refused,
       ConfirmTimesOut, PublisherEndsInError, Join

\* A record that is sent or taken goes from the head of one sequence to the end of
\* another.
LEMMA MoveHead ==
  ASSUME NEW S, NEW x \in Seq(S), NEW y \in Seq(S), y # <<>>
  PROVE  /\ Append(x, Head(y)) \o Tail(y) = x \o y
         /\ Append(x, Head(y)) \in Seq(S) /\ Len(Append(x, Head(y))) = Len(x) + 1
         /\ Tail(y) \in Seq(S) /\ Len(Tail(y)) = Len(y) - 1 /\ Len(y) >= 1
<1> DEFINE h == Head(y)
           t == Tail(y)
<1>1. h \in S /\ t \in Seq(S) /\ <<h>> \in Seq(S)
  BY HeadTailProperties
<1>2. <<h>> \o t = y /\ Len(t) = Len(y) - 1 /\ Len(y) >= 1
  OBVIOUS
<1> HIDE DEF h, t
<1>3. Append(x, h) = x \o <<h>>
  BY <1>1, AppendIsConcat
<1>4. (x \o <<h>>) \o t = x \o (<<h>> \o t)
  BY <1>1, ConcatAssociative
<1>5. Append(x, h) \in Seq(S) /\ Len(Append(x, h)) = Len(x) + 1
  BY <1>1, AppendProperties
<1> QED BY <1>1, <1>2, <1>3, <1>4, <1>5 DEF h, t

\* Every variable keeps its type.
LEMMA NextType ==
  ASSUME PInv, Next
  PROVE  TypeOK'
<1>1. /\ Len(file) \in Nat /\ line \in 0 .. Len(file)
      /\ {QueueSize, BatchSize, BatchQueue, SaveInterval} \subseteq Nat \ {0}
      /\ {held, parsed, taken, saved, total} \subseteq Nat
  BY Shapes DEF PInv
<1>2. TypeOK /\ file' = file
  BY FileKept DEF PInv
<1>3. parsed + Len(Held) <= Len(file) /\ taken + Len(parseChan) <= parsed /\ parsed <= Len(file)
  <2>1. Len(RecordsTo[line]) <= line /\ Len(RecordsTo[line]) \in Nat /\ Len(Held) \in Nat
    BY <1>1, RecordsToFacts DEF Held
  <2>2. Len(parseChan) \in Nat
    BY <1>2 DEF TypeOK
  <2> QED BY <1>1, <2>1, <2>2 DEF PInv, Counted
<1>4. Len(file) <= MaxLines /\ MaxLines \in Nat
  BY Shapes DEF PInv
<1>5. CASE ParserReads
  <2>1. line' = line + 1 /\ line + 1 \in 0 .. Len(file)
    BY <1>1, <1>5 DEF ParserReads
  <2>2. parser' \in {"read", "send"} /\ held' \in 0 .. Len(file)
    BY <1>2, <1>5, <2>1 DEF ParserReads, TypeOK
  <2> QED BY <1>2, <1>5, <2>1, <2>2 DEF TypeOK, ParserReads, batcherVars, publisherVars
<1>6. CASE ParserSends
  BY <1>1, <1>2, <1>3, <1>4, <1>6 DEF TypeOK, ParserSends, Held, Lifecycle, PInv, Ended, Nothing, parserVars, batcherVars, publisherVars
<1>7. CASE ParserFindsReceiverGone
  BY <1>1, <1>2, <1>3, <1>4, <1>7 DEF TypeOK, ParserFindsReceiverGone, Ended, Nothing, parserVars, batcherVars, publisherVars
<1>8. CASE ParserFinishes
  BY <1>1, <1>2, <1>3, <1>4, <1>8 DEF TypeOK, ParserFinishes, Ended, Nothing, parserVars, batcherVars, publisherVars
<1>9. CASE ParserFails
  BY <1>1, <1>2, <1>3, <1>4, <1>9 DEF TypeOK, ParserFails, Ended, Nothing, parserVars, batcherVars, publisherVars
<1>10. CASE BatcherReceives
  <2>1. /\ parseChan' = Tail(parseChan) /\ batch' = Append(batch, Head(parseChan))
        /\ parseChan # <<>> /\ Len(batch) < BatchSize
    BY <1>10 DEF BatcherReceives, PInv, Lifecycle
  <2> DEFINE S == 1 .. MaxLines
  <2>7. /\ parseChan \in Seq(S) /\ batch \in Seq(S) /\ Len(parseChan) <= QueueSize
        /\ Len(parseChan) \in Nat /\ Len(batch) \in Nat
    BY <1>2 DEF TypeOK
  <2>2. parseChan' \in Seq(S) /\ Len(parseChan') <= QueueSize /\ Len(parseChan) >= 1
    <3> HIDE DEF S
    <3> QED BY <1>1, <2>1, <2>7, MoveHead
  <2>3. batch' \in Seq(S) /\ Len(batch') <= BatchSize
    <3> HIDE DEF S
    <3> QED BY <1>1, <2>1, <2>7, MoveHead
  <2>4. taken' = taken + 1 /\ taken + 1 \in 0 .. Len(file)
    <3>1. taken' = taken + 1
      BY <1>10 DEF BatcherReceives
    <3>2. taken \in Nat /\ taken + 1 <= Len(file)
      BY <1>1, <1>3, <2>7, <2>2
    <3> QED BY <1>1, <3>1, <3>2
  <2>5. saved' \in 0 .. taken + 1
    <3>1. saved' = saved \/ saved' = taken'
      BY <1>10 DEF BatcherReceives, Checkpoint
    <3>2. saved \in 0 .. taken
      BY <1>2 DEF TypeOK
    <3> QED BY <1>1, <2>4, <3>1, <3>2
  <2>6. batcher' \in {"receive", "flush"}
    BY <1>10 DEF BatcherReceives
  <2> QED
    BY <1>2, <1>10, <2>2, <2>3, <2>4, <2>5, <2>6
       DEF TypeOK, BatcherReceives, parserVars, publisherVars
<1>11. CASE BatcherIdles
  BY <1>1, <1>2, <1>3, <1>4, <1>11 DEF TypeOK, BatcherIdles, Ended, Nothing, parserVars, batcherVars, publisherVars
<1>12. CASE BatcherSeesEnd
  BY <1>1, <1>2, <1>3, <1>4, <1>12 DEF TypeOK, BatcherSeesEnd, Ended, Nothing, parserVars, batcherVars, publisherVars
<1>13. CASE BatcherSends
  BY <1>1, <1>2, <1>3, <1>4, <1>13 DEF TypeOK, BatcherSends, Ended, Nothing, parserVars, batcherVars, publisherVars
<1>14. CASE BatcherFindsReceiverGone
  BY <1>1, <1>2, <1>3, <1>4, <1>14 DEF TypeOK, BatcherFindsReceiverGone, Ended, Nothing, parserVars, batcherVars, publisherVars
<1>15. CASE BatcherFinishes
  BY <1>1, <1>2, <1>3, <1>4, <1>15 DEF TypeOK, BatcherFinishes, Checkpoint, Ended, Nothing, parserVars, batcherVars, publisherVars
<1>16. CASE PublisherReceives
  <2>1. /\ publishing' = Head(batchChan) /\ batchChan' = Tail(batchChan) /\ batchChan # <<>>
    BY <1>16 DEF PublisherReceives
  <2>2. publishing' \in Seq(1 .. MaxLines)
    BY <1>2, <2>1 DEF TypeOK
  <2>3. batchChan' \in Seq(Seq(1 .. MaxLines)) /\ Len(batchChan') <= BatchQueue
    BY <1>1, <1>2, <2>1 DEF TypeOK
  <2> QED
    BY <1>2, <1>16, <2>2, <2>3 DEF TypeOK, PublisherReceives, parserVars, batcherVars
<1>17. CASE PublisherSeesEnd
  BY <1>1, <1>2, <1>3, <1>4, <1>17 DEF TypeOK, PublisherSeesEnd, Ended, Nothing, parserVars, batcherVars, publisherVars
<1>18. CASE Publish
  BY <1>1, <1>2, <1>3, <1>4, <1>18 DEF TypeOK, Publish, Ended, Nothing, parserVars, batcherVars, publisherVars
<1>19. CASE Confirmed
  <2>1. /\ accepted' = Append(accepted, Head(publishing)) /\ publishing' = Tail(publishing)
        /\ publishing # <<>>
    BY <1>19 DEF Confirmed, PInv, Lifecycle
  <2>2. accepted' \in Seq(1 .. MaxLines) /\ publishing' \in Seq(1 .. MaxLines)
    BY <1>2, <2>1, MoveHead DEF TypeOK
  <2>3. publisher' \in {"receive", "publish"}
    BY <1>19 DEF Confirmed
  <2> QED
    BY <1>2, <1>19, <2>2, <2>3 DEF TypeOK, Confirmed, parserVars, batcherVars
<1>20. CASE PublishFails
  BY <1>1, <1>2, <1>3, <1>4, <1>20 DEF TypeOK, PublishFails, PublisherEndsInError, Ended, Nothing, parserVars, batcherVars, publisherVars
<1>21. CASE Refused
  BY <1>1, <1>2, <1>3, <1>4, <1>21 DEF TypeOK, Refused, PublisherEndsInError, Ended, Nothing, parserVars, batcherVars, publisherVars
<1>22. CASE ConfirmTimesOut
  <2>1. accepted' \in {accepted, Append(accepted, Head(publishing))} /\ publishing # <<>>
    BY <1>22 DEF ConfirmTimesOut, PInv, Lifecycle
  <2>2. accepted' \in Seq(1 .. MaxLines)
    BY <1>2, <2>1, MoveHead DEF TypeOK
  <2> QED
    BY <1>1, <1>2, <1>22, <2>2
       DEF TypeOK, ConfirmTimesOut, PublisherEndsInError, Ended, parserVars, batcherVars
<1>23. CASE Join
  BY <1>1, <1>2, <1>3, <1>4, <1>23 DEF TypeOK, Join, Ended, Nothing, parserVars, batcherVars, publisherVars
<1> QED
  BY <1>5, <1>6, <1>7, <1>8, <1>9, <1>10, <1>11, <1>12, <1>13, <1>14, <1>15, <1>16, <1>17, <1>18, <1>19, <1>20, <1>21, <1>22, <1>23
     DEF Next, ParserSteps, BatcherSteps, PublisherSteps, Environment

LEMMA InitPInv ==
  ASSUME Init
  PROVE  PInv
<1>1. Len(file) \in Nat /\ Len(file) <= MaxLines /\ file \in BoundedSeq(Line, MaxLines)
  BY FileFacts DEF Init
<1>2. TypeOK
  BY <1>1, PipelineAssumption DEF Init, TypeOK, Nothing, Ended
<1>3. Held = <<>> /\ RecordsTo[line] = <<>> /\ FlattenSeq(batchChan) = <<>>
  BY <1>1, RecordsToDef, FlattenEmpty DEF Init, Held
<1>4. Lifecycle /\ Causes
  BY PipelineAssumption DEF Init, Lifecycle, Causes, FailureHasCause, Ended
<1>5. Counted
  <2>1. 0 % SaveInterval = 0
    BY PipelineAssumption
  <2> QED BY <1>3, <2>1 DEF Init, Counted, CheckpointIsReached
<1>6. NothingLost
  <2>1. InFlight = <<>>
    BY <1>3, ConcatEmptySeq, EmptySeq DEF Init, InFlight
  <2>2. accepted = RecordsTo[0] /\ 0 \in 0 .. Len(file)
    BY <1>1, <1>3 DEF Init
  <2> QED BY <1>1, <1>3, <2>1, <2>2, RecordsToFacts DEF NothingLost
<1> QED BY <1>2, <1>4, <1>5, <1>6 DEF PInv

LEMMA NextLifecycle ==
  ASSUME PInv, Next
  PROVE  Lifecycle'
<1>1. /\ BatchSize \in Nat \ {0} /\ line \in Nat /\ batchChan \in Seq(Seq(Numbers))
      /\ {parseChan, batch, publishing} \subseteq Seq(Numbers)
  BY Shapes DEF PInv
<1>2. Lifecycle
  BY DEF PInv
<1>5. CASE ParserReads
  BY <1>1, <1>2, <1>5 DEF Lifecycle, ParserReads, Ended, parserVars, batcherVars, publisherVars
<1>6. CASE ParserSends
  BY <1>1, <1>2, <1>6 DEF Lifecycle, ParserSends, Ended, parserVars, batcherVars, publisherVars
<1>7. CASE ParserFindsReceiverGone
  BY <1>1, <1>2, <1>7 DEF Lifecycle, ParserFindsReceiverGone, Ended, parserVars, batcherVars, publisherVars
<1>8. CASE ParserFinishes
  BY <1>1, <1>2, <1>8 DEF Lifecycle, ParserFinishes, Ended, parserVars, batcherVars, publisherVars
<1>9. CASE ParserFails
  BY <1>1, <1>2, <1>9 DEF Lifecycle, ParserFails, Ended, parserVars, batcherVars, publisherVars
<1>10. CASE BatcherReceives
  <2>1. batcher = "receive" /\ parser' = parser /\ batchChan' = batchChan
    BY <1>10 DEF BatcherReceives, parserVars
  <2>2. batch' = Append(batch, Head(parseChan)) /\ batch' # <<>> /\ Len(batch') \in Nat
    <3>1. parseChan \in Seq(Numbers) /\ batch \in Seq(Numbers) /\ parseChan # <<>>
      BY <1>1, <1>10 DEF BatcherReceives
    <3>2. batch' = Append(batch, Head(parseChan))
      BY <1>10 DEF BatcherReceives
    <3> QED BY <3>1, <3>2, MoveHead
  <2>3. batcher' = IF Len(batch') >= BatchSize THEN "flush" ELSE "receive"
    BY <1>10 DEF BatcherReceives
  <2> QED
    BY <1>1, <1>2, <1>10, <2>1, <2>2, <2>3
       DEF Lifecycle, BatcherReceives, Ended, parserVars, publisherVars
<1>11. CASE BatcherIdles
  BY <1>1, <1>2, <1>11 DEF Lifecycle, BatcherIdles, Ended, parserVars, batcherVars, publisherVars
<1>12. CASE BatcherSeesEnd
  BY <1>1, <1>2, <1>12 DEF Lifecycle, BatcherSeesEnd, Ended, parserVars, batcherVars, publisherVars
<1>13. CASE BatcherSends
  <2>1. /\ batchChan' = Append(batchChan, batch) /\ batch # <<>> /\ batch' = <<>>
        /\ batcher' \in {"receive", "finish"} /\ (batcher' = "finish" => batcher = "lastFlush")
        /\ publisher \notin Ended /\ publisher' = publisher /\ publishing' = publishing
        /\ parser' = parser /\ held' = held /\ line' = line /\ parseChan' = parseChan
    BY <1>2, <1>13 DEF BatcherSends, Lifecycle, parserVars, publisherVars
  <2>2. \A i \in 1 .. Len(batchChan') : batchChan'[i] # <<>>
    <3>1. \A i \in 1 .. Len(batchChan) : batchChan[i] # <<>>
      BY <1>2 DEF Lifecycle
    <3>2. batchChan \in Seq(Seq(Numbers)) /\ batch \in Seq(Numbers)
      BY <1>1
    <3> QED BY <2>1, <3>1, <3>2, AppendProperties
  <2> QED BY <1>1, <1>2, <2>1, <2>2 DEF Lifecycle, Ended
<1>14. CASE BatcherFindsReceiverGone
  BY <1>1, <1>2, <1>14 DEF Lifecycle, BatcherFindsReceiverGone, Ended, parserVars, batcherVars, publisherVars
<1>15. CASE BatcherFinishes
  BY <1>1, <1>2, <1>15 DEF Lifecycle, BatcherFinishes, Ended, parserVars, batcherVars, publisherVars
<1>16. CASE PublisherReceives
  <2>1. /\ batchChan # <<>> /\ publishing' = Head(batchChan) /\ batchChan' = Tail(batchChan)
        /\ publisher' = "publish"
    BY <1>16 DEF PublisherReceives
  <2>2. publishing' # <<>> /\ \A i \in 1 .. Len(batchChan') : batchChan'[i] # <<>>
    <3>1. \A i \in 1 .. Len(batchChan) : batchChan[i] # <<>>
      BY <1>2 DEF Lifecycle
    <3>2. batchChan \in Seq(Seq(Numbers))
      BY <1>1
    <3> QED BY <2>1, <3>1, <3>2, HeadTailProperties
  <2> QED
    BY <1>2, <1>16, <2>1, <2>2 DEF Lifecycle, PublisherReceives, Ended, parserVars, batcherVars
<1>17. CASE PublisherSeesEnd
  BY <1>1, <1>2, <1>17 DEF Lifecycle, PublisherSeesEnd, Ended, parserVars, batcherVars, publisherVars
<1>18. CASE Publish
  BY <1>1, <1>2, <1>18 DEF Lifecycle, Publish, Ended, parserVars, batcherVars, publisherVars
<1>19. CASE Confirmed
  BY <1>1, <1>2, <1>19 DEF Lifecycle, Confirmed, Ended, parserVars, batcherVars, publisherVars
<1>20. CASE PublishFails
  BY <1>1, <1>2, <1>20 DEF Lifecycle, PublishFails, PublisherEndsInError, Ended, parserVars, batcherVars, publisherVars
<1>21. CASE Refused
  BY <1>1, <1>2, <1>21 DEF Lifecycle, Refused, PublisherEndsInError, Ended, parserVars, batcherVars, publisherVars
<1>22. CASE ConfirmTimesOut
  BY <1>1, <1>2, <1>22 DEF Lifecycle, ConfirmTimesOut, PublisherEndsInError, Ended, parserVars, batcherVars, publisherVars
<1>23. CASE Join
  BY <1>1, <1>2, <1>23 DEF Lifecycle, Join, Ended, parserVars, batcherVars, publisherVars
<1> QED
  BY <1>5, <1>6, <1>7, <1>8, <1>9, <1>10, <1>11, <1>12, <1>13, <1>14, <1>15, <1>16, <1>17, <1>18, <1>19, <1>20, <1>21, <1>22, <1>23
     DEF Next, ParserSteps, BatcherSteps, PublisherSteps, Environment

\* The parser and the batcher find the receiver gone only once the publisher has
\* failed.
LEMMA GoneIsFailed ==
  ASSUME PInv, ParserFindsReceiverGone \/ BatcherFindsReceiverGone
  PROVE  publisher = "error"
BY DEF PInv, Lifecycle, Causes, FailureHasCause, ParserFindsReceiverGone,
       BatcherFindsReceiverGone, Ended

LEMMA NextCauses ==
  ASSUME PInv, Next
  PROVE  Causes'
<1>1. Causes /\ file' = file
  BY FileKept DEF PInv
<1>2. ParserFindsReceiverGone \/ BatcherFindsReceiverGone => publisher = "error"
  BY GoneIsFailed
<1>5. CASE ParserReads
  BY <1>1, <1>2, <1>5 DEF Causes, FailureHasCause, ParserReads, Ended, parserVars, batcherVars, publisherVars
<1>6. CASE ParserSends
  BY <1>1, <1>2, <1>6 DEF Causes, FailureHasCause, ParserSends, Ended, parserVars, batcherVars, publisherVars
<1>7. CASE ParserFindsReceiverGone
  BY <1>1, <1>2, <1>7 DEF Causes, FailureHasCause, ParserFindsReceiverGone, Ended, parserVars, batcherVars, publisherVars
<1>8. CASE ParserFinishes
  BY <1>1, <1>2, <1>8 DEF Causes, FailureHasCause, ParserFinishes, Ended, parserVars, batcherVars, publisherVars
<1>9. CASE ParserFails
  BY <1>1, <1>2, <1>9 DEF Causes, FailureHasCause, ParserFails, Ended, parserVars, batcherVars, publisherVars
<1>10. CASE BatcherReceives
  BY <1>1, <1>2, <1>10 DEF Causes, FailureHasCause, BatcherReceives, Ended, parserVars, batcherVars, publisherVars
<1>11. CASE BatcherIdles
  BY <1>1, <1>2, <1>11 DEF Causes, FailureHasCause, BatcherIdles, Ended, parserVars, batcherVars, publisherVars
<1>12. CASE BatcherSeesEnd
  BY <1>1, <1>2, <1>12 DEF Causes, FailureHasCause, BatcherSeesEnd, Ended, parserVars, batcherVars, publisherVars
<1>13. CASE BatcherSends
  BY <1>1, <1>2, <1>13 DEF Causes, FailureHasCause, BatcherSends, Ended, parserVars, batcherVars, publisherVars
<1>14. CASE BatcherFindsReceiverGone
  BY <1>1, <1>2, <1>14 DEF Causes, FailureHasCause, BatcherFindsReceiverGone, Ended, parserVars, batcherVars, publisherVars
<1>15. CASE BatcherFinishes
  BY <1>1, <1>2, <1>15 DEF Causes, FailureHasCause, BatcherFinishes, Ended, parserVars, batcherVars, publisherVars
<1>16. CASE PublisherReceives
  BY <1>1, <1>2, <1>16 DEF Causes, FailureHasCause, PublisherReceives, Ended, parserVars, batcherVars, publisherVars
<1>17. CASE PublisherSeesEnd
  BY <1>1, <1>2, <1>17 DEF Causes, FailureHasCause, PublisherSeesEnd, Ended, parserVars, batcherVars, publisherVars
<1>18. CASE Publish
  BY <1>1, <1>2, <1>18 DEF Causes, FailureHasCause, Publish, Ended, parserVars, batcherVars, publisherVars
<1>19. CASE Confirmed
  BY <1>1, <1>2, <1>19 DEF Causes, FailureHasCause, Confirmed, Ended, parserVars, batcherVars, publisherVars
<1>20. CASE PublishFails
  BY <1>1, <1>2, <1>20 DEF Causes, FailureHasCause, PublishFails, PublisherEndsInError, Ended, parserVars, batcherVars, publisherVars
<1>21. CASE Refused
  BY <1>1, <1>2, <1>21 DEF Causes, FailureHasCause, Refused, PublisherEndsInError, Ended, parserVars, batcherVars, publisherVars
<1>22. CASE ConfirmTimesOut
  BY <1>1, <1>2, <1>22 DEF Causes, FailureHasCause, ConfirmTimesOut, PublisherEndsInError, Ended, parserVars, batcherVars, publisherVars
<1>23. CASE Join
  BY <1>1, <1>2, <1>23 DEF Causes, FailureHasCause, Join, Ended, parserVars, batcherVars, publisherVars
<1> QED
  BY <1>5, <1>6, <1>7, <1>8, <1>9, <1>10, <1>11, <1>12, <1>13, <1>14, <1>15, <1>16, <1>17, <1>18, <1>19, <1>20, <1>21, <1>22, <1>23
     DEF Next, ParserSteps, BatcherSteps, PublisherSteps, Environment

\* Reading a line adds its record to those read, if it holds one.
LEMMA ReadsRecord ==
  ASSUME TypeOK, Lifecycle, ParserReads
  PROVE  /\ line' = line + 1 /\ line' \in 0 .. Len(file)
         /\ Held = <<>> /\ RecordsTo' = RecordsTo
         /\ RecordsTo[line] \in Seq(1 .. Len(file)) /\ line' \in 1 .. Len(file)
         /\ \/ Held' = <<line'>> /\ RecordsTo'[line'] = Append(RecordsTo[line], line')
            \/ Held' = <<>> /\ RecordsTo'[line'] = RecordsTo[line]
<1>1. Len(file) \in Nat /\ line \in 0 .. Len(file)
  BY Shapes
<1>2. line < Len(file) /\ line' = line + 1 /\ file' = file /\ parser = "read"
  BY DEF ParserReads
<1>3. line' \in 1 .. Len(file) /\ line' - 1 = line /\ line' \in 0 .. Len(file)
  BY <1>1, <1>2
<1>4. RecordsTo[line'] = IF file[line'] = "record" THEN Append(RecordsTo[line], line')
                         ELSE RecordsTo[line]
  BY <1>1, <1>3, RecordsToDef
<1>5. RecordsTo[line] \in Seq(1 .. Len(file))
  BY <1>1, RecordsToDef
<1>6. Held = <<>>
  BY <1>2 DEF Held
<1>7. IF file[line'] = "record" THEN Held' = <<line'>> ELSE Held' = <<>>
  BY <1>2 DEF Held, ParserReads
<1> QED BY <1>2, <1>3, <1>4, <1>5, <1>6, <1>7, SameFile

LEMMA NextCounted ==
  ASSUME PInv, Next
  PROVE  Counted'
<1>1. /\ {parsed, taken, saved, Len(Held), Len(parseChan), Len(RecordsTo[line])} \subseteq Nat
      /\ parseChan \in Seq(Numbers) /\ batch \in Seq(Numbers) /\ SaveInterval \in Nat \ {0}
  <2>1. /\ parseChan \in Seq(Numbers) /\ batch \in Seq(Numbers) /\ Held \in Seq(Numbers)
        /\ {parsed, taken, saved} \subseteq Nat /\ SaveInterval \in Nat \ {0}
        /\ Len(file) \in Nat /\ line \in 0 .. Len(file)
    BY Shapes DEF PInv
  <2>2. Len(RecordsTo[line]) \in Nat
    BY <2>1, RecordsToFacts
  <2> QED BY <2>1, <2>2
<1>2. Counted
  BY DEF PInv
<1>3. RecordsTo' = RecordsTo
  BY FileKept, SameFile
<1>4. CASE ParserReads
  <2>1. /\ Len(RecordsTo'[line']) = Len(RecordsTo[line]) + Len(Held') /\ Len(Held) = 0
        /\ Len(RecordsTo[line]) \in Nat /\ Len(Held') \in Nat
    <3>1. /\ Held = <<>> /\ RecordsTo[line] \in Seq(1 .. Len(file))
          /\ \/ Held' = <<line'>> /\ RecordsTo'[line'] = Append(RecordsTo[line], line')
             \/ Held' = <<>> /\ RecordsTo'[line'] = RecordsTo[line]
          /\ line' \in 1 .. Len(file)
      BY <1>4, ReadsRecord DEF PInv
    <3>2. Len(Append(RecordsTo[line], line')) = Len(RecordsTo[line]) + 1
      BY <3>1, AppendProperties
    <3>3. CASE Held' = <<line'>> /\ RecordsTo'[line'] = Append(RecordsTo[line], line')
      <4>1. Len(Held') = 1
        BY <3>3
      <4> QED BY <1>1, <3>1, <3>2, <3>3, <4>1
    <3>4. CASE Held' = <<>> /\ RecordsTo'[line'] = RecordsTo[line]
      BY <1>1, <3>1, <3>4
    <3> QED BY <3>1, <3>3, <3>4
  <2>2. UNCHANGED <<parsed, parseChan, taken, saved, batcher, publisher>>
    BY <1>4 DEF ParserReads, batcherVars, publisherVars
  <2>3. /\ parsed' + Len(Held') <= Len(RecordsTo[line])'
        /\ publisher' # "error" => parsed' + Len(Held') = Len(RecordsTo[line])'
    BY <1>1, <1>2, <2>1, <2>2 DEF Counted
  <2>4. CheckpointIsReached'
    BY <1>2, <2>2 DEF Counted, CheckpointIsReached
  <2>5. /\ taken' + Len(parseChan') <= parsed'
        /\ publisher' # "error" => taken' + Len(parseChan') = parsed'
    BY <1>2, <2>2 DEF Counted
  <2> QED BY <2>3, <2>4, <2>5 DEF Counted
<1>5. CASE ParserSends
  <2>1. Len(Held) = 1 /\ Len(Held') = 0 /\ parsed' = parsed + 1
    BY <1>5 DEF ParserSends, Held
  <2>2. Len(parseChan') = Len(parseChan) + 1
    BY <1>1, <1>5 DEF ParserSends
  <2>3. UNCHANGED <<line, batcherVars, publisherVars>>
    BY <1>5 DEF ParserSends
  <2> QED
    BY <1>1, <1>2, <1>3, <2>1, <2>2, <2>3
       DEF Counted, CheckpointIsReached, batcherVars, publisherVars
<1>6. CASE ParserFindsReceiverGone
  <2>1. publisher = "error" /\ Len(Held') = 0
    BY <1>6, GoneIsFailed DEF ParserFindsReceiverGone, Held
  <2>2. UNCHANGED <<line, parsed, parseChan, batcherVars, publisherVars>>
    BY <1>6 DEF ParserFindsReceiverGone
  <2> QED
    BY <1>1, <1>2, <1>3, <2>1, <2>2
       DEF Counted, CheckpointIsReached, batcherVars, publisherVars
<1>7. CASE ParserFinishes
  BY <1>1, <1>2, <1>3, <1>7 DEF Counted, CheckpointIsReached, Held, ParserFinishes, Ended, parserVars, batcherVars, publisherVars
<1>8. CASE ParserFails
  BY <1>1, <1>2, <1>3, <1>8 DEF Counted, CheckpointIsReached, Held, ParserFails, Ended, parserVars, batcherVars, publisherVars
<1>9. CASE BatcherReceives
  <2>1. Len(parseChan') = Len(parseChan) - 1 /\ Len(parseChan) >= 1 /\ taken' = taken + 1
    BY <1>1, <1>9, MoveHead DEF BatcherReceives
  <2>2. UNCHANGED <<line, parsed, Held, publisherVars>>
    BY <1>9 DEF BatcherReceives, parserVars, Held
  <2>3. saved' <= parsed /\ saved' % SaveInterval = 0
    <3>1. saved <= parsed /\ saved % SaveInterval = 0
      BY <1>2, <1>9 DEF Counted, CheckpointIsReached, BatcherReceives
    <3>2. saved' = saved \/ (saved' = taken' /\ taken' % SaveInterval = 0)
      BY <1>9 DEF BatcherReceives, Checkpoint
    <3> QED BY <1>1, <1>2, <2>1, <3>1, <3>2 DEF Counted
  <2>4. taken' + Len(parseChan') = taken + Len(parseChan)
    BY <1>1, <2>1
  <2> QED
    BY <1>2, <1>3, <2>2, <2>3, <2>4 DEF Counted, CheckpointIsReached, publisherVars
<1>10. CASE BatcherIdles
  BY <1>1, <1>2, <1>3, <1>10 DEF Counted, CheckpointIsReached, Held, BatcherIdles, Ended, parserVars, batcherVars, publisherVars
<1>11. CASE BatcherSeesEnd
  BY <1>1, <1>2, <1>3, <1>11 DEF Counted, CheckpointIsReached, Held, BatcherSeesEnd, Ended, parserVars, batcherVars, publisherVars
<1>12. CASE BatcherSends
  BY <1>1, <1>2, <1>3, <1>12 DEF Counted, CheckpointIsReached, Held, BatcherSends, Ended, parserVars, batcherVars, publisherVars
<1>13. CASE BatcherFindsReceiverGone
  <2>1. publisher = "error" /\ Len(parseChan') = 0
    BY <1>13, GoneIsFailed DEF BatcherFindsReceiverGone
  <2>2. UNCHANGED <<line, parsed, Held, taken, saved, publisherVars>> /\ batcher \notin Ended
    BY <1>13 DEF BatcherFindsReceiverGone, parserVars, Held, Ended
  <2> QED
    BY <1>1, <1>2, <1>3, <2>1, <2>2
       DEF Counted, CheckpointIsReached, publisherVars, Ended
<1>14. CASE BatcherFinishes
  <2>1. saved' \in {saved, taken} /\ batcher = "finish" /\ batcher' = "ok"
    BY <1>14 DEF BatcherFinishes, Checkpoint
  <2>2. UNCHANGED <<line, parsed, Held, taken, parseChan, publisherVars>>
    BY <1>14 DEF BatcherFinishes, parserVars, Held
  <2>3. saved <= parsed /\ saved % SaveInterval = 0 /\ taken <= parsed
    BY <1>1, <1>2, <2>1 DEF Counted, CheckpointIsReached
  <2> QED
    BY <1>1, <1>2, <1>3, <2>1, <2>2, <2>3
       DEF Counted, CheckpointIsReached, publisherVars
<1>15. CASE PublisherReceives
  BY <1>1, <1>2, <1>3, <1>15 DEF Counted, CheckpointIsReached, Held, PublisherReceives, Ended, parserVars, batcherVars, publisherVars
<1>16. CASE PublisherSeesEnd
  BY <1>1, <1>2, <1>3, <1>16 DEF Counted, CheckpointIsReached, Held, PublisherSeesEnd, Ended, parserVars, batcherVars, publisherVars
<1>17. CASE Publish
  BY <1>1, <1>2, <1>3, <1>17 DEF Counted, CheckpointIsReached, Held, Publish, Ended, parserVars, batcherVars, publisherVars
<1>18. CASE Confirmed
  BY <1>1, <1>2, <1>3, <1>18 DEF Counted, CheckpointIsReached, Held, Confirmed, Ended, parserVars, batcherVars, publisherVars
<1>19. CASE PublishFails
  BY <1>1, <1>2, <1>3, <1>19 DEF Counted, CheckpointIsReached, Held, PublishFails, PublisherEndsInError, Ended, parserVars, batcherVars, publisherVars
<1>20. CASE Refused
  BY <1>1, <1>2, <1>3, <1>20 DEF Counted, CheckpointIsReached, Held, Refused, PublisherEndsInError, Ended, parserVars, batcherVars, publisherVars
<1>21. CASE ConfirmTimesOut
  BY <1>1, <1>2, <1>3, <1>21 DEF Counted, CheckpointIsReached, Held, ConfirmTimesOut, PublisherEndsInError, Ended, parserVars, batcherVars, publisherVars
<1>22. CASE Join
  BY <1>1, <1>2, <1>3, <1>22 DEF Counted, CheckpointIsReached, Held, Join, Ended, parserVars, batcherVars, publisherVars
<1> QED
  BY <1>4, <1>5, <1>6, <1>7, <1>8, <1>9, <1>10, <1>11, <1>12, <1>13, <1>14, <1>15, <1>16, <1>17, <1>18, <1>19, <1>20, <1>21, <1>22
     DEF Next, ParserSteps, BatcherSteps, PublisherSteps, Environment

\* What was accepted comes first of all that is on its way.
LEMMA AcceptedFirst ==
  ASSUME NEW S, NEW a \in Seq(S), NEW p \in Seq(S), NEW f \in Seq(S), NEW b \in Seq(S),
         NEW c \in Seq(S), NEW h \in Seq(S)
  PROVE  IsPrefix(a, a \o p \o f \o b \o c \o h)
<1>1. /\ a \o p \in Seq(S) /\ a \o p \o f \in Seq(S) /\ a \o p \o f \o b \in Seq(S)
      /\ a \o p \o f \o b \o c \in Seq(S) /\ a \o p \o f \o b \o c \o h \in Seq(S)
  BY ConcatProperties
<1> DEFINE v == a \o p
           w == v \o f
           x == w \o b
           y == x \o c
           z == y \o h
<1>2. v \in Seq(S) /\ w \in Seq(S) /\ x \in Seq(S) /\ y \in Seq(S) /\ z \in Seq(S)
  BY <1>1
<1>3. IsPrefix(a, v) /\ IsPrefix(v, w) /\ IsPrefix(w, x) /\ IsPrefix(x, y) /\ IsPrefix(y, z)
  BY <1>2, PrefixOfConcat
<1> HIDE DEF v, w, x, y, z
<1>4. IsPrefix(a, w)
  BY <1>2, <1>3, PrefixTransitive
<1>5. IsPrefix(a, x)
  BY <1>2, <1>3, <1>4, PrefixTransitive
<1>6. IsPrefix(a, y)
  BY <1>2, <1>3, <1>5, PrefixTransitive
<1>7. IsPrefix(a, z)
  BY <1>2, <1>3, <1>6, PrefixTransitive
<1> QED BY <1>7 DEF v, w, x, y, z

\* Concatenation as an operator of its own, that the steps below need not expand.
Cat(x, y) == x \o y

LEMMA CatType == \A S : \A x, y \in Seq(S) : Cat(x, y) \in Seq(S)
BY ConcatProperties DEF Cat

LEMMA CatAssociative == \A S : \A x, y, z \in Seq(S) : Cat(Cat(x, y), z) = Cat(x, Cat(y, z))
BY ConcatAssociative DEF Cat

LEMMA CatEmpty == \A S : \A x \in Seq(S) : Cat(x, <<>>) = x /\ Cat(<<>>, x) = x
BY ConcatEmptySeq DEF Cat

LEMMA InFlightCat ==
  InFlight = Cat(Cat(Cat(Cat(Cat(accepted, publishing), FlattenSeq(batchChan)), batch),
                     parseChan), Held)
BY DEF InFlight, Cat

\* What is on its way does not change when two neighbours exchange an element:
\* the ones before and the ones behind them stay where they are.
LEMMA Regroup ==
  ASSUME NEW S, NEW x \in Seq(S), NEW b \in Seq(S), NEW c \in Seq(S),
         NEW b2 \in Seq(S), NEW c2 \in Seq(S), Cat(b2, c2) = Cat(b, c)
  PROVE  Cat(Cat(x, b2), c2) = Cat(Cat(x, b), c)
<1>1. Cat(Cat(x, b2), c2) = Cat(x, Cat(b2, c2))
  BY CatAssociative
<1>2. Cat(Cat(x, b), c) = Cat(x, Cat(b, c))
  BY CatAssociative
<1> QED BY <1>1, <1>2

\* As long as the publisher has not failed, a step adds to what is on its way the
\* record that the parser has read, if it read one, and nothing else.
LEMMA NextInFlight ==
  ASSUME PInv, Next, publisher' # "error"
  PROVE  InFlight' = RecordsTo'[line']
<1> DEFINE F == FlattenSeq(batchChan)
           A == Cat(accepted, publishing)
           B == Cat(A, F)
           C == Cat(B, batch)
           D == Cat(C, parseChan)
<1>1. /\ parseChan \in Seq(Numbers) /\ batch \in Seq(Numbers) /\ publishing \in Seq(Numbers)
      /\ accepted \in Seq(Numbers) /\ Held \in Seq(Numbers)
      /\ batchChan \in Seq(Seq(Numbers)) /\ F \in Seq(Numbers)
  BY Shapes DEF PInv
<1>2. A \in Seq(Numbers) /\ B \in Seq(Numbers) /\ C \in Seq(Numbers) /\ D \in Seq(Numbers)
  BY <1>1, CatType
<1>3. InFlight = Cat(D, Held)
  BY InFlightCat
<1>4. InFlight' = Cat(Cat(Cat(Cat(Cat(accepted', publishing'), FlattenSeq(batchChan')), batch'),
                          parseChan'), Held')
  BY DEF InFlight, Cat
<1>5. RecordsTo' = RecordsTo
  BY FileKept, SameFile
<1>6. publisher # "error"
  BY DEF Next, ParserSteps, BatcherSteps, PublisherSteps, Environment, ParserReads,
         ParserSends, ParserFindsReceiverGone, ParserFinishes, ParserFails, BatcherReceives,
         BatcherIdles, BatcherSeesEnd, BatcherSends, BatcherFindsReceiverGone,
         BatcherFinishes, PublisherReceives, PublisherSeesEnd, Publish, Confirmed,
         PublishFails, Refused, ConfirmTimesOut, PublisherEndsInError, Join, publisherVars
<1>7. InFlight = RecordsTo[line]
  BY <1>6 DEF PInv, NothingLost
<1>8. Lifecycle /\ TypeOK
  BY DEF PInv
<1>9. CASE ParserReads
  <2>1. UNCHANGED <<accepted, publishing, batchChan, batch, parseChan>>
    BY <1>9 DEF ParserReads, batcherVars, publisherVars
  <2>2. InFlight' = Cat(D, Held')
    BY <1>4, <2>1
  <2>3. /\ Held = <<>> /\ RecordsTo[line] \in Seq(1 .. Len(file)) /\ line' \in 1 .. Len(file)
        /\ \/ Held' = <<line'>> /\ RecordsTo'[line'] = Append(RecordsTo[line], line')
           \/ Held' = <<>> /\ RecordsTo'[line'] = RecordsTo[line]
    BY <1>8, <1>9, ReadsRecord
  <2>4. D = RecordsTo[line]
    <3> HIDE DEF D
    <3> QED BY <1>2, <1>3, <1>7, <2>3, CatEmpty
  <2>5. CASE Held' = <<line'>> /\ RecordsTo'[line'] = Append(RecordsTo[line], line')
    <3>1. Append(RecordsTo[line], line') = Cat(RecordsTo[line], <<line'>>)
      BY <2>3, AppendIsConcat DEF Cat
    <3> HIDE DEF D
    <3> QED BY <2>2, <2>4, <2>5, <3>1
  <2>6. CASE Held' = <<>> /\ RecordsTo'[line'] = RecordsTo[line]
    <3> HIDE DEF D
    <3> QED BY <1>2, <2>2, <2>4, <2>6, CatEmpty
  <2> QED BY <2>3, <2>5, <2>6
<1>10. CASE ParserSends
  <2>1. /\ UNCHANGED <<line, accepted, publishing, batchChan, batch>>
        /\ parseChan' = Append(parseChan, held) /\ Held' = <<>> /\ Held = <<held>>
    BY <1>10 DEF ParserSends, batcherVars, publisherVars, Held
  <2>2. held \in Numbers
    BY <1>1, <2>1
  <2>3. InFlight' = Cat(Cat(C, parseChan'), Held')
    BY <1>4, <2>1
  <2>4. parseChan' \in Seq(Numbers) /\ Held' \in Seq(Numbers)
    BY <1>1, <2>1, <2>2, AppendProperties, EmptySeq
  <2>5. Cat(parseChan', Held') = Cat(parseChan, Held)
    <3>1. Append(parseChan, held) = Cat(parseChan, <<held>>)
      BY <1>1, <2>2, AppendIsConcat DEF Cat
    <3>2. Cat(parseChan', Held') = parseChan'
      BY <2>1, <2>4, CatEmpty
    <3> QED BY <2>1, <3>1, <3>2
  <2>6. Cat(Cat(C, parseChan'), Held') = Cat(Cat(C, parseChan), Held)
    <3> HIDE DEF C
    <3> QED BY ONLY <1>1, <1>2, <2>4, <2>5, Regroup
  <2> QED BY <1>3, <1>5, <1>7, <2>1, <2>3, <2>6
<1>11. CASE BatcherReceives
  <2>1. /\ UNCHANGED <<line, accepted, publishing, batchChan, Held>> /\ parseChan # <<>>
        /\ parseChan' = Tail(parseChan) /\ batch' = Append(batch, Head(parseChan))
    BY <1>11 DEF BatcherReceives, parserVars, publisherVars, Held
  <2>2. InFlight' = Cat(Cat(Cat(B, batch'), parseChan'), Held)
    BY <1>4, <2>1
  <2>3. Cat(batch', parseChan') = Cat(batch, parseChan)
    <3>1. Cat(Append(batch, Head(parseChan)), Tail(parseChan)) = Cat(batch, parseChan)
      BY <1>1, <2>1, MoveHead DEF Cat
    <3> QED BY <2>1, <3>1
  <2>4. batch' \in Seq(Numbers) /\ parseChan' \in Seq(Numbers)
    BY <1>1, <2>1, MoveHead
  <2>5. Cat(Cat(B, batch'), parseChan') = Cat(Cat(B, batch), parseChan)
    <3> HIDE DEF B
    <3> QED BY ONLY <1>1, <1>2, <2>3, <2>4, Regroup
  <2> QED BY <1>3, <1>5, <1>7, <2>1, <2>2, <2>5
<1>12. CASE BatcherSends
  <2>1. /\ UNCHANGED <<line, accepted, publishing, parseChan, Held>>
        /\ batchChan' = Append(batchChan, batch) /\ batch' = <<>>
    BY <1>12 DEF BatcherSends, parserVars, publisherVars, Held
  <2>2. InFlight' = Cat(Cat(Cat(Cat(A, FlattenSeq(batchChan')), batch'), parseChan), Held)
    BY <1>4, <2>1
  <2>3. FlattenSeq(batchChan') = Cat(F, batch)
    <3>1. FlattenSeq(Append(batchChan, batch)) = FlattenSeq(batchChan) \o batch
      BY <1>1, FlattenAppend
    <3> QED BY <2>1, <3>1 DEF Cat
  <2>4. FlattenSeq(batchChan') \in Seq(Numbers) /\ batch' \in Seq(Numbers)
    <3> HIDE DEF F
    <3> QED BY <1>1, <2>1, <2>3, CatType, EmptySeq
  <2>5. Cat(FlattenSeq(batchChan'), batch') = Cat(F, batch)
    <3> HIDE DEF F
    <3> QED BY <2>1, <2>3, <2>4, CatEmpty
  <2>6. Cat(Cat(A, FlattenSeq(batchChan')), batch') = Cat(Cat(A, F), batch)
    <3> HIDE DEF A, F
    <3> QED BY ONLY <1>1, <1>2, <2>4, <2>5, Regroup
  <2> QED BY <1>3, <1>5, <1>7, <2>1, <2>2, <2>6
<1>13. CASE PublisherReceives
  <2>1. /\ UNCHANGED <<line, accepted, batch, parseChan, Held>> /\ batchChan # <<>>
        /\ batchChan' = Tail(batchChan) /\ publishing' = Head(batchChan)
        /\ publishing = <<>>
    BY <1>8, <1>13 DEF PublisherReceives, parserVars, batcherVars, Held, Lifecycle
  <2>2. InFlight' = Cat(Cat(Cat(Cat(Cat(accepted, publishing'), FlattenSeq(batchChan')), batch),
                            parseChan), Held)
    BY <1>4, <2>1
  <2>3. publishing' \in Seq(Numbers) /\ batchChan' \in Seq(Seq(Numbers))
    BY <1>1, <2>1, HeadTailProperties
  <2>4. FlattenSeq(batchChan') \in Seq(Numbers)
    BY <2>3, FlattenType
  <2>5. Cat(publishing', FlattenSeq(batchChan')) = Cat(publishing, F)
    <3>1. FlattenSeq(batchChan) = Head(batchChan) \o FlattenSeq(Tail(batchChan))
      BY <1>1, <2>1, FlattenTail
    <3>2. F = Cat(publishing', FlattenSeq(batchChan'))
      BY <2>1, <3>1 DEF Cat
    <3>3. Cat(publishing, F) = F
      <4> HIDE DEF F
      <4> QED BY <1>1, <2>1, CatEmpty
    <3> QED BY <3>2, <3>3
  <2>6. Cat(Cat(accepted, publishing'), FlattenSeq(batchChan')) = Cat(Cat(accepted, publishing), F)
    <3> HIDE DEF F
    <3> QED BY ONLY <1>1, <2>3, <2>4, <2>5, Regroup
  <2> QED BY <1>3, <1>5, <1>7, <2>1, <2>2, <2>6
<1>14. CASE Confirmed
  <2>1. /\ UNCHANGED <<line, batchChan, batch, parseChan, Held>> /\ publishing # <<>>
        /\ accepted' = Append(accepted, Head(publishing)) /\ publishing' = Tail(publishing)
    BY <1>8, <1>14 DEF Confirmed, parserVars, batcherVars, Held, Lifecycle
  <2>2. Cat(accepted', publishing') = A
    <3>1. Cat(Append(accepted, Head(publishing)), Tail(publishing)) = Cat(accepted, publishing)
      BY <1>1, <2>1, MoveHead DEF Cat
    <3> QED BY <2>1, <3>1
  <2> QED BY <1>3, <1>4, <1>5, <1>7, <2>1, <2>2
<1>15. CASE \/ ParserFinishes \/ ParserFails \/ BatcherIdles \/ BatcherSeesEnd
            \/ BatcherFinishes \/ PublisherSeesEnd \/ Publish \/ Join
  <2>1. UNCHANGED <<line, accepted, publishing, batchChan, batch, parseChan>>
    BY <1>15 DEF ParserFinishes, ParserFails, BatcherIdles, BatcherSeesEnd, BatcherFinishes,
                 PublisherSeesEnd, Publish, Join, parserVars, batcherVars, publisherVars
  <2>2. Held' = Held
    BY <1>15 DEF ParserFinishes, ParserFails, BatcherIdles, BatcherSeesEnd, BatcherFinishes,
                 PublisherSeesEnd, Publish, Join, parserVars, Held
  <2> QED BY <1>3, <1>4, <1>5, <1>7, <2>1, <2>2
<1>16. ~ (ParserFindsReceiverGone \/ BatcherFindsReceiverGone)
  BY <1>6, GoneIsFailed
<1>17. ~ (PublishFails \/ Refused \/ ConfirmTimesOut)
  BY DEF PublishFails, Refused, ConfirmTimesOut, PublisherEndsInError
<1> QED
  BY <1>9, <1>10, <1>11, <1>12, <1>13, <1>14, <1>15, <1>16, <1>17
     DEF Next, ParserSteps, BatcherSteps, PublisherSteps, Environment

\* What is accepted stays a prefix of the file, also by a confirm that is lost.
LEMMA NextNothingLost ==
  ASSUME PInv, Next, TypeOK', Lifecycle'
  PROVE  NothingLost'
<1>1. /\ {parseChan, batch, publishing, accepted, Held} \subseteq Seq(Numbers)
      /\ FlattenSeq(batchChan) \in Seq(Numbers)
      /\ Len(file) \in Nat /\ line \in 0 .. Len(file) /\ 1 .. Len(file) \subseteq Numbers
  <2>1. /\ {parseChan, batch, publishing, accepted, Held} \subseteq Seq(Numbers)
        /\ FlattenSeq(batchChan) \in Seq(Numbers)
        /\ Len(file) \in Nat /\ line \in 0 .. Len(file) /\ Len(file) <= MaxLines
        /\ MaxLines \in Nat
    BY Shapes DEF PInv
  <2> QED BY <2>1 DEF Numbers
<1>2. RecordsTo' = RecordsTo /\ Records' = Records
  BY FileKept, SameFile
<1>3. CASE publisher' # "error"
  <2>1. InFlight' = RecordsTo[line']
    BY <1>2, <1>3, NextInFlight
  <2>2. IsPrefix(accepted', InFlight')
    <3>1. /\ accepted' \in Seq(Numbers) /\ publishing' \in Seq(Numbers)
          /\ FlattenSeq(batchChan') \in Seq(Numbers) /\ batch' \in Seq(Numbers)
          /\ parseChan' \in Seq(Numbers)
      <4>1. /\ accepted' \in Seq(Numbers) /\ publishing' \in Seq(Numbers)
            /\ batchChan' \in Seq(Seq(Numbers)) /\ batch' \in Seq(Numbers)
            /\ parseChan' \in Seq(Numbers)
        BY DEF TypeOK, Numbers
      <4> QED BY <4>1, FlattenType
    <3>2. Held' \in Seq(Numbers)
      <4>1. file' = file /\ line' \in 0 .. Len(file)
        BY FileKept DEF TypeOK
      <4>2. parser' = "send" => held' \in 1 .. Len(file)
        BY <1>1, <4>1 DEF Lifecycle
      <4> QED BY <1>1, <4>2 DEF Held
    <3> QED BY <3>1, <3>2, AcceptedFirst DEF InFlight
  <2>3. line' \in 0 .. Len(file)
    BY FileKept DEF TypeOK
  <2>4. /\ RecordsTo[line'] \in Seq(1 .. Len(file)) /\ IsPrefix(RecordsTo[line'], Records)
    BY <1>1, <2>3, RecordsToFacts
  <2>5. Records \in Seq(1 .. Len(file))
    <3>1. Len(file) \in 0 .. Len(file)
      BY <1>1
    <3> QED BY <1>1, <3>1, RecordsToFacts DEF Records
  <2>6. accepted' \in Seq(Numbers) /\ RecordsTo[line'] \in Seq(Numbers) /\ Records \in Seq(Numbers)
    <3>1. accepted' \in Seq(Numbers)
      BY DEF TypeOK, Numbers
    <3> QED BY <1>1, <2>4, <2>5, <3>1, SeqMonotonic
  <2>7. IsPrefix(accepted', Records)
    BY <2>1, <2>2, <2>4, <2>6, PrefixTransitive
  <2> QED BY <1>2, <2>1, <2>7 DEF NothingLost
<1>4. CASE publisher' = "error"
  <2>1. IsPrefix(accepted', Records)
    <3>1. IsPrefix(accepted, Records)
      BY DEF PInv, NothingLost
    <3>2. CASE ConfirmTimesOut /\ accepted' # accepted
      <4>1. /\ accepted' = Append(accepted, Head(publishing)) /\ publishing # <<>>
            /\ publisher # "error"
        BY <3>2 DEF ConfirmTimesOut, PInv, Lifecycle
      <4>2. /\ accepted' \o Tail(publishing) = accepted \o publishing
            /\ accepted' \in Seq(Numbers) /\ Tail(publishing) \in Seq(Numbers)
        BY <1>1, <4>1, MoveHead
      <4>3. InFlight = accepted' \o Tail(publishing) \o FlattenSeq(batchChan) \o batch
                         \o parseChan \o Held
        BY <4>2 DEF InFlight
      <4>4. IsPrefix(accepted', InFlight)
        BY <1>1, <4>2, <4>3, AcceptedFirst
      <4>5. InFlight = RecordsTo[line]
        BY <4>1 DEF PInv, NothingLost
      <4>6. RecordsTo[line] \in Seq(1 .. Len(file)) /\ IsPrefix(RecordsTo[line], Records)
        BY <1>1, RecordsToFacts
      <4>7. Records \in Seq(1 .. Len(file))
        <5>1. Len(file) \in 0 .. Len(file)
          BY <1>1
        <5> QED BY <1>1, <5>1, RecordsToFacts DEF Records
      <4>8. RecordsTo[line] \in Seq(Numbers) /\ Records \in Seq(Numbers)
        BY <1>1, <4>6, <4>7, SeqMonotonic
      <4> QED BY <4>2, <4>4, <4>5, <4>6, <4>8, PrefixTransitive
    <3>3. ~ (ConfirmTimesOut /\ accepted' # accepted) => accepted' = accepted
      BY <1>4
         DEF Next, ParserSteps, BatcherSteps, PublisherSteps, Environment, ParserReads,
             ParserSends, ParserFindsReceiverGone, ParserFinishes, ParserFails,
             BatcherReceives, BatcherIdles, BatcherSeesEnd, BatcherSends,
             BatcherFindsReceiverGone, BatcherFinishes, PublisherReceives,
             PublisherSeesEnd, Publish, Confirmed, PublishFails, Refused, Join,
             publisherVars
    <3> QED BY <3>1, <3>2, <3>3
  <2> QED BY <1>2, <1>4, <2>1 DEF NothingLost
<1> QED BY <1>3, <1>4

LEMMA NextPInv ==
  ASSUME PInv, [Next]_vars
  PROVE  PInv'
<1>1. CASE Next
  <2>1. TypeOK' /\ Lifecycle'
    BY <1>1, NextType, NextLifecycle
  <2> QED BY <1>1, <2>1, NextCauses, NextCounted, NextNothingLost DEF PInv
<1>2. CASE UNCHANGED vars
  <2>1. RecordsTo' = RecordsTo /\ Records' = Records
    BY <1>2, SameFile DEF vars
  <2>2. UNCHANGED <<file, parser, line, held, parsed, parseChan, batcher, batch, taken, saved,
                    batchChan, publisher, publishing, accepted, outcome, total>>
    BY <1>2 DEF vars, parserVars, batcherVars, publisherVars
  <2>3. TypeOK'
    BY <2>2 DEF PInv, TypeOK
  <2>4. Lifecycle' /\ Causes'
    BY <2>2 DEF PInv, Lifecycle, Causes, FailureHasCause
  <2>5. Held' = Held
    BY <2>2 DEF Held
  <2>6. Counted'
    BY <2>1, <2>2, <2>5 DEF PInv, Counted, CheckpointIsReached
  <2>7. InFlight' = InFlight
    BY <2>2, <2>5 DEF InFlight
  <2>8. NothingLost'
    BY <2>1, <2>2, <2>7 DEF PInv, NothingLost
  <2> QED BY <2>3, <2>4, <2>6, <2>8 DEF PInv
<1> QED BY <1>1, <1>2

THEOREM PInvAlways == Spec => []PInv
BY InitPInv, NextPInv, PTL DEF Spec

--------------------------------------------------------------------------------
(***************************************************************************)
(* What the invariant says                                                 *)
(***************************************************************************)

\* Every variable keeps its type, and no channel or batch exceeds its size.
THEOREM PipelineTyped == Spec => []TypeOK
<1>1. PInv => TypeOK
  BY DEF PInv
<1> QED BY <1>1, PInvAlways, PTL

\* The broker accepts a prefix of the file's records, and while the publisher has not
\* failed the records read are those accepted and those on the way, in their order.
THEOREM NothingIsLost == Spec => []NothingLost
<1>1. PInv => NothingLost
  BY DEF PInv
<1> QED BY <1>1, PInvAlways, PTL

\* The count that a checkpoint saves is one that the batcher had reached.
THEOREM CheckpointReached == Spec => []CheckpointIsReached
<1>1. PInv => CheckpointIsReached
  BY DEF PInv, Counted
<1> QED BY <1>1, PInvAlways, PTL

\* A batcher fails only after its publisher did, and a pipeline only after its parser
\* or its publisher did.
THEOREM FailureCaused == Spec => []FailureHasCause
<1>1. PInv => FailureHasCause
  BY DEF PInv, Causes
<1> QED BY <1>1, PInvAlways, PTL

--------------------------------------------------------------------------------
(***************************************************************************)
(* The pipeline does what the extraction expects of it                     *)
(***************************************************************************)

\* The records taken are those that the publisher, its channel and the batch hold
\* and those that the broker accepted.
LEMMA TakenIsHeld ==
  ASSUME PInv, publisher # "error"
  PROVE  taken = Len(accepted) + Len(publishing) + Len(FlattenSeq(batchChan)) + Len(batch)
<1> DEFINE F == FlattenSeq(batchChan)
<1>1. /\ parseChan \in Seq(Numbers) /\ batch \in Seq(Numbers) /\ publishing \in Seq(Numbers)
      /\ accepted \in Seq(Numbers) /\ Held \in Seq(Numbers) /\ F \in Seq(Numbers)
      /\ {parsed, taken} \subseteq Nat
  BY Shapes DEF PInv
<1> HIDE DEF F
<1>2. Len(accepted \o publishing \o F \o batch \o parseChan \o Held)
        = Len(accepted) + Len(publishing) + Len(F) + Len(batch) + Len(parseChan) + Len(Held)
  <2> DEFINE A == accepted \o publishing
             B == A \o F
             C == B \o batch
             D == C \o parseChan
  <2>1. A \in Seq(Numbers) /\ B \in Seq(Numbers) /\ C \in Seq(Numbers) /\ D \in Seq(Numbers)
    BY <1>1, ConcatProperties
  <2>2. Len(A) = Len(accepted) + Len(publishing)
    BY <1>1, ConcatProperties
  <2> HIDE DEF A
  <2>3. Len(B) = Len(A) + Len(F)
    BY <1>1, <2>1, ConcatProperties
  <2> HIDE DEF B
  <2>4. Len(C) = Len(B) + Len(batch)
    BY <1>1, <2>1, ConcatProperties
  <2> HIDE DEF C
  <2>5. Len(D) = Len(C) + Len(parseChan)
    BY <1>1, <2>1, ConcatProperties
  <2> HIDE DEF D
  <2>6. Len(D \o Held) = Len(D) + Len(Held)
    BY <1>1, <2>1, ConcatProperties
  <2>7. Len(D \o Held) = Len(accepted) + Len(publishing) + Len(F) + Len(batch)
                           + Len(parseChan) + Len(Held)
    BY <2>2, <2>3, <2>4, <2>5, <2>6
  <2> QED BY <2>7 DEF A, B, C, D
<1>3. Len(RecordsTo[line]) = Len(accepted) + Len(publishing) + Len(F) + Len(batch)
                               + Len(parseChan) + Len(Held)
  BY <1>2 DEF PInv, NothingLost, InFlight, F
<1>4. parsed + Len(Held) = Len(RecordsTo[line]) /\ taken + Len(parseChan) = parsed
  BY DEF PInv, Counted
<1>5. /\ Len(accepted) \in Nat /\ Len(publishing) \in Nat /\ Len(F) \in Nat /\ Len(batch) \in Nat
      /\ Len(parseChan) \in Nat /\ Len(Held) \in Nat /\ parsed \in Nat /\ taken \in Nat
  BY <1>1
<1>6. taken = Len(accepted) + Len(publishing) + Len(F) + Len(batch)
  BY ONLY <1>3, <1>4, <1>5
<1> QED BY <1>6 DEF F

\* A record is taken only while there is one that was not.
LEMMA ReceivesTakes ==
  ASSUME PInv, BatcherReceives
  PROVE  AsPromised!Take
<1>1. taken < Len(Records)
  <2>1. /\ parsed + Len(Held) <= Len(RecordsTo[line]) /\ taken + Len(parseChan) <= parsed
    BY DEF PInv, Counted
  <2>2. /\ parseChan \in Seq(Numbers) /\ parseChan # <<>> /\ Held \in Seq(Numbers)
        /\ taken \in Nat /\ parsed \in Nat /\ Len(file) \in Nat /\ line \in 0 .. Len(file)
    BY Shapes DEF PInv, BatcherReceives
  <2>3. Len(parseChan) \in Nat /\ Len(parseChan) >= 1 /\ Len(Held) \in Nat
    BY <2>2
  <2>4. Len(RecordsTo[line]) \in Nat /\ Len(RecordsTo[line]) <= Len(Records)
    BY <2>2, RecordsToFacts
  <2>5. Len(Records) \in Nat
    <3>1. Len(file) \in 0 .. Len(file)
      BY <2>2
    <3> QED BY <2>2, <3>1, RecordsToFacts DEF Records
  <2> QED BY <2>1, <2>2, <2>3, <2>4, <2>5
<1>2. outcome = "running"
  BY DEF PInv, Causes, BatcherReceives, Ended
<1>3. /\ taken' = taken + 1 /\ Records' = Records /\ Len(accepted)' = Len(accepted)
      /\ total' = total /\ outcome' = outcome
  BY SameFile DEF BatcherReceives, publisherVars
<1> QED BY <1>1, <1>2, <1>3 DEF AsPromised!Take

\* The broker accepts only what was taken, and each record once.
LEMMA AcceptsDelivers ==
  ASSUME PInv, Confirmed \/ ConfirmTimesOut, accepted' # accepted
  PROVE  AsPromised!Deliver
<1>1. /\ accepted' = Append(accepted, Head(publishing)) /\ publisher = "confirm"
      /\ UNCHANGED <<file, taken, total, outcome>>
  BY DEF Confirmed, ConfirmTimesOut, PublisherEndsInError, batcherVars
<1>2. publishing # <<>> /\ outcome = "running"
  BY <1>1 DEF PInv, Lifecycle, Causes, Ended
<1>3. /\ accepted \in Seq(Numbers) /\ publishing \in Seq(Numbers) /\ batch \in Seq(Numbers)
      /\ FlattenSeq(batchChan) \in Seq(Numbers)
  BY Shapes DEF PInv
<1>4. Len(accepted') = Len(accepted) + 1
  BY <1>1, <1>2, <1>3, MoveHead
<1>5. Len(accepted) < taken
  <2>1. taken = Len(accepted) + Len(publishing) + Len(FlattenSeq(batchChan)) + Len(batch)
    BY <1>1, TakenIsHeld
  <2>2. /\ {Len(accepted), Len(FlattenSeq(batchChan)), Len(batch), Len(publishing)} \subseteq Nat
        /\ Len(publishing) >= 1
    BY <1>2, <1>3
  <2> QED BY <2>1, <2>2
<1>6. Records' = Records
  BY <1>1, SameFile
<1> QED BY <1>1, <1>2, <1>4, <1>5, <1>6 DEF AsPromised!Deliver

\* The join reports a success only when the broker has every record, with their
\* number, and never a total above it.
LEMMA JoinEnds ==
  ASSUME PInv, Join
  PROVE  AsPromised!Succeed \/ AsPromised!Fail
<1>1. /\ outcome = "running" /\ Records' = Records /\ taken' = taken
      /\ Len(accepted)' = Len(accepted) /\ {parser, batcher, publisher} \subseteq Ended
      /\ outcome' = IF {parser, batcher, publisher} = {"ok"} THEN "success" ELSE "failure"
      /\ total' = IF parser = "ok" THEN parsed ELSE 0
  BY SameFile DEF Join, batcherVars, publisherVars
<1>2. /\ Len(file) \in Nat /\ line \in 0 .. Len(file) /\ parsed \in Nat
      /\ Held \in Seq(Numbers) /\ Len(Held) \in Nat
      /\ accepted \in Seq(Numbers) /\ Len(accepted) \in Nat
  BY Shapes DEF PInv
<1>3. /\ Len(RecordsTo[line]) \in Nat /\ Len(RecordsTo[line]) <= Len(Records)
  BY <1>2, RecordsToFacts
<1>4. Len(Records) \in Nat
  <2>1. Len(file) \in 0 .. Len(file)
    BY <1>2
  <2> QED BY <1>2, <2>1, RecordsToFacts DEF Records
<1>5. CASE {parser, batcher, publisher} = {"ok"}
  <2>1. parser = "ok" /\ batcher = "ok" /\ publisher = "ok"
    BY <1>5
  <2>2. /\ line = Len(file) /\ Held = <<>> /\ batch = <<>> /\ batchChan = <<>>
        /\ publishing = <<>>
    BY <2>1 DEF PInv, Lifecycle, Causes, Held, Ended
  <2>3. Len(Records) = parsed
    <3>1. parsed + Len(Held) = Len(RecordsTo[line]) /\ Len(Held) = 0
      BY <2>1, <2>2 DEF PInv, Counted
    <3> QED BY <1>2, <2>2, <3>1 DEF Records
  <2>4. taken = Len(accepted)
    <3>1. taken = Len(accepted) + Len(publishing) + Len(FlattenSeq(batchChan)) + Len(batch)
      BY <2>1, TakenIsHeld
    <3>2. Len(publishing) = 0 /\ Len(FlattenSeq(batchChan)) = 0 /\ Len(batch) = 0
      BY <2>2, FlattenEmpty
    <3> QED BY <1>2, <3>1, <3>2
  <2>5. taken = parsed
    <3>1. taken + Len(parseChan) = parsed /\ parseChan = <<>>
      BY <2>1 DEF PInv, Counted, Lifecycle
    <3>2. taken \in Nat
      BY Shapes DEF PInv
    <3> QED BY <3>1, <3>2
  <2> QED BY <1>1, <1>5, <2>1, <2>3, <2>4, <2>5 DEF AsPromised!Succeed
<1>6. CASE {parser, batcher, publisher} # {"ok"}
  <2>1. parsed <= Len(Records)
    <3>1. parsed + Len(Held) <= Len(RecordsTo[line])
      BY DEF PInv, Counted
    <3> QED BY <1>2, <1>3, <1>4, <3>1
  <2>2. total' \in 0 .. Len(Records)
    BY <1>1, <1>2, <1>4, <2>1
  <2> QED BY <1>1, <1>6, <2>2 DEF AsPromised!Fail
<1> QED BY <1>5, <1>6

\* Every step of the tasks is one of FilePipeline, or changes nothing that it knows.
LEMMA StepKeepsContract ==
  ASSUME PInv, [Next]_vars
  PROVE  [AsPromised!Next]_(AsPromised!vars)
<1>1. CASE BatcherReceives
  BY <1>1, ReceivesTakes DEF AsPromised!Next
<1>2. CASE (Confirmed \/ ConfirmTimesOut) /\ accepted' # accepted
  BY <1>2, AcceptsDelivers DEF AsPromised!Next
<1>3. CASE Join
  BY <1>3, JoinEnds DEF AsPromised!Next
<1>4. CASE ~ BatcherReceives /\ ~ ((Confirmed \/ ConfirmTimesOut) /\ accepted' # accepted) /\ ~ Join
  <2>1. UNCHANGED <<file, taken, accepted, total, outcome>>
    BY <1>4
       DEF Next, vars, ParserSteps, BatcherSteps, PublisherSteps, Environment, ParserReads,
           ParserSends, ParserFindsReceiverGone, ParserFinishes, ParserFails,
           BatcherIdles, BatcherSeesEnd, BatcherSends, BatcherFindsReceiverGone,
           BatcherFinishes, PublisherReceives, PublisherSeesEnd, Publish, Confirmed,
           PublishFails, Refused, ConfirmTimesOut, PublisherEndsInError, parserVars,
           batcherVars, publisherVars
  <2>2. Records' = Records
    BY <2>1, SameFile
  <2> QED BY <2>1, <2>2 DEF AsPromised!vars
<1> QED BY <1>1, <1>2, <1>3, <1>4

\* The tasks, their channels and the broker keep what the extraction relies on: a
\* success only when the broker has accepted every record of the file, with the exact
\* total, and never more accepted than taken or taken than there are.
THEOREM FileContractKept == Spec => KeepsFileContract
<1>1. Init => AsPromised!Init
  <2> SUFFICES ASSUME Init PROVE AsPromised!Init
    OBVIOUS
  <2>1. Len(file) \in Nat /\ Len(file) \in 0 .. Len(file)
    BY FileFacts DEF Init
  <2>2. Len(Records) \in Nat
    BY <2>1, RecordsToFacts DEF Records
  <2>3. Len(accepted) = 0
    BY DEF Init
  <2> QED BY <2>2, <2>3 DEF Init, AsPromised!Init
<1>2. PInv /\ [Next]_vars => [AsPromised!Next]_(AsPromised!vars)
  BY StepKeepsContract
<1> QED BY <1>1, <1>2, PInvAlways, PTL DEF Spec, KeepsFileContract, AsPromised!Spec

\* What a success of the file means, for as long as its tasks are looked at: the broker
\* has the records of the file, all of them in their order, and the total is theirs.
WholeFile == outcome = "success" => accepted = Records /\ total = Len(Records)

\* A file that process_musicbrainz_data takes for parsed was accepted whole.
THEOREM SuccessIsWhole == Spec => []WholeFile
<1>1. Init => WholeFile
  BY DEF Init, WholeFile
<1>2. PInv /\ WholeFile /\ [Next]_vars => WholeFile'
  <2> SUFFICES ASSUME PInv, WholeFile, [Next]_vars, outcome' = "success"
               PROVE  accepted' = Records' /\ total' = Len(Records')
    BY DEF WholeFile
  <2>1. CASE outcome = "success"
    <3>1. publisher \in Ended
      BY <2>1 DEF PInv, Causes
    <3>2. UNCHANGED <<file, accepted, total>>
      BY <2>1, <3>1
         DEF Ended, Next, vars, ParserSteps, BatcherSteps, PublisherSteps, Environment,
             ParserReads, ParserSends, ParserFindsReceiverGone, ParserFinishes,
             ParserFails, BatcherReceives, BatcherIdles, BatcherSeesEnd, BatcherSends,
             BatcherFindsReceiverGone, BatcherFinishes, PublisherReceives,
             PublisherSeesEnd, Publish, Confirmed, PublishFails, Refused,
             ConfirmTimesOut, PublisherEndsInError, Join, publisherVars
    <3> QED BY <2>1, <3>2, SameFile DEF WholeFile
  <2>2. CASE outcome # "success"
    <3>1. Join
      BY <2>2
         DEF Next, vars, ParserSteps, BatcherSteps, PublisherSteps, Environment,
             ParserReads, ParserSends, ParserFindsReceiverGone, ParserFinishes,
             ParserFails, BatcherReceives, BatcherIdles, BatcherSeesEnd, BatcherSends,
             BatcherFindsReceiverGone, BatcherFinishes, PublisherReceives,
             PublisherSeesEnd, Publish, Confirmed, PublishFails, Refused,
             ConfirmTimesOut, PublisherEndsInError
    <3>2. Len(accepted) = Len(Records) /\ total' = Len(Records)
      BY <2>2, <3>1, JoinEnds DEF AsPromised!Succeed, AsPromised!Fail
    <3>3. Records' = Records /\ accepted' = accepted
      BY <3>1, SameFile DEF Join, publisherVars
    <3>4. accepted = Records
      <4>1. accepted \in Seq(Numbers)
        BY Shapes DEF PInv
      <4>2. Records \in Seq(1 .. Len(file))
        <5>1. Len(file) \in Nat /\ Len(file) \in 0 .. Len(file)
          BY Shapes DEF PInv
        <5> QED BY <5>1, RecordsToFacts DEF Records
      <4>3. \A i \in 1 .. Len(accepted) : accepted[i] = Records[i]
        BY <3>2, <4>1, <4>2 DEF PInv, NothingLost, IsPrefix
      <4> QED BY <3>2, <4>1, <4>2, <4>3
    <3> QED BY <3>2, <3>3, <3>4
  <2> QED BY <2>1, <2>2
<1> QED BY <1>1, <1>2, PInvAlways, PTL DEF Spec
================================================================================
