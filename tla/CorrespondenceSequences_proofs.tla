--------------------- MODULE CorrespondenceSequences_proofs ---------------------
(***************************************************************************)
(* What FlattenSeq, AllMaps and ReadPositions compute, for sequences of    *)
(* any length: the facts the proofs about the recorders rest on.           *)
(***************************************************************************)
EXTENDS CorrespondenceSequences, SequenceTheorems, WellFoundedInduction, TLAPS

\* Induction over the natural numbers with a set in the place of the
\* property: the library's induction theorems take an operator.
LEMMA Least ==
    ASSUME NEW T, T \subseteq Nat, T # {}
    PROVE  \E x \in T : \A y \in T : ~(y < x)
  <1> DEFINE R == OpToRel(<, Nat)
  <1>1. IsWellFoundedOn(R, Nat)
    BY NatLessThanWellFounded
  <1> HIDE DEF R
  <1>2. \E x \in T : \A y \in T : ~ (<<y, x>> \in R)
    BY <1>1, WFMin
  <1>3. \A x, y \in Nat : y < x => <<y, x>> \in R
    BY DEF R, OpToRel
  <1> QED
    BY <1>2, <1>3

LEMMA Induct ==
    ASSUME NEW S, 0 \in S, \A n \in Nat : n \in S => n + 1 \in S
    PROVE  Nat \subseteq S
  <1> SUFFICES ASSUME Nat \ S # {} PROVE FALSE
    OBVIOUS
  <1>1. PICK x \in Nat \ S : \A y \in Nat \ S : ~(y < x)
    BY Least
  <1>2. x # 0 /\ x - 1 \in Nat
    BY <1>1
  <1>3. x - 1 \in S
    BY <1>1, <1>2
  <1> QED
    BY <1>1, <1>2, <1>3

LEMMA InductUpTo ==
    ASSUME NEW S, NEW n \in Nat, n # 0, 1 \in S,
           \A i \in 1..(n - 1) : i \in S => i + 1 \in S
    PROVE  1..n \subseteq S
  <1> DEFINE T == {m \in Nat : m + 1 \in 1..n => m + 1 \in S}
  <1>1. 0 \in T
    OBVIOUS
  <1>2. ASSUME NEW m \in Nat, m \in T PROVE m + 1 \in T
    BY <1>2
  <1> HIDE DEF T
  <1>3. Nat \subseteq T
    BY <1>1, <1>2, Induct
  <1>4. ASSUME NEW i \in 1..n PROVE i \in S
    <2>1. i - 1 \in T /\ (i - 1) + 1 = i
      BY <1>3
    <2> QED
      BY <2>1 DEF T
  <1> QED
    BY <1>4

LEMMA FunctionIsSequence ==
    ASSUME NEW S, NEW n \in Nat, NEW f \in [1..n -> S]
    PROVE  f \in Seq(S) /\ Len(f) = n /\ DOMAIN f = 1..n
  BY SeqDef

-----------------------------------------------------------------------------
(* The concatenation of the rows of a table. *)

\* The recursive function by which FlattenSeq is defined exists.
LEMMA FlattenExists ==
    ASSUME NEW rows, NEW n \in Nat
    PROVE  \E f : f = [i \in 1..n |-> IF i = 1 THEN rows[i] ELSE f[i-1] \o rows[i]]
  <1> DEFINE S == {m \in Nat : \E f : f = [i \in 1..m |-> IF i = 1 THEN rows[i] ELSE f[i-1] \o rows[i]]}
  <1>1. 0 \in S
    <2>1. <<>> = [i \in 1..0 |-> IF i = 1 THEN rows[i] ELSE <<>>[i-1] \o rows[i]]
      OBVIOUS
    <2> QED
      BY <2>1
  <1>2. ASSUME NEW m \in Nat, m \in S PROVE m + 1 \in S
    <2>1. PICK f : f = [i \in 1..m |-> IF i = 1 THEN rows[i] ELSE f[i-1] \o rows[i]]
      BY <1>2
    <2>4. ASSUME NEW i \in 1..m PROVE f[i] = IF i = 1 THEN rows[i] ELSE f[i-1] \o rows[i]
      BY <2>1, Zenon
    <2> DEFINE g == [i \in 1..(m + 1) |-> IF i <= m THEN f[i]
                                          ELSE IF i = 1 THEN rows[i] ELSE f[m] \o rows[i]]
    <2>2. ASSUME NEW i \in 1..(m + 1)
          PROVE  g[i] = IF i = 1 THEN rows[i] ELSE g[i-1] \o rows[i]
      <3>1. CASE i <= m
        <4>1. g[i] = IF i = 1 THEN rows[i] ELSE f[i-1] \o rows[i]
          BY <2>4, <3>1
        <4>2. i # 1 => g[i-1] = f[i-1]
          BY <3>1
        <4> QED
          BY <4>1, <4>2
      <3>2. CASE ~(i <= m)
        <4>1. i = m + 1
          BY <3>2
        <4>2. i # 1 => g[m] = f[m]
          BY <4>1
        <4> QED
          BY <4>1, <4>2
      <3> QED
        BY <3>1, <3>2
    <2>3. g = [i \in 1..(m + 1) |-> IF i = 1 THEN rows[i] ELSE g[i-1] \o rows[i]]
      <3> DEFINE h == [i \in 1..(m + 1) |-> IF i = 1 THEN rows[i] ELSE g[i-1] \o rows[i]]
      <3>1. \A i \in 1..(m + 1) : h[i] = g[i]
        BY <2>2
      <3>2. h = [i \in 1..(m + 1) |-> h[i]] /\ g = [i \in 1..(m + 1) |-> g[i]]
        OBVIOUS
      <3> HIDE DEF g, h
      <3>3. g = h
        BY <3>1, <3>2
      <3> QED
        BY <3>3 DEF h
    <2> HIDE DEF g
    <2>5. \E h : h = [i \in 1..(m + 1) |-> IF i = 1 THEN rows[i] ELSE h[i-1] \o rows[i]]
      BY <2>3, Zenon
    <2>6. m + 1 \in Nat
      OBVIOUS
    <2> QED
      BY <2>5, <2>6, Zenon
  <1> HIDE DEF S
  <1>3. Nat \subseteq S
    BY <1>1, <1>2, Induct
  <1> QED
    BY <1>3 DEF S

\* f holds the concatenations of the first rows of a table of n.
Partial(f, n, rows, S) ==
    /\ n \in Nat \ {0}
    /\ rows \in [1..n -> Seq(S)]
    /\ f \in [1..n -> Seq(S)]
    /\ f[1] = rows[1]
    /\ \A i \in 1..(n - 1) : f[i + 1] = f[i] \o rows[i + 1]
    /\ FlattenSeq(rows) = f[n]

LEMMA FlattenSteps ==
    ASSUME NEW S, NEW n \in Nat, n # 0, NEW rows \in [1..n -> Seq(S)]
    PROVE  \E f : Partial(f, n, rows, S)
  <1>1. Len(rows) = n
    BY FunctionIsSequence
  <1> DEFINE Equation(f) == f = [i \in 1..n |-> IF i = 1 THEN rows[i] ELSE f[i-1] \o rows[i]]
             f == CHOOSE f : Equation(f)
  <1>2. Equation(f)
    BY FlattenExists
  <1>3. FlattenSeq(rows) = f[n]
    BY <1>1 DEF FlattenSeq
  <1> HIDE DEF f
  <1>4. f[1] = rows[1]
    BY <1>2
  <1>5. ASSUME NEW i \in 1..(n - 1) PROVE f[i + 1] = f[i] \o rows[i + 1]
    <2>1. i + 1 \in 1..n /\ i + 1 # 1 /\ (i + 1) - 1 = i
      OBVIOUS
    <2>2. f[i + 1] = IF i + 1 = 1 THEN rows[i + 1] ELSE f[(i + 1) - 1] \o rows[i + 1]
      BY <1>2, <2>1, Zenon
    <2> QED
      BY <2>1, <2>2
  <1>6. \A i \in 1..n : f[i] \in Seq(S)
    <2> DEFINE T == {i \in 1..n : f[i] \in Seq(S)}
    <2>1. 1 \in T
      BY <1>4
    <2>2. ASSUME NEW i \in 1..(n - 1), i \in T PROVE i + 1 \in T
      <3>1. i + 1 \in 1..n /\ rows[i + 1] \in Seq(S) /\ f[i] \in Seq(S)
        BY <2>2
      <3>2. f[i] \o rows[i + 1] \in Seq(S)
        BY <3>1, ConcatProperties
      <3> QED
        BY <1>5, <3>1, <3>2
    <2> HIDE DEF T
    <2>3. 1..n \subseteq T
      BY <2>1, <2>2, InductUpTo
    <2> QED
      BY <2>3 DEF T
  <1>7. f \in [1..n -> Seq(S)]
    BY <1>2, <1>6
  <1> QED
    BY <1>3, <1>4, <1>5, <1>7 DEF Partial

LEMMA PartialEnds ==
    ASSUME NEW S, NEW n, NEW rows, NEW f, Partial(f, n, rows, S)
    PROVE  /\ f[1] = rows[1]
           /\ rows[1] \in Seq(S)
           /\ FlattenSeq(rows) = f[n]
           /\ f[n] \in Seq(S)
           /\ 1 \in 1..n /\ n \in 1..n
  BY DEF Partial

\* c is the concatenation of a and b, element by element.
Joins(c, a, b, S) ==
    /\ a \in Seq(S) /\ b \in Seq(S)
    /\ c = a \o b
    /\ Len(a) \in Nat /\ Len(b) \in Nat
    /\ Len(c) = Len(a) + Len(b)
    /\ \A k \in 1..(Len(a) + Len(b)) : c[k] = IF k <= Len(a) THEN a[k] ELSE b[k - Len(a)]

LEMMA JoinsConcat ==
    ASSUME NEW S, NEW a \in Seq(S), NEW b \in Seq(S)
    PROVE  Joins(a \o b, a, b, S)
  <1>1. /\ Len(a \o b) = Len(a) + Len(b)
        /\ \A k \in 1..(Len(a) + Len(b)) : (a \o b)[k] = IF k <= Len(a) THEN a[k] ELSE b[k - Len(a)]
    BY ConcatProperties
  <1>2. Len(a) \in Nat /\ Len(b) \in Nat
    BY LenProperties
  <1> QED
    BY <1>1, <1>2 DEF Joins

LEMMA PartialStep ==
    ASSUME NEW S, NEW n, NEW rows, NEW f, Partial(f, n, rows, S), NEW i \in 1..(n - 1)
    PROVE  /\ i \in 1..n /\ i + 1 \in 1..n
           /\ Joins(f[i + 1], f[i], rows[i + 1], S)
  <1>1. i \in 1..n /\ i + 1 \in 1..n
    BY DEF Partial
  <1>2. f[i] \in Seq(S) /\ rows[i + 1] \in Seq(S) /\ f[i + 1] = f[i] \o rows[i + 1]
    BY <1>1 DEF Partial
  <1>3. Joins(f[i] \o rows[i + 1], f[i], rows[i + 1], S)
    BY <1>2, JoinsConcat
  <1> QED
    BY <1>1, <1>2, <1>3

LEMMA FlattenEmpty ==
    ASSUME NEW rows, DOMAIN rows = 1..0, rows = [i \in 1..0 |-> rows[i]]
    PROVE  FlattenSeq(rows) = <<>>
  <1>1. rows = <<>>
    OBVIOUS
  <1> QED
    BY <1>1 DEF FlattenSeq

LEMMA FlattenNone ==
    ASSUME NEW S, NEW rows \in [1..0 -> S]
    PROVE  FlattenSeq(rows) = <<>>
  BY FlattenEmpty

\* The rows of a table begin, in their concatenation, behind the offsets.
Offsets(offset, rows, n, S) ==
    /\ n \in Nat
    /\ rows \in [1..n -> Seq(S)]
    /\ offset \in [1..(n + 1) -> Int]
    /\ offset[1] = 0
    /\ \A s \in 1..n : offset[s + 1] = offset[s] + Len(rows[s])

LaidOut(flat, offset, rows, n, S) ==
    /\ flat \in Seq(S)
    /\ Len(flat) = offset[n + 1]
    /\ \A s \in 1..n : \A t \in 1..Len(rows[s]) :
          /\ offset[s] + t \in 1..offset[n + 1]
          /\ flat[offset[s] + t] = rows[s][t]

LEMMA FlattenIndex ==
    ASSUME NEW S, NEW n, NEW rows, NEW offset, Offsets(offset, rows, n, S)
    PROVE  LaidOut(FlattenSeq(rows), offset, rows, n, S)
  <1> USE DEF LaidOut
  <1>0. /\ n \in Nat /\ rows \in [1..n -> Seq(S)]
        /\ offset \in [1..(n + 1) -> Int] /\ offset[1] = 0
        /\ \A s \in 1..n : offset[s + 1] = offset[s] + Len(rows[s])
    BY DEF Offsets
  <1>1. CASE n = 0
    <2>1. FlattenSeq(rows) = <<>>
      BY <1>0, <1>1, FlattenNone
    <2>2. <<>> \in Seq(S) /\ Len(<<>>) = 0
      BY EmptySeq
    <2> QED
      BY <1>0, <1>1, <2>1, <2>2
  <1>2. CASE n # 0
    <2>1. PICK f : Partial(f, n, rows, S)
      BY <1>0, <1>2, FlattenSteps
    <2>e. /\ f[1] = rows[1] /\ rows[1] \in Seq(S) /\ FlattenSeq(rows) = f[n]
          /\ f[n] \in Seq(S) /\ 1 \in 1..n /\ n \in 1..n
      BY <1>0, <2>1, PartialEnds
    <2> DEFINE Good(i) == /\ Len(f[i]) = offset[i + 1]
                          /\ \A s \in 1..i : \A t \in 1..Len(rows[s]) :
                                /\ offset[s] + t \in 1..offset[i + 1]
                                /\ f[i][offset[s] + t] = rows[s][t]
               T == {i \in 1..n : Good(i)}
    <2>2. 1 \in T
      <3>1. offset[2] = Len(rows[1]) /\ Len(rows[1]) \in Nat
        BY <1>0, <2>e, LenProperties
      <3>2. \A s \in 1..1 : s = 1
        BY <1>0
      <3>3. ASSUME NEW t \in 1..Len(rows[1])
            PROVE  0 + t \in 1..offset[2] /\ f[1][0 + t] = rows[1][t]
        BY <1>0, <2>e, <3>1
      <3> QED
        BY <1>0, <2>e, <3>1, <3>2, <3>3
    <2>3. ASSUME NEW i \in 1..(n - 1), i \in T PROVE i + 1 \in T
      <3>1. Good(i)
        BY <1>0, <2>3
      <3> DEFINE a == Len(f[i])
                 b == Len(rows[i + 1])
      <3>2. /\ i \in 1..n /\ i + 1 \in 1..n /\ a \in Nat /\ b \in Nat
            /\ Len(f[i + 1]) = a + b
            /\ \A k \in 1..(a + b) :
                  f[i + 1][k] = IF k <= a THEN f[i][k] ELSE rows[i + 1][k - a]
        <4>1. i \in 1..n /\ i + 1 \in 1..n /\ Joins(f[i + 1], f[i], rows[i + 1], S)
          BY <1>0, <2>1, PartialStep
        <4> QED
          BY <1>0, <4>1 DEF Joins
      <3>3. a = offset[i + 1]
        BY <1>0, <3>1
      <3>4. offset[i + 2] = a + b
        <4>1. (i + 1) + 1 = i + 2
          BY <1>0
        <4> QED
          BY <1>0, <3>2, <3>3, <4>1
      <3>5. \A s \in 1..i : \A t \in 1..Len(rows[s]) :
                /\ offset[s] + t \in 1..a
                /\ f[i][offset[s] + t] = rows[s][t]
        BY <1>0, <3>1, <3>3
      <3> HIDE DEF a, b
      <3>7. ASSUME NEW s \in 1..(i + 1), NEW t \in 1..Len(rows[s])
            PROVE  /\ offset[s] + t \in 1..offset[i + 2]
                   /\ f[i + 1][offset[s] + t] = rows[s][t]
        <4>1. CASE s = i + 1
          <5>1. t \in 1..b
            BY <1>0, <4>1 DEF b
          <5>2. a + t \in 1..(a + b) /\ ~(a + t <= a) /\ (a + t) - a = t
            BY <3>2, <5>1
          <5>3. f[i + 1][a + t] = rows[i + 1][t]
            BY <1>0, <3>2, <5>2
          <5> QED
            BY <1>0, <3>3, <3>4, <4>1, <5>2, <5>3
        <4>2. CASE s # i + 1
          <5>1. s \in 1..i
            BY <1>0, <4>2
          <5>2. offset[s] + t \in 1..a /\ f[i][offset[s] + t] = rows[s][t]
            BY <1>0, <3>5, <5>1
          <5> DEFINE k == offset[s] + t
          <5> HIDE DEF k
          <5>3. k \in 1..a /\ f[i][k] = rows[s][t]
            BY <1>0, <5>2 DEF k
          <5>4. k \in 1..(a + b) /\ k <= a
            BY <1>0, <3>2, <5>3
          <5>5. f[i + 1][k] = rows[s][t]
            BY <1>0, <3>2, <5>3, <5>4
          <5> QED
            BY <1>0, <3>4, <5>4, <5>5 DEF k
        <4> QED
          BY <1>0, <4>1, <4>2
      <3>8. Len(f[i + 1]) = offset[i + 2] /\ (i + 1) + 1 = i + 2
        BY <1>0, <3>2, <3>4
      <3> QED
        BY <1>0, <3>2, <3>7, <3>8
    <2> HIDE DEF T
    <2>4. 1..n \subseteq T
      BY <1>0, <1>2, <2>2, <2>3, InductUpTo
    <2>5. Good(n)
      BY <1>0, <2>4, <2>e DEF T
    <2> QED
      BY <1>0, <2>e, <2>5
  <1> QED
    BY <1>0, <1>1, <1>2

\* The first row can be taken off.
LEMMA FlattenCons ==
    ASSUME NEW S, NEW n \in Nat, NEW rows \in [1..(n + 1) -> Seq(S)],
           NEW rest \in [1..n -> Seq(S)],
           \A i \in 1..n : rest[i] = rows[i + 1]
    PROVE  FlattenSeq(rows) = rows[1] \o FlattenSeq(rest)
  <1>1. PICK f : Partial(f, n + 1, rows, S)
    BY FlattenSteps
  <1>2. /\ f[1] = rows[1] /\ rows[1] \in Seq(S) /\ FlattenSeq(rows) = f[n + 1]
    BY <1>1, PartialEnds
  <1>3. CASE n = 0
    <2>1. FlattenSeq(rest) = <<>>
      BY <1>3, FlattenNone
    <2>2. rows[1] \o <<>> = rows[1]
      BY <1>2, ConcatEmptySeq
    <2> QED
      BY <1>2, <1>3, <2>1, <2>2
  <1>4. CASE n # 0
    <2>1. PICK g : Partial(g, n, rest, S)
      BY <1>4, FlattenSteps
    <2>2. g[1] = rest[1] /\ FlattenSeq(rest) = g[n] /\ 1 \in 1..n /\ n \in 1..n
      BY <2>1, PartialEnds
    <2> DEFINE T == {i \in 1..n : f[i + 1] = rows[1] \o g[i]}
    <2>3. ASSUME NEW i \in 1..n PROVE f[i + 1] = f[i] \o rest[i]
      <3>1. i \in 1..((n + 1) - 1) /\ n + 1 # 0 /\ n + 1 \in Nat
        OBVIOUS
      <3>2. f[i + 1] = f[i] \o rows[i + 1]
        <4>1. i \in 1..(n + 1) /\ Joins(f[i + 1], f[i], rows[i + 1], S)
          BY <1>1, <3>1, PartialStep
        <4> QED
          BY <4>1 DEF Joins
      <3> QED
        BY <3>2
    <2>4. 1 \in T
      BY <1>2, <2>2, <2>3
    <2>5. ASSUME NEW i \in 1..(n - 1), i \in T PROVE i + 1 \in T
      <3>1. f[i + 1] = rows[1] \o g[i]
        BY <2>5
      <3>2. /\ i \in 1..n /\ i + 1 \in 1..n
            /\ g[i] \in Seq(S) /\ rest[i + 1] \in Seq(S)
            /\ g[i + 1] = g[i] \o rest[i + 1]
        <4>1. i \in 1..n /\ i + 1 \in 1..n /\ Joins(g[i + 1], g[i], rest[i + 1], S)
          BY <2>1, PartialStep
        <4> QED
          BY <4>1 DEF Joins
      <3>3. f[(i + 1) + 1] = f[i + 1] \o rest[i + 1]
        BY <2>3, <3>2
      <3> DEFINE x == rows[1]
                 y == g[i]
                 z == rest[i + 1]
      <3>4. x \in Seq(S) /\ y \in Seq(S) /\ z \in Seq(S)
        BY <1>2, <3>2
      <3> HIDE DEF x, y, z
      <3>5. (x \o y) \o z = x \o (y \o z)
        BY ONLY <3>4, ConcatAssociative
      <3>6. f[(i + 1) + 1] = rows[1] \o g[i + 1]
        BY <3>1, <3>2, <3>3, <3>5 DEF x, y, z
      <3> QED
        BY <3>2, <3>6
    <2> HIDE DEF T
    <2>6. 1..n \subseteq T
      BY <1>4, <2>4, <2>5, InductUpTo
    <2>7. f[n + 1] = rows[1] \o g[n]
      BY <2>2, <2>6 DEF T
    <2> QED
      BY <1>2, <2>2, <2>7
  <1> QED
    BY <1>3, <1>4

\* Sequences, or tables row by row, of the same length with related elements.
Related(s1, s2, R) ==
    /\ Len(s1) = Len(s2)
    /\ \A k \in 1..Len(s1) : <<s1[k], s2[k]>> \in R

RelatedRows(rows1, rows2, R, n, S1, S2) ==
    /\ n \in Nat
    /\ rows1 \in [1..n -> Seq(S1)]
    /\ rows2 \in [1..n -> Seq(S2)]
    /\ \A s \in 1..n : Related(rows1[s], rows2[s], R)

LEMMA FlattenRelated ==
    ASSUME NEW S1, NEW S2, NEW R, NEW n, NEW rows1, NEW rows2,
           RelatedRows(rows1, rows2, R, n, S1, S2)
    PROVE  /\ FlattenSeq(rows1) \in Seq(S1)
           /\ FlattenSeq(rows2) \in Seq(S2)
           /\ Related(FlattenSeq(rows1), FlattenSeq(rows2), R)
  <1> USE DEF Related
  <1>0. /\ n \in Nat /\ rows1 \in [1..n -> Seq(S1)] /\ rows2 \in [1..n -> Seq(S2)]
        /\ \A s \in 1..n : /\ Len(rows1[s]) = Len(rows2[s])
                           /\ \A t \in 1..Len(rows1[s]) : <<rows1[s][t], rows2[s][t]>> \in R
    BY DEF RelatedRows
  <1>1. CASE n = 0
    <2>1. FlattenSeq(rows1) = <<>> /\ FlattenSeq(rows2) = <<>>
      BY <1>0, <1>1, FlattenNone
    <2>2. <<>> \in Seq(S1) /\ <<>> \in Seq(S2) /\ Len(<<>>) = 0
      BY EmptySeq
    <2> QED
      BY <1>0, <2>1, <2>2
  <1>2. CASE n # 0
    <2>1. PICK f : Partial(f, n, rows1, S1)
      BY <1>0, <1>2, FlattenSteps
    <2>2. PICK g : Partial(g, n, rows2, S2)
      BY <1>0, <1>2, FlattenSteps
    <2>e. /\ f[1] = rows1[1] /\ FlattenSeq(rows1) = f[n] /\ f[n] \in Seq(S1)
          /\ 1 \in 1..n /\ n \in 1..n
      BY <1>0, <2>1, PartialEnds
    <2>g. g[1] = rows2[1] /\ FlattenSeq(rows2) = g[n] /\ g[n] \in Seq(S2)
      BY <1>0, <2>2, PartialEnds
    <2> DEFINE Good(i) == /\ Len(f[i]) = Len(g[i])
                          /\ \A k \in 1..Len(f[i]) : <<f[i][k], g[i][k]>> \in R
               T == {i \in 1..n : Good(i)}
    <2>3. 1 \in T
      BY <1>0, <2>e, <2>g
    <2>4. ASSUME NEW i \in 1..(n - 1), i \in T PROVE i + 1 \in T
      <3>1. Good(i)
        BY <1>0, <2>4
      <3> DEFINE a == Len(f[i])
                 b == Len(rows1[i + 1])
      <3>2. /\ i \in 1..n /\ i + 1 \in 1..n /\ a \in Nat /\ b \in Nat
            /\ Len(f[i + 1]) = a + b
            /\ \A k \in 1..(a + b) :
                  f[i + 1][k] = IF k <= a THEN f[i][k] ELSE rows1[i + 1][k - a]
        <4>1. i \in 1..n /\ i + 1 \in 1..n /\ Joins(f[i + 1], f[i], rows1[i + 1], S1)
          BY <1>0, <2>1, PartialStep
        <4> QED
          BY <1>0, <4>1 DEF Joins
      <3>3. /\ Len(g[i + 1]) = Len(g[i]) + Len(rows2[i + 1])
            /\ \A k \in 1..(Len(g[i]) + Len(rows2[i + 1])) :
                  g[i + 1][k] = IF k <= Len(g[i]) THEN g[i][k] ELSE rows2[i + 1][k - Len(g[i])]
        <4>1. i \in 1..n /\ i + 1 \in 1..n /\ Joins(g[i + 1], g[i], rows2[i + 1], S2)
          BY <1>0, <2>2, PartialStep
        <4> QED
          BY <1>0, <4>1 DEF Joins
      <3>4. Len(g[i]) = a /\ Len(rows2[i + 1]) = b
        BY <1>0, <3>1, <3>2
      <3>5. /\ Len(g[i + 1]) = a + b
            /\ \A k \in 1..(a + b) :
                  g[i + 1][k] = IF k <= a THEN g[i][k] ELSE rows2[i + 1][k - a]
        BY <1>0, <3>3, <3>4, Zenon
      <3>6. \A k \in 1..a : <<f[i][k], g[i][k]>> \in R
        BY <1>0, <3>1
      <3>7. \A k \in 1..b : <<rows1[i + 1][k], rows2[i + 1][k]>> \in R
        BY <1>0, <3>2
      <3> HIDE DEF a, b
      <3>8. ASSUME NEW k \in 1..(a + b) PROVE <<f[i + 1][k], g[i + 1][k]>> \in R
        <4>1. CASE k <= a
          <5>1. k \in 1..a
            BY <1>0, <3>2, <4>1
          <5>2. f[i + 1][k] = f[i][k] /\ g[i + 1][k] = g[i][k]
            BY <1>0, <3>2, <3>5, <4>1
          <5> QED
            BY <1>0, <3>6, <5>1, <5>2
        <4>2. CASE ~(k <= a)
          <5>1. k - a \in 1..b
            BY <1>0, <3>2, <4>2
          <5>2. f[i + 1][k] = rows1[i + 1][k - a] /\ g[i + 1][k] = rows2[i + 1][k - a]
            BY <1>0, <3>2, <3>5, <4>2
          <5> QED
            BY <1>0, <3>7, <5>1, <5>2
        <4> QED
          BY <1>0, <4>1, <4>2
      <3> QED
        BY <1>0, <3>2, <3>5, <3>8
    <2> HIDE DEF T
    <2>5. 1..n \subseteq T
      BY <1>0, <1>2, <2>3, <2>4, InductUpTo
    <2>6. Good(n)
      BY <1>0, <2>e, <2>5 DEF T
    <2> QED
      BY <1>0, <2>e, <2>g, <2>6
  <1> QED
    BY <1>0, <1>1, <1>2

-----------------------------------------------------------------------------
(* The order of the maps. *)

LEMMA MapsFromFacts ==
    ASSUME NEW I, NEW images \in Seq(I), NEW source \in 1..Len(images)
    PROVE  /\ MapsFrom(images, source) \in Seq(I \X I)
           /\ Len(MapsFrom(images, source)) = Len(images) - source
           /\ \A step \in 1..(Len(images) - source) :
                 /\ source + step \in 1..Len(images)
                 /\ MapsFrom(images, source)[step] = <<images[source], images[source + step]>>
  <1>1. Len(images) \in Nat
    BY LenProperties
  <1> DEFINE n == Len(images)
             f == [step \in 1..(n - source) |-> <<images[source], images[source + step]>>]
  <1>2. ASSUME NEW step \in 1..(n - source)
        PROVE  source + step \in 1..n /\ <<images[source], images[source + step]>> \in I \X I
    <2>1. source + step \in 1..n
      BY <1>1
    <2>2. images[source] \in I /\ images[source + step] \in I
      BY <2>1, ElementOfSeq
    <2> QED
      BY <2>1, <2>2
  <1>3. n - source \in Nat /\ f \in [1..(n - source) -> I \X I]
    BY <1>1, <1>2
  <1>4. f = MapsFrom(images, source)
    BY DEF MapsFrom
  <1>5. \A step \in 1..(n - source) : f[step] = <<images[source], images[source + step]>>
    OBVIOUS
  <1> HIDE DEF f, n
  <1>6. f \in Seq(I \X I) /\ Len(f) = n - source
    BY <1>3, FunctionIsSequence
  <1> QED
    BY <1>2, <1>4, <1>5, <1>6 DEF n

RowsOf(images) == [source \in 1..Len(images) |-> MapsFrom(images, source)]

LEMMA RowsFacts ==
    ASSUME NEW I, NEW images \in Seq(I)
    PROVE  /\ Len(images) \in Nat
           /\ RowsOf(images) \in [1..Len(images) -> Seq(I \X I)]
           /\ \A source \in 1..Len(images) :
                 /\ RowsOf(images)[source] = MapsFrom(images, source)
                 /\ Len(RowsOf(images)[source]) = Len(images) - source
           /\ AllMaps(images) = FlattenSeq(RowsOf(images))
  <1>1. Len(images) \in Nat
    BY LenProperties
  <1>2. \A source \in 1..Len(images) : MapsFrom(images, source) \in Seq(I \X I)
    BY MapsFromFacts
  <1>3. \A source \in 1..Len(images) : Len(MapsFrom(images, source)) = Len(images) - source
    BY MapsFromFacts
  <1>4. RowsOf(images) \in [1..Len(images) -> Seq(I \X I)]
    BY <1>2 DEF RowsOf
  <1>5. \A source \in 1..Len(images) : RowsOf(images)[source] = MapsFrom(images, source)
    BY DEF RowsOf
  <1>6. AllMaps(images) = FlattenSeq(RowsOf(images))
    BY DEF AllMaps, RowsOf
  <1> QED
    BY <1>1, <1>3, <1>4, <1>5, <1>6

LEMMA HalfOfNextProduct ==
    ASSUME NEW s \in Nat
    PROVE  /\ ((s + 1) * s) \div 2 = (s * (s - 1)) \div 2 + s
           /\ (s * (s - 1)) \div 2 \in Int
  <1> DEFINE a == s * (s - 1)
  <1>1. a \in Int /\ (s + 1) * s = a + 2 * s
    OBVIOUS
  <1> HIDE DEF a
  <1>2. (a + 2 * s) \div 2 = a \div 2 + s /\ a \div 2 \in Int
    BY <1>1
  <1> QED
    BY <1>1, <1>2 DEF a

\* The sequence of all maps and where the map between two images is in it.
LEMMA AllMapsIndex ==
    ASSUME NEW I, NEW images \in Seq(I), NEW kept \in Nat, NEW skipped \in Nat,
           Len(images) = kept + skipped
    PROVE  /\ AllMaps(images) \in Seq(I \X I)
           /\ Len(AllMaps(images)) = Len(images) * Len(images)
                                        - ((Len(images) + 1) * Len(images)) \div 2
           /\ \A s \in 1..Len(images) : \A t \in 1..(Len(images) - s) :
                 /\ Start(kept, skipped, s) + t \in 1..Len(AllMaps(images))
                 /\ AllMaps(images)[Start(kept, skipped, s) + t] = <<images[s], images[s + t]>>
  <1> DEFINE n == Len(images)
             rows == RowsOf(images)
             offset == [s \in 1..(n + 1) |-> Start(kept, skipped, s)]
  <1>1. /\ n \in Nat /\ rows \in [1..n -> Seq(I \X I)]
        /\ \A s \in 1..n : rows[s] = MapsFrom(images, s) /\ Len(rows[s]) = n - s
        /\ AllMaps(images) = FlattenSeq(rows)
    BY RowsFacts
  <1> HIDE DEF rows
  <1>2. n = kept + skipped
    OBVIOUS
  <1>3. \A s \in 1..n : \A t \in 1..(n - s) : MapsFrom(images, s)[t] = <<images[s], images[s + t]>>
    BY MapsFromFacts
  <1> HIDE DEF n
  <1>4. \A s \in 1..(n + 1) : Start(kept, skipped, s) = (s - 1) * n - (s * (s - 1)) \div 2
    BY <1>2 DEF Start
  <1>5. ASSUME NEW s \in 1..(n + 1) PROVE Start(kept, skipped, s) \in Int
    <2>1. (s * (s - 1)) \div 2 \in Int /\ (s - 1) * n \in Int
      BY <1>1, HalfOfNextProduct
    <2> QED
      BY <1>4, <2>1
  <1>6. offset \in [1..(n + 1) -> Int]
    BY <1>5
  <1>7. offset[1] = 0
    <2>1. (1 - 1) * n = 0 /\ (1 * (1 - 1)) \div 2 = 0 /\ 1 \in 1..(n + 1)
      BY <1>1
    <2> QED
      BY <1>4, <2>1
  <1>8. ASSUME NEW s \in 1..n PROVE offset[s + 1] = offset[s] + Len(rows[s])
    <2>1. s \in Nat /\ s \in 1..(n + 1) /\ s + 1 \in 1..(n + 1)
      BY <1>1
    <2> DEFINE h == (s * (s - 1)) \div 2
    <2>2. h \in Int /\ ((s + 1) * s) \div 2 = h + s
      BY <2>1, HalfOfNextProduct
    <2>3. offset[s] = (s - 1) * n - h
      BY <1>4, <2>1
    <2>4. offset[s + 1] = ((s + 1) - 1) * n - ((s + 1) * ((s + 1) - 1)) \div 2
      BY <1>4, <2>1
    <2>5. (s + 1) - 1 = s
      OBVIOUS
    <2>6. offset[s + 1] = s * n - (h + s)
      BY <2>2, <2>4, <2>5
    <2>7. s * n = (s - 1) * n + n
      BY <1>1, <2>1
    <2>8. (s - 1) * n \in Int
      BY <1>1, <2>1
    <2> HIDE DEF h, offset
    <2>9. Len(rows[s]) = n - s
      BY <1>1
    <2> QED
      BY <1>1, <2>1, <2>2, <2>3, <2>6, <2>7, <2>8, <2>9
  <1>9. \A s \in 1..(n + 1) : offset[s] = Start(kept, skipped, s)
    OBVIOUS
  <1> HIDE DEF offset
  <1>10. /\ FlattenSeq(rows) \in Seq(I \X I)
         /\ Len(FlattenSeq(rows)) = offset[n + 1]
         /\ \A s \in 1..n : \A t \in 1..Len(rows[s]) :
               /\ offset[s] + t \in 1..offset[n + 1]
               /\ FlattenSeq(rows)[offset[s] + t] = rows[s][t]
    <2>1. Offsets(offset, rows, n, I \X I)
      BY <1>1, <1>6, <1>7, <1>8 DEF Offsets
    <2>2. LaidOut(FlattenSeq(rows), offset, rows, n, I \X I)
      BY <2>1, FlattenIndex
    <2> QED
      BY <2>2 DEF LaidOut
  <1>11. offset[n + 1] = n * n - ((n + 1) * n) \div 2
    <2>1. n + 1 \in 1..(n + 1) /\ (n + 1) - 1 = n
      BY <1>1
    <2> QED
      BY <1>4, <1>9, <2>1
  <1>12. ASSUME NEW s \in 1..n, NEW t \in 1..(n - s)
         PROVE  /\ Start(kept, skipped, s) + t \in 1..Len(AllMaps(images))
                /\ AllMaps(images)[Start(kept, skipped, s) + t] = <<images[s], images[s + t]>>
    <2>1. t \in 1..Len(rows[s]) /\ rows[s][t] = <<images[s], images[s + t]>>
      BY <1>1, <1>3
    <2>2. offset[s] = Start(kept, skipped, s)
      BY <1>1, <1>9
    <2> QED
      BY <1>1, <1>10, <2>1, <2>2
  <1> QED
    BY <1>1, <1>10, <1>11, <1>12 DEF n

\* What the nested loops read are the maps between the images they keep.
LEMMA ReadPositionsKeep ==
    ASSUME NEW I, NEW images \in Seq(I), NEW kept \in Nat, NEW skipped \in Nat,
           Len(images) = kept + skipped
    PROVE  MapsAt(AllMaps(images), ReadPositions(kept, skipped)) = AllMaps(SubSeq(images, 1, kept))
  <1> DEFINE keptImages == SubSeq(images, 1, kept)
             maps == AllMaps(images)
             R == {pair \in Int \X (I \X I) : pair[1] \in 1..Len(maps) /\ maps[pair[1]] = pair[2]}
             positions == [source \in 1..kept |->
                             [step \in 1..(kept - source) |-> Start(kept, skipped, source) + step]]
             rows == RowsOf(keptImages)
  <1>1. /\ keptImages \in Seq(I) /\ Len(keptImages) = kept
        /\ \A i \in 1..kept : keptImages[i] = images[i]
    <2>1. \A i \in 1..kept : images[i] \in I
      BY ElementOfSeq
    <2>2. /\ keptImages \in Seq(I)
          /\ Len(keptImages) = IF 1 <= kept THEN kept - 1 + 1 ELSE 0
          /\ \A i \in 1..(kept - 1 + 1) : keptImages[i] = images[1 + i - 1]
      BY <2>1, SubSeqProperties
    <2> QED
      BY <2>2
  <1>2. /\ maps \in Seq(I \X I)
        /\ \A s \in 1..Len(images) : \A t \in 1..(Len(images) - s) :
              /\ Start(kept, skipped, s) + t \in 1..Len(maps)
              /\ maps[Start(kept, skipped, s) + t] = <<images[s], images[s + t]>>
    BY AllMapsIndex
  <1>3. /\ rows \in [1..kept -> Seq(I \X I)]
        /\ \A s \in 1..kept : rows[s] = MapsFrom(keptImages, s) /\ Len(rows[s]) = kept - s
        /\ AllMaps(keptImages) = FlattenSeq(rows)
    BY <1>1, RowsFacts
  <1>4. \A s \in 1..kept : \A t \in 1..(kept - s) :
           MapsFrom(keptImages, s)[t] = <<keptImages[s], keptImages[s + t]>>
    <2> DEFINE images2 == keptImages
    <2>1. images2 \in Seq(I) /\ Len(images2) = kept
      BY <1>1
    <2> HIDE DEF images2
    <2>2. ASSUME NEW s \in 1..kept, NEW t \in 1..(kept - s)
          PROVE  MapsFrom(images2, s)[t] = <<images2[s], images2[s + t]>>
      BY <2>1, MapsFromFacts
    <2> QED
      BY <2>2 DEF images2
  <1>5. ReadPositions(kept, skipped) = FlattenSeq(positions)
    BY DEF ReadPositions
  <1> HIDE DEF keptImages, maps, rows
  <1>6. ASSUME NEW s \in 1..kept
        PROVE  /\ positions[s] \in Seq(Int) /\ Len(positions[s]) = kept - s
               /\ \A t \in 1..(kept - s) :
                     /\ positions[s][t] = Start(kept, skipped, s) + t
                     /\ positions[s][t] \in 1..Len(maps)
                     /\ maps[positions[s][t]] = <<images[s], images[s + t]>>
    <2> DEFINE row == [step \in 1..(kept - s) |-> Start(kept, skipped, s) + step]
    <2>1. s \in 1..Len(images) /\ \A t \in 1..(kept - s) : t \in 1..(Len(images) - s)
      OBVIOUS
    <2>2. ASSUME NEW t \in 1..(kept - s)
          PROVE  /\ row[t] = Start(kept, skipped, s) + t
                 /\ row[t] \in 1..Len(maps) /\ maps[row[t]] = <<images[s], images[s + t]>>
      BY <1>2, <2>1
    <2>3. kept - s \in Nat /\ row \in [1..(kept - s) -> Int]
      <3>1. \A t \in 1..(kept - s) : Start(kept, skipped, s) + t \in Int
        BY <2>2
      <3> QED
        BY <3>1
    <2>4. positions[s] = row
      OBVIOUS
    <2> HIDE DEF row, positions
    <2>5. row \in Seq(Int) /\ Len(row) = kept - s
      BY <2>3, FunctionIsSequence
    <2> QED
      BY <2>2, <2>4, <2>5
  <1>7. positions \in [1..kept -> Seq(Int)]
    BY <1>6
  <1> HIDE DEF positions
  <1>8. ASSUME NEW s \in 1..kept
        PROVE  /\ Len(positions[s]) = Len(rows[s])
               /\ \A t \in 1..Len(positions[s]) : <<positions[s][t], rows[s][t]>> \in R
    <2>1. Len(positions[s]) = kept - s /\ Len(rows[s]) = kept - s
      BY <1>3, <1>6
    <2>2. ASSUME NEW t \in 1..(kept - s) PROVE <<positions[s][t], rows[s][t]>> \in R
      <3>1. s + t \in 1..kept /\ images[s] \in I /\ images[s + t] \in I
        <4>1. s + t \in 1..kept /\ s \in 1..Len(images) /\ s + t \in 1..Len(images)
          OBVIOUS
        <4> QED
          BY <4>1, ElementOfSeq
      <3>2. rows[s][t] = <<images[s], images[s + t]>>
        BY <1>1, <1>3, <1>4, <3>1
      <3>3. positions[s][t] \in 1..Len(maps) /\ maps[positions[s][t]] = <<images[s], images[s + t]>>
        BY <1>6
      <3> DEFINE p == positions[s][t]
                 m == rows[s][t]
      <3>4. p \in Int /\ m \in I \X I /\ p \in 1..Len(maps) /\ maps[p] = m
        BY <3>1, <3>2, <3>3
      <3> HIDE DEF p, m
      <3>5. <<p, m>> \in R
        BY <3>4
      <3> QED
        BY <3>5 DEF p, m
    <2> QED
      BY <2>1, <2>2
  <1> DEFINE read == FlattenSeq(positions)
             wanted == FlattenSeq(rows)
  <1> HIDE DEF R
  <1>9. /\ read \in Seq(Int) /\ wanted \in Seq(I \X I)
        /\ Len(read) = Len(wanted)
        /\ \A k \in 1..Len(read) : <<read[k], wanted[k]>> \in R
    <2>1. RelatedRows(positions, rows, R, kept, Int, I \X I)
      <3>1. \A s \in 1..kept : Related(positions[s], rows[s], R)
        BY <1>8 DEF Related
      <3> QED
        BY <1>3, <1>7, <3>1 DEF RelatedRows
    <2>2. read \in Seq(Int) /\ wanted \in Seq(I \X I) /\ Related(read, wanted, R)
      BY <2>1, FlattenRelated DEF read, wanted
    <2> QED
      BY <2>2 DEF Related
  <1>10. \A k \in 1..Len(read) : read[k] \in 1..Len(maps) /\ maps[read[k]] = wanted[k]
    BY <1>9 DEF R
  <1>11. MapsAt(maps, read) = [k \in 1..Len(read) |-> wanted[k]]
    BY <1>10 DEF MapsAt
  <1>12. wanted = [k \in 1..Len(wanted) |-> wanted[k]]
    BY <1>9, LenProperties
  <1>13. MapsAt(maps, read) = wanted
    BY <1>9, <1>11, <1>12
  <1> QED
    BY <1>3, <1>5, <1>13 DEF read, wanted, maps, keptImages

\* The maps from the first image come first, then those between the others.
LEMMA AllMapsCons ==
    ASSUME NEW I, NEW images \in Seq(I), images # <<>>
    PROVE  AllMaps(images) = MapsFrom(images, 1) \o AllMaps(Tail(images))
  <1> DEFINE others == Tail(images)
             n == Len(others)
             rows == RowsOf(images)
             rest == RowsOf(others)
             S == I \X I
  <1>1. /\ others \in Seq(I) /\ Len(others) = Len(images) - 1
        /\ \A i \in 1..Len(others) : others[i] = images[i + 1]
    BY HeadTailProperties
  <1>2. /\ Len(images) \in Nat /\ rows \in [1..Len(images) -> Seq(S)]
        /\ \A s \in 1..Len(images) : rows[s] = MapsFrom(images, s)
        /\ AllMaps(images) = FlattenSeq(rows)
    BY RowsFacts
  <1>3. /\ n \in Nat /\ rest \in [1..n -> Seq(S)]
        /\ \A s \in 1..n : rest[s] = MapsFrom(others, s)
        /\ AllMaps(others) = FlattenSeq(rest)
    BY <1>1, RowsFacts
  <1>4. Len(images) = n + 1
    BY <1>1, <1>2
  <1> HIDE DEF others, n, rows, rest, S
  <1>5. ASSUME NEW s \in 1..n PROVE rest[s] = rows[s + 1]
    <2>1. s + 1 \in 1..Len(images) /\ Len(images) - (s + 1) = n - s /\ n = Len(others)
      BY <1>3, <1>4 DEF n
    <2>2. others[s] = images[s + 1]
      BY <1>1, <2>1
    <2>3. ASSUME NEW step \in 1..(n - s) PROVE others[s + step] = images[(s + 1) + step]
      <3>1. s + step \in 1..n /\ (s + step) + 1 = (s + 1) + step
        BY <1>3
      <3> QED
        BY <1>1, <2>1, <3>1
    <2>4. [step \in 1..(n - s) |-> <<others[s], others[s + step]>>]
             = [step \in 1..(n - s) |-> <<images[s + 1], images[(s + 1) + step]>>]
      BY <2>2, <2>3
    <2>5. MapsFrom(others, s) = MapsFrom(images, s + 1)
      BY <2>1, <2>4 DEF MapsFrom
    <2> QED
      BY <1>2, <1>3, <2>1, <2>5
  <1>6. rows \in [1..(n + 1) -> Seq(S)] /\ rows[1] = MapsFrom(images, 1)
    BY <1>2, <1>3, <1>4
  <1>7. FlattenSeq(rows) = rows[1] \o FlattenSeq(rest)
    BY <1>3, <1>5, <1>6, FlattenCons
  <1> QED
    BY <1>2, <1>3, <1>6, <1>7 DEF others

LEMMA AllMapsOfNone == AllMaps(<<>>) = <<>>
  <1>1. AllMaps(<<>>) = FlattenSeq([source \in 1..0 |-> MapsFrom(<<>>, source)])
    BY DEF AllMaps
  <1> QED
    BY <1>1, FlattenEmpty

\* The maps between both images of p pairs.
LEMMA AllMapsLength ==
    ASSUME NEW I, NEW images \in Seq(I), NEW p \in Nat, Len(images) = 2 * p
    PROVE  /\ AllMaps(images) \in Seq(I \X I)
           /\ Len(AllMaps(images)) = p * (2 * p - 1)
  <1>1. 2 * p \in Nat /\ 0 \in Nat /\ Len(images) = 2 * p + 0
    OBVIOUS
  <1>2. /\ AllMaps(images) \in Seq(I \X I)
        /\ Len(AllMaps(images)) = Len(images) * Len(images)
                                     - ((Len(images) + 1) * Len(images)) \div 2
    BY <1>1, AllMapsIndex
  <1> DEFINE a == (2 * p + 1) * p
  <1>3. (2 * p + 1) * (2 * p) = 2 * a /\ a \in Int
    OBVIOUS
  <1> HIDE DEF a
  <1>4. (2 * a) \div 2 = a
    BY <1>3
  <1>5. Len(AllMaps(images)) = (2 * p) * (2 * p) - a
    BY <1>2, <1>3, <1>4
  <1>6. (2 * p) * (2 * p) - (2 * p + 1) * p = p * (2 * p - 1)
    OBVIOUS
  <1> QED
    BY <1>2, <1>5, <1>6 DEF a

-----------------------------------------------------------------------------
(* The images of stereo pairs. *)

Sides == {"left", "right"}

LEMMA ImagesFacts ==
    ASSUME NEW P, NEW pairs \in Seq(P)
    PROVE  /\ ImagesOfPairs(pairs) \in Seq(P \X Sides)
           /\ Len(ImagesOfPairs(pairs)) = 2 * Len(pairs)
           /\ Len(pairs) \in Nat
           /\ \A i \in 1..(2 * Len(pairs)) :
                 /\ (i + 1) \div 2 \in 1..Len(pairs)
                 /\ ImagesOfPairs(pairs)[i] = <<pairs[(i + 1) \div 2],
                                               IF i % 2 = 1 THEN "left" ELSE "right">>
  <1> DEFINE n == Len(pairs)
             f == [i \in 1..(2 * n) |->
                     <<pairs[(i + 1) \div 2], IF i % 2 = 1 THEN "left" ELSE "right">>]
  <1>1. n \in Nat
    BY LenProperties
  <1>2. ASSUME NEW i \in 1..(2 * n)
        PROVE  (i + 1) \div 2 \in 1..n /\ f[i] \in P \X Sides
    <2>1. (i + 1) \div 2 \in 1..n
      BY <1>1
    <2>2. pairs[(i + 1) \div 2] \in P
      BY <2>1, ElementOfSeq
    <2> QED
      BY <2>1, <2>2 DEF Sides
  <1>3. \A i \in 1..(2 * n) : f[i] = <<pairs[(i + 1) \div 2], IF i % 2 = 1 THEN "left" ELSE "right">>
    OBVIOUS
  <1>4. f \in [1..(2 * n) -> P \X Sides] /\ 2 * n \in Nat
    BY <1>1, <1>2
  <1>5. f = ImagesOfPairs(pairs)
    BY DEF ImagesOfPairs
  <1> HIDE DEF f, n
  <1>6. f \in Seq(P \X Sides) /\ Len(f) = 2 * n
    BY <1>4, FunctionIsSequence
  <1> QED
    BY <1>1, <1>2, <1>3, <1>5, <1>6 DEF n

\* The images after those of the first pair are those of the other pairs.
LEMMA ImagesOfOthers ==
    ASSUME NEW P, NEW pairs \in Seq(P), pairs # <<>>
    PROVE  /\ ImagesOfPairs(pairs) # <<>>
           /\ Tail(ImagesOfPairs(pairs)) # <<>>
           /\ Tail(ImagesOfPairs(pairs)) \in Seq(P \X Sides)
           /\ Tail(Tail(ImagesOfPairs(pairs))) = ImagesOfPairs(Tail(pairs))
  <1> DEFINE images == ImagesOfPairs(pairs)
             n == Len(pairs)
             rest == Tail(pairs)
             others == ImagesOfPairs(rest)
             S == P \X Sides
  <1>1. /\ images \in Seq(S) /\ Len(images) = 2 * n /\ n \in Nat
        /\ \A i \in 1..(2 * n) : images[i] = <<pairs[(i + 1) \div 2], IF i % 2 = 1 THEN "left" ELSE "right">>
    BY ImagesFacts
  <1>2. n > 0
    BY EmptySeq
  <1>3. rest \in Seq(P) /\ Len(rest) = n - 1 /\ \A i \in 1..(n - 1) : rest[i] = pairs[i + 1]
    BY HeadTailProperties
  <1>4. /\ others \in Seq(S) /\ Len(others) = 2 * Len(rest)
        /\ \A i \in 1..(2 * Len(rest)) :
              /\ (i + 1) \div 2 \in 1..Len(rest)
              /\ others[i] = <<rest[(i + 1) \div 2], IF i % 2 = 1 THEN "left" ELSE "right">>
    BY <1>3, ImagesFacts
  <1> HIDE DEF images, rest, others, S, n
  <1>5. images # <<>>
    BY <1>1, <1>2
  <1>6. /\ Tail(images) \in Seq(S) /\ Len(Tail(images)) = 2 * n - 1
        /\ \A i \in 1..(2 * n - 1) : Tail(images)[i] = images[i + 1]
    BY <1>1, <1>5, HeadTailProperties
  <1>7. Tail(images) # <<>>
    <2>1. 2 * n - 1 # 0 /\ Len(<<>>) = 0
      BY <1>1, <1>2, EmptySeq
    <2> QED
      BY <1>6, <2>1
  <1> DEFINE one == Tail(images)
             two == Tail(one)
  <1>8. one \in Seq(S) /\ one # <<>> /\ Len(one) = 2 * n - 1
    BY <1>6, <1>7
  <1> HIDE DEF one
  <1>9. two \in Seq(S) /\ Len(two) = 2 * n - 2 /\ \A i \in 1..(2 * n - 2) : two[i] = one[i + 1]
    <2>1. two \in Seq(S) /\ Len(two) = Len(one) - 1 /\ \A i \in 1..Len(two) : two[i] = one[i + 1]
      BY <1>8, HeadTailProperties
    <2>2. (2 * n - 1) - 1 = 2 * n - 2
      BY <1>1
    <2> QED
      BY <1>8, <2>1, <2>2
  <1> HIDE DEF two
  <1>10. Len(others) = 2 * n - 2
    BY <1>1, <1>3, <1>4
  <1>11. ASSUME NEW i \in 1..(2 * n - 2) PROVE two[i] = others[i]
    <2> DEFINE h == (i + 1) \div 2
    <2>1. i + 1 \in 1..(2 * n - 1) /\ i + 2 \in 1..(2 * n) /\ (i + 1) + 1 = i + 2
          /\ i \in 1..(2 * Len(rest))
      BY <1>1, <1>3
    <2>2. two[i] = images[i + 2]
      BY <1>6, <1>9, <2>1 DEF one
    <2>3. ((i + 2) + 1) \div 2 = h + 1 /\ (i + 2) % 2 = i % 2 /\ h \in 1..(n - 1)
      BY <1>1
    <2>4. images[i + 2] = <<pairs[h + 1], IF i % 2 = 1 THEN "left" ELSE "right">>
      BY <1>1, <2>1, <2>3
    <2>5. rest[h] = pairs[h + 1]
      BY <1>3, <2>3
    <2>6. others[i] = <<rest[h], IF i % 2 = 1 THEN "left" ELSE "right">>
      BY <1>4, <2>1
    <2> QED
      BY <2>2, <2>4, <2>5, <2>6
  <1>12. two = others
    BY <1>4, <1>9, <1>10, <1>11, SeqEqual
  <1> QED
    BY <1>5, <1>6, <1>7, <1>12 DEF images, one, two, others, rest, S

LEMMA ImagesOfFirst ==
    ASSUME NEW P, NEW pairs \in Seq(P), NEW k \in 0..Len(pairs)
    PROVE  /\ SubSeq(ImagesOfPairs(pairs), 1, 2 * k) = ImagesOfPairs(SubSeq(pairs, 1, k))
           /\ SubSeq(pairs, 1, k) \in Seq(P)
           /\ Len(SubSeq(pairs, 1, k)) = k
  <1> DEFINE images == ImagesOfPairs(pairs)
             n == Len(pairs)
             first == SubSeq(pairs, 1, k)
             some == SubSeq(images, 1, 2 * k)
             wanted == ImagesOfPairs(first)
             S == P \X Sides
  <1>1. /\ images \in Seq(S) /\ Len(images) = 2 * n /\ n \in Nat
        /\ \A i \in 1..(2 * n) : /\ (i + 1) \div 2 \in 1..n
                                 /\ images[i] = <<pairs[(i + 1) \div 2], IF i % 2 = 1 THEN "left" ELSE "right">>
    BY ImagesFacts
  <1>2. k \in Int /\ 2 * k \in Int /\ 2 * k <= 2 * n /\ k <= n /\ k >= 0
    BY <1>1
  <1>3. first \in Seq(P) /\ Len(first) = k /\ \A i \in 1..k : first[i] = pairs[i]
    <2>1. \A i \in 1..k : pairs[i] \in P
      BY <1>1, ElementOfSeq
    <2>2. /\ first \in Seq(P)
          /\ Len(first) = IF 1 <= k THEN k - 1 + 1 ELSE 0
          /\ \A i \in 1..(k - 1 + 1) : first[i] = pairs[1 + i - 1]
      BY <1>2, <2>1, SubSeqProperties
    <2> QED
      BY <1>2, <2>2
  <1>4. /\ wanted \in Seq(S) /\ Len(wanted) = 2 * k
        /\ \A i \in 1..(2 * k) :
              /\ (i + 1) \div 2 \in 1..k
              /\ wanted[i] = <<first[(i + 1) \div 2], IF i % 2 = 1 THEN "left" ELSE "right">>
    BY <1>3, ImagesFacts
  <1> HIDE DEF images, first, wanted, S, n
  <1>5. some \in Seq(S) /\ Len(some) = 2 * k /\ \A i \in 1..(2 * k) : some[i] = images[i]
    <2>1. \A i \in 1..(2 * k) : images[i] \in S
      BY <1>1, <1>2, ElementOfSeq
    <2>2. /\ some \in Seq(S)
          /\ Len(some) = IF 1 <= 2 * k THEN 2 * k - 1 + 1 ELSE 0
          /\ \A i \in 1..(2 * k - 1 + 1) : some[i] = images[1 + i - 1]
      BY <1>2, <2>1, SubSeqProperties
    <2> QED
      BY <1>2, <2>2
  <1> HIDE DEF some
  <1>6. ASSUME NEW i \in 1..(2 * k) PROVE some[i] = wanted[i]
    <2>1. i \in 1..(2 * n)
      BY <1>1, <1>2
    <2> QED
      BY <1>1, <1>3, <1>4, <1>5, <2>1
  <1>7. some = wanted
    BY <1>4, <1>5, <1>6, SeqEqual
  <1> QED
    BY <1>3, <1>7 DEF some, wanted, images, first

-----------------------------------------------------------------------------
(* A sequence with an element in front. *)

LEMMA ConsFacts ==
    ASSUME NEW S, NEW s \in Seq(S), NEW e \in S
    PROVE  /\ <<e>> \o s \in Seq(S) /\ <<e>> \o s # <<>>
           /\ Len(<<e>> \o s) = Len(s) + 1
           /\ (<<e>> \o s)[1] = e
           /\ \A k \in 1..Len(s) : (<<e>> \o s)[k + 1] = s[k]
           /\ Tail(<<e>> \o s) = s
  <1> DEFINE one == <<e>>
             r == one \o s
             t == Tail(r)
             n == Len(s)
  <1>1. /\ one \in Seq(S) /\ Len(one) = 1 /\ one[1] = e /\ n \in Nat
    BY LenProperties
  <1> HIDE DEF one
  <1>2. /\ r \in Seq(S) /\ Len(r) = Len(one) + n
        /\ \A k \in 1..(Len(one) + n) : r[k] = IF k <= Len(one) THEN one[k] ELSE s[k - Len(one)]
    BY <1>1, ConcatProperties
  <1> HIDE DEF r, n
  <1>3. /\ Len(r) = n + 1 /\ \A k \in 1..(1 + n) : r[k] = IF k <= 1 THEN one[k] ELSE s[k - 1]
    BY <1>1, <1>2
  <1>4. r[1] = e
    BY <1>1, <1>3
  <1>5. ASSUME NEW k \in 1..n PROVE r[k + 1] = s[k]
    <2>1. k + 1 \in 1..(1 + n) /\ ~(k + 1 <= 1) /\ (k + 1) - 1 = k
      BY <1>1
    <2> QED BY <1>3, <2>1
  <1>6. r # <<>>
    BY <1>1, <1>2, <1>3, EmptySeq
  <1>7. t \in Seq(S) /\ Len(t) = Len(r) - 1 /\ \A k \in 1..Len(t) : t[k] = r[k + 1]
    BY <1>2, <1>6, HeadTailProperties
  <1> HIDE DEF t
  <1>8. Len(t) = Len(s) /\ \A k \in 1..Len(t) : t[k] = s[k]
    BY <1>1, <1>3, <1>5, <1>7 DEF n
  <1>9. t = s
    BY <1>7, <1>8, SeqEqual
  <1> QED BY <1>2, <1>3, <1>4, <1>5, <1>6, <1>9 DEF t, r, one, n

LEMMA ConsOfHeadAndTail ==
    ASSUME NEW S, NEW s \in Seq(S), s # <<>>
    PROVE  <<s[1]>> \o Tail(s) = s
  <1> DEFINE t == Tail(s)
             r == <<s[1]>> \o t
             n == Len(s)
  <1>1. /\ t \in Seq(S) /\ Len(t) = n - 1 /\ n \in Nat
        /\ \A k \in 1..Len(t) : t[k] = s[k + 1]
    BY HeadTailProperties, LenProperties
  <1>2. n # 0 /\ s[1] \in S
    <2>1. n # 0
      BY EmptySeq
    <2> HIDE DEF n
    <2>2. 1 \in 1..n
      BY <1>1, <2>1
    <2> QED BY <2>1, <2>2, ElementOfSeq DEF n
  <1> HIDE DEF t
  <1>3. /\ r \in Seq(S) /\ Len(r) = Len(t) + 1
        /\ r[1] = s[1]
        /\ \A k \in 1..Len(t) : r[k + 1] = t[k]
    BY <1>1, <1>2, ConsFacts
  <1> HIDE DEF r, n
  <1>4. ASSUME NEW k \in 1..n PROVE r[k] = s[k]
    <2>1. CASE k = 1
      BY <1>3, <2>1
    <2>2. CASE k # 1
      <3>1. k - 1 \in 1..Len(t) /\ (k - 1) + 1 = k
        BY <1>1, <2>2
      <3>2. r[(k - 1) + 1] = t[k - 1] /\ t[k - 1] = s[(k - 1) + 1]
        BY <1>1, <1>3, <3>1
      <3> QED BY <3>1, <3>2
    <2> QED BY <2>1, <2>2
  <1>5. r = s
    BY <1>1, <1>3, <1>4, SeqEqual DEF n
  <1> QED BY <1>5 DEF r, t

\* The first elements of a sequence.
LEMMA FirstFacts ==
    ASSUME NEW S, NEW s \in Seq(S), NEW k \in 0..Len(s)
    PROVE  /\ SubSeq(s, 1, k) \in Seq(S) /\ Len(SubSeq(s, 1, k)) = k
           /\ \A i \in 1..k : SubSeq(s, 1, k)[i] = s[i]
  <1>1. Len(s) \in Nat /\ \A i \in 1..k : s[i] \in S
    <2>1. Len(s) \in Nat
      BY LenProperties
    <2>2. \A i \in 1..k : i \in 1..Len(s)
      BY <2>1
    <2> QED BY <2>1, <2>2, ElementOfSeq
  <1> QED BY <1>1, SubSeqProperties

-----------------------------------------------------------------------------
(* The first elements of a sequence, up to a number of them.               *)

LatestCount(pairs, m) == IF Len(pairs) < m THEN Len(pairs) ELSE m
Latest(pairs, m) == SubSeq(pairs, 1, LatestCount(pairs, m))

LEMMA LatestFacts ==
    ASSUME NEW P, NEW pairs \in Seq(P), NEW m \in Nat
    PROVE  /\ Len(pairs) \in Nat
           /\ LatestCount(pairs, m) \in 0..Len(pairs) /\ LatestCount(pairs, m) \in 0..m
           /\ Latest(pairs, m) \in Seq(P) /\ Len(Latest(pairs, m)) = LatestCount(pairs, m)
           /\ \A i \in 1..LatestCount(pairs, m) : Latest(pairs, m)[i] = pairs[i]
  <1> DEFINE k == LatestCount(pairs, m)
  <1>1. Len(pairs) \in Nat
    BY LenProperties
  <1>2. k \in 0..Len(pairs) /\ k \in 0..m
    BY <1>1 DEF LatestCount
  <1> HIDE DEF k
  <1>3. /\ SubSeq(pairs, 1, k) \in Seq(P) /\ Len(SubSeq(pairs, 1, k)) = k
        /\ \A i \in 1..k : SubSeq(pairs, 1, k)[i] = pairs[i]
    BY <1>2, FirstFacts
  <1> QED BY <1>1, <1>2, <1>3 DEF k, Latest

\* The others of the latest are all of the others while there is room, else
\* the latest of them without the last one.
LEMMA LatestOfTail ==
    ASSUME NEW P, NEW pairs \in Seq(P), pairs # <<>>, NEW m \in Nat, m >= 1
    PROVE  /\ Tail(pairs) \in Seq(P)
           /\ Latest(pairs, m) # <<>>
           /\ Len(pairs) <= m => Tail(Latest(pairs, m)) = Latest(Tail(pairs), m)
           /\ Len(pairs) > m => /\ LatestCount(Tail(pairs), m) = m
                                /\ Tail(Latest(pairs, m)) = SubSeq(Latest(Tail(pairs), m), 1, m - 1)
  <1> DEFINE k == LatestCount(pairs, m)
             kept == Latest(pairs, m)
             rest == Tail(pairs)
             j == LatestCount(rest, m)
             keptRest == Latest(rest, m)
             n == Len(pairs)
  <1>1. /\ n \in Nat /\ kept \in Seq(P) /\ Len(kept) = k
        /\ \A i \in 1..k : kept[i] = pairs[i]
    BY LatestFacts
  <1>2. n >= 1
    BY <1>1, EmptySeq
  <1>3. rest \in Seq(P) /\ Len(rest) = n - 1 /\ \A i \in 1..(n - 1) : rest[i] = pairs[i + 1]
    BY HeadTailProperties
  <1>4. /\ keptRest \in Seq(P) /\ Len(keptRest) = j
        /\ \A i \in 1..j : keptRest[i] = rest[i]
    <2> HIDE DEF rest
    <2> QED BY <1>3, LatestFacts
  <1>5. /\ k = (IF n < m THEN n ELSE m)
        /\ j = (IF n - 1 < m THEN n - 1 ELSE m)
    BY <1>3 DEF LatestCount
  <1>6. kept # <<>>
    BY <1>1, <1>2, <1>5, EmptySeq
  <1>7. /\ Tail(kept) \in Seq(P) /\ Len(Tail(kept)) = k - 1
        /\ \A i \in 1..(k - 1) : Tail(kept)[i] = kept[i + 1]
    BY <1>1, <1>6, HeadTailProperties
  <1> DEFINE others == Tail(kept)
  <1> HIDE DEF k, kept, rest, j, keptRest, n, others
  <1>8. ASSUME NEW i \in 1..(k - 1) PROVE others[i] = rest[i]
    <2>1. i + 1 \in 1..k /\ i \in 1..(n - 1)
      BY <1>1, <1>2, <1>5
    <2> QED BY <1>1, <1>3, <1>7, <2>1 DEF others
  <1>9. CASE n <= m
    <2>1. j = k - 1 /\ j \in Nat
      BY <1>1, <1>2, <1>5, <1>9
    <2>2. Len(others) = Len(keptRest) /\ \A i \in 1..Len(others) : others[i] = keptRest[i]
      BY <1>4, <1>7, <1>8, <2>1 DEF others
    <2>3. others = keptRest
      BY <1>4, <1>7, <2>2, SeqEqual DEF others
    <2>4. ~(n > m)
      BY <1>1, <1>9
    <2> QED
      BY <1>3, <1>6, <2>3, <2>4 DEF others, kept, keptRest, rest, n
  <1>10. CASE n > m
    <2>1. j = m /\ k = m
      BY <1>1, <1>2, <1>5, <1>10
    <2> DEFINE last == m - 1
               first == SubSeq(keptRest, 1, last)
    <2>2. last \in 0..Len(keptRest) /\ last = k - 1
      BY <1>4, <2>1
    <2> HIDE DEF last
    <2>3. first \in Seq(P) /\ Len(first) = last /\ \A i \in 1..last : first[i] = keptRest[i]
      BY <1>4, <2>2, FirstFacts
    <2> HIDE DEF first
    <2>4. ASSUME NEW i \in 1..last PROVE others[i] = first[i]
      <3>1. i \in 1..j /\ i \in 1..(k - 1)
        BY <2>1, <2>2
      <3> QED BY <1>4, <1>8, <2>3, <3>1
    <2>5. others = first
      BY <1>7, <2>2, <2>3, <2>4, SeqEqual DEF others
    <2>6. ~(n <= m)
      BY <1>1, <1>10
    <2> QED
      BY <1>3, <1>6, <2>1, <2>5, <2>6 DEF others, kept, keptRest, rest, n, first, j, last
  <1> QED
    BY <1>1, <1>9, <1>10

-----------------------------------------------------------------------------
(* Positions, and what is read there.                                      *)

LEMMA ReadPositionsFacts ==
    ASSUME NEW kept \in Nat, NEW skipped \in Nat
    PROVE  ReadPositions(kept, skipped) \in Seq(Int)
  <1> DEFINE rows == [source \in 1..kept |->
                        [step \in 1..(kept - source) |-> Start(kept, skipped, source) + step]]
  <1>1. ASSUME NEW s \in 1..kept PROVE rows[s] \in Seq(Int)
    <2>1. Start(kept, skipped, s) \in Int
      <3>1. s \in Nat /\ (s * (s - 1)) \div 2 \in Int
        BY HalfOfNextProduct
      <3>2. (s - 1) * (kept + skipped) \in Int
        BY <3>1
      <3> QED BY <3>1, <3>2 DEF Start
    <2> DEFINE row == [step \in 1..(kept - s) |-> Start(kept, skipped, s) + step]
    <2>2. kept - s \in Nat /\ row \in [1..(kept - s) -> Int]
      BY <2>1
    <2> HIDE DEF row
    <2>3. row \in Seq(Int)
      BY <2>2, FunctionIsSequence
    <2> QED BY <2>3 DEF row
  <1>2. rows \in [1..kept -> Seq(Int)]
    BY <1>1
  <1>3. ReadPositions(kept, skipped) = FlattenSeq(rows)
    BY DEF ReadPositions
  <1> HIDE DEF rows
  <1>4. CASE kept = 0
    <2>1. rows \in [1..0 -> Seq(Int)]
      BY <1>2, <1>4
    <2>2. FlattenSeq(rows) = <<>>
      BY <2>1, FlattenNone
    <2> QED BY <1>3, <2>2, EmptySeq
  <1>5. CASE kept # 0
    <2>1. PICK f : Partial(f, kept, rows, Int)
      BY <1>2, <1>5, FlattenSteps
    <2>2. FlattenSeq(rows) = f[kept] /\ f[kept] \in Seq(Int)
      BY <2>1, PartialEnds
    <2> QED BY <1>3, <2>2
  <1> QED BY <1>4, <1>5

LEMMA MapsAtFacts ==
    ASSUME NEW S, NEW maps \in Seq(S), UNKNOWN_MAP \in S, NEW positions \in Seq(Int)
    PROVE  MapsAt(maps, positions) \in Seq(S)
  <1> DEFINE n == Len(positions)
             read == [k \in 1..n |-> IF positions[k] \in 1..Len(maps) THEN maps[positions[k]]
                                     ELSE UNKNOWN_MAP]
  <1>1. n \in Nat /\ Len(maps) \in Nat
    BY LenProperties
  <1>2. \A k \in 1..Len(maps) : maps[k] \in S
    BY ElementOfSeq
  <1>3. read \in [1..n -> S]
    BY <1>2
  <1> HIDE DEF n, read
  <1>4. read \in Seq(S)
    BY <1>1, <1>3, FunctionIsSequence
  <1> QED BY <1>4 DEF MapsAt, read, n

\* With up to two images kept it makes no difference how many maps are
\* skipped: the one that is read is the first.
LEMMA FirstPositionsAgree ==
    ASSUME NEW kept \in 0..2
    PROVE  ReadPositions(kept, 2) = ReadPositions(kept, 1)
  <1> DEFINE row(skipped, s) == [step \in 1..(kept - s) |-> Start(kept, skipped, s) + step]
  <1>1. ASSUME NEW s \in 1..kept PROVE row(2, s) = row(1, s)
    <2>1. ASSUME NEW step \in 1..(kept - s) PROVE Start(kept, 2, s) = Start(kept, 1, s)
      <3>1. s = 1
        BY <2>1
      <3>2. 1 - 1 = 0 /\ 0 * (kept + 2) = 0 /\ 0 * (kept + 1) = 0
        OBVIOUS
      <3> QED BY <3>1, <3>2 DEF Start
    <2> QED BY <2>1
  <1> HIDE DEF row
  <1>2. [s \in 1..kept |-> row(2, s)] = [s \in 1..kept |-> row(1, s)]
    BY <1>1
  <1> QED BY <1>2 DEF ReadPositions, row

-----------------------------------------------------------------------------
(* Elements that move from the front of one sequence to the end of another. *)

LEMMA MoveHead ==
    ASSUME NEW S, NEW before \in Seq(S), NEW toMove \in Seq(S), toMove # <<>>
    PROVE  /\ Append(before, Head(toMove)) \in Seq(S)
           /\ Len(Append(before, Head(toMove))) = Len(before) + 1
           /\ Append(before, Head(toMove)) \o Tail(toMove) = before \o toMove
           /\ Tail(toMove) \in Seq(S)
  <1> DEFINE e == Head(toMove)
             rest == Tail(toMove)
             a == Append(before, e)
             s == a \o rest
             t == before \o toMove
  <1>1. Len(before) \in Nat
    BY LenProperties
  <1>2. /\ e \in S /\ e = toMove[1] /\ rest \in Seq(S) /\ Len(rest) = Len(toMove) - 1
        /\ Len(toMove) \in Nat
        /\ \A i \in 1..Len(rest) : rest[i] = toMove[i + 1]
    BY HeadTailProperties, LenProperties
  <1> HIDE DEF e, rest
  <1>3. /\ a \in Seq(S) /\ Len(a) = Len(before) + 1
        /\ \A i \in 1..Len(before) : a[i] = before[i]
        /\ a[Len(before) + 1] = toMove[1]
    BY <1>1, <1>2, AppendProperties
  <1> HIDE DEF a
  <1>4. /\ s \in Seq(S) /\ Len(s) = Len(a) + Len(rest)
        /\ \A i \in 1..(Len(a) + Len(rest)) : s[i] = IF i <= Len(a) THEN a[i] ELSE rest[i - Len(a)]
    BY <1>2, <1>3, ConcatProperties
  <1>5. /\ t \in Seq(S) /\ Len(t) = Len(before) + Len(toMove)
        /\ \A i \in 1..(Len(before) + Len(toMove)) :
              t[i] = IF i <= Len(before) THEN before[i] ELSE toMove[i - Len(before)]
    BY ConcatProperties
  <1> HIDE DEF s, t
  <1>6. Len(s) = Len(t)
    BY <1>1, <1>2, <1>3, <1>4, <1>5
  <1>7. ASSUME NEW i \in 1..Len(s) PROVE s[i] = t[i]
    <2>1. i \in 1..(Len(a) + Len(rest)) /\ i \in 1..(Len(before) + Len(toMove)) /\ i \in Int
      BY <1>4, <1>5, <1>6
    <2>2. CASE i <= Len(before)
      <3>1. i \in 1..Len(before) /\ i <= Len(a)
        BY <1>1, <1>3, <2>1, <2>2
      <3> QED BY <1>3, <1>4, <1>5, <2>1, <2>2, <3>1
    <2>3. CASE i = Len(before) + 1
      <3>1. i <= Len(a) /\ ~(i <= Len(before)) /\ i - Len(before) = 1
        BY <1>1, <1>3, <2>3
      <3>2. s[i] = a[i] /\ t[i] = toMove[i - Len(before)]
        BY <1>4, <1>5, <2>1, <3>1
      <3>3. a[i] = toMove[1]
        BY <1>3, <2>3
      <3> QED BY <3>1, <3>2, <3>3
    <2>4. CASE i > Len(before) + 1
      <3>1. ~(i <= Len(a)) /\ ~(i <= Len(before)) /\ i - Len(a) \in 1..Len(rest)
            /\ (i - Len(a)) + 1 = i - Len(before)
        BY <1>1, <1>2, <1>3, <2>1, <2>4
      <3>2. rest[i - Len(a)] = toMove[(i - Len(a)) + 1]
        BY <1>2, <3>1
      <3>3. s[i] = rest[i - Len(a)] /\ t[i] = toMove[i - Len(before)]
        BY <1>4, <1>5, <2>1, <3>1
      <3> QED BY <3>1, <3>2, <3>3
    <2> QED BY <1>1, <2>1, <2>2, <2>3, <2>4
  <1>8. s = t
    BY <1>4, <1>5, <1>6, <1>7, SeqEqual
  <1> QED BY <1>2, <1>3, <1>8 DEF s, t, a, e, rest
================================================================================
