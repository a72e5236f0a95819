----------------------------- MODULE DataLemmas -----------------------------
(***************************************************************************)
(* Lemmas about data that more than one component needs: induction over    *)
(* the natural numbers for what is defined by recursion (the words of a    *)
(* cipher, the sums over a list), and what a sequence is once an element   *)
(* came in or went.  The library's theorem of induction takes the          *)
(* hypothesis as an operator; here it is a set.                            *)
(***************************************************************************)
EXTENDS Integers, FiniteSets, SequencesExt, TLAPS,
        FunctionTheorems, FiniteSetTheorems, SequenceTheorems

\* A set that holds 0 and, with each number, the next one holds them all: the
\* numbers up to m that are missing could be mapped one to one below
\* themselves, which leaves one fewer of them.
LEMMA NatInductionSet ==
  ASSUME NEW S, 0 \in S, \A n \in Nat : n \in S => n + 1 \in S
  PROVE  \A n \in Nat : n \in S
<1>1. SUFFICES ASSUME NEW m \in Nat, m \notin S
               PROVE  FALSE
  OBVIOUS
<1> DEFINE D == {k \in 0..m : k \notin S}
           f == [k \in D |-> k - 1]
<1>2. /\ IsFiniteSet(D)
      /\ IsFiniteSet(D \ {m}) /\ Cardinality(D \ {m}) = Cardinality(D) - 1
      /\ Cardinality(D) \in Nat
  <2>1. IsFiniteSet(0..m)
    BY FS_Interval
  <2>2. D \in SUBSET (0..m)
    OBVIOUS
  <2>3. IsFiniteSet(D)
    <3> HIDE DEF D
    <3> QED BY <2>1, <2>2, FS_Subset
  <2>4. m \in D
    BY <1>1
  <2> HIDE DEF D
  <2>5. /\ IsFiniteSet(D \ {m})
        /\ Cardinality(D \ {m}) = IF m \in D THEN Cardinality(D) - 1 ELSE Cardinality(D)
    BY <2>3, FS_RemoveElement
  <2> QED BY <2>3, <2>4, <2>5, FS_CardinalityType
<1>3. \A k \in D : k - 1 \in D \ {m}
  <2> TAKE k \in D
  <2>1. k # 0
    OBVIOUS
  <2>2. k - 1 \in Nat /\ k - 1 \in 0..m /\ k - 1 # m /\ (k - 1) + 1 = k
    BY <2>1
  <2>3. k - 1 \notin S
    BY <2>2
  <2> QED BY <2>2, <2>3
<1>4. f \in Injection(D, D \ {m})
  <2>1. f \in [D -> D \ {m}]
    BY <1>3
  <2>2. \A j, k \in D : f[j] = f[k] => j = k
    OBVIOUS
  <2> HIDE DEF D, f
  <2> QED BY <2>1, <2>2 DEF Injection, IsInjective
<1>5. Cardinality(D) <= Cardinality(D \ {m})
  <2> HIDE DEF D, f
  <2> QED BY <1>2, <1>4, FS_Injection
<1> HIDE DEF D
<1> QED BY <1>2, <1>5

-----------------------------------------------------------------------------
(* Sequences that grow and shrink *)

\* What a sequence has become with one element more, or one less.
HasMore(new, R, s, i, e) ==
  /\ new \in Seq(R) /\ Len(new) = Len(s) + 1
  /\ \A k \in 1..(Len(s) + 1) : new[k] = IF k < i THEN s[k] ELSE IF k = i THEN e ELSE s[k - 1]

HasLess(new, R, s, i) ==
  /\ new \in Seq(R) /\ Len(new) = Len(s) - 1
  /\ \A k \in 1..(Len(s) - 1) : new[k] = IF k < i THEN s[k] ELSE s[k + 1]

\* InsertAt and RemoveAt, element by element.
LEMMA InsertedAt ==
  ASSUME NEW R, NEW s \in Seq(R), NEW i \in 1..(Len(s) + 1), NEW e \in R
  PROVE  HasMore(InsertAt(s, i, e), R, s, i, e)
<1> DEFINE n == Len(s)
           a == SubSeq(s, 1, i - 1)
           b == <<e>>
           c == SubSeq(s, i, n)
<1>1. n \in Nat /\ i \in 1..(n + 1) /\ \A k \in 1..n : s[k] \in R
  BY LenProperties, ElementOfSeq
<1>2. a \in Seq(R) /\ Len(a) = i - 1 /\ \A k \in 1..(i - 1) : a[k] = s[k]
  BY <1>1
<1>3. c \in Seq(R) /\ Len(c) = n - i + 1 /\ \A k \in 1..(n - i + 1) : c[k] = s[i + k - 1]
  BY <1>1
<1>4. InsertAt(s, i, e) = (a \o b) \o c
  BY DEF InsertAt
<1>5. b \in Seq(R) /\ Len(b) = 1 /\ b[1] = e
  OBVIOUS
<1> HIDE DEF a, b, c, n
<1> DEFINE d == a \o b
<1>6. /\ d \in Seq(R) /\ Len(d) = Len(a) + Len(b)
      /\ \A k \in 1..(Len(a) + Len(b)) : d[k] = IF k <= Len(a) THEN a[k] ELSE b[k - Len(a)]
  BY <1>2, <1>5, ConcatProperties
<1> HIDE DEF d
<1>7. /\ d \o c \in Seq(R) /\ Len(d \o c) = Len(d) + Len(c)
      /\ \A k \in 1..(Len(d) + Len(c)) : (d \o c)[k] = IF k <= Len(d) THEN d[k] ELSE c[k - Len(d)]
  <2>1. d \in Seq(R) /\ c \in Seq(R)
    BY <1>3, <1>6
  <2> QED BY <2>1, ConcatProperties
<1>8. Len(d) = i /\ Len(d) + Len(c) = n + 1
  BY <1>1, <1>2, <1>3, <1>5, <1>6
<1>9. ASSUME NEW k \in 1..(n + 1)
      PROVE  (d \o c)[k] = IF k < i THEN s[k] ELSE IF k = i THEN e ELSE s[k - 1]
  <2>1. CASE k < i
    <3>1. /\ k <= Len(d) /\ k \in 1..(Len(d) + Len(c)) /\ k \in 1..(Len(a) + Len(b))
          /\ k <= Len(a) /\ k \in 1..(i - 1)
      BY <2>1, <1>1, <1>2, <1>5, <1>8
    <3>2. (d \o c)[k] = d[k] /\ d[k] = a[k] /\ a[k] = s[k]
      BY <3>1, <1>2, <1>6, <1>7
    <3> QED BY <2>1, <3>2
  <2>2. CASE k = i
    <3>1. k <= Len(d) /\ k \in 1..(Len(a) + Len(b)) /\ ~(k <= Len(a)) /\ k - Len(a) = 1
      BY <2>2, <1>1, <1>2, <1>5, <1>8
    <3> QED BY <3>1, <2>2, <1>1, <1>5, <1>6, <1>7, <1>8
  <2>3. CASE k > i
    <3>1. k - i \in 1..(n - i + 1) /\ i + (k - i) - 1 = k - 1 /\ ~(k <= Len(d)) /\ k - Len(d) = k - i
      BY <2>3, <1>1, <1>8
    <3>2. (d \o c)[k] = c[k - i]
      BY <3>1, <1>7, <1>8
    <3> DEFINE m == k - i
    <3>3. m \in 1..(n - i + 1) /\ i + m - 1 = k - 1 /\ (d \o c)[k] = c[m]
      BY <3>1, <3>2
    <3> HIDE DEF m
    <3>4. c[m] = s[i + m - 1]
      BY <3>3, <1>3
    <3>5. s[i + m - 1] = s[k - 1]
      BY <3>3
    <3>6. ~(k < i) /\ k # i
      BY <2>3, <1>1
    <3> QED BY <3>3, <3>4, <3>5, <3>6
  <2>4. k < i \/ k = i \/ k > i
    BY <1>1
  <2> QED BY <2>1, <2>2, <2>3, <2>4, Zenon
<1> QED BY <1>4, <1>7, <1>8, <1>9 DEF d, n, HasMore

LEMMA RemovedAt ==
  ASSUME NEW R, NEW s \in Seq(R), NEW i \in 1..Len(s)
  PROVE  HasLess(RemoveAt(s, i), R, s, i)
<1> DEFINE n == Len(s)
           a == SubSeq(s, 1, i - 1)
           c == SubSeq(s, i + 1, n)
<1>1. n \in Nat /\ i \in 1..n /\ \A k \in 1..n : s[k] \in R
  BY LenProperties, ElementOfSeq
<1>2. a \in Seq(R) /\ Len(a) = i - 1 /\ \A k \in 1..(i - 1) : a[k] = s[k]
  BY <1>1
<1>3. c \in Seq(R) /\ Len(c) = n - i /\ \A k \in 1..(n - i) : c[k] = s[i + k]
  BY <1>1
<1>4. RemoveAt(s, i) = a \o c
  BY DEF RemoveAt
<1> HIDE DEF a, c, n
<1>5. /\ a \o c \in Seq(R) /\ Len(a \o c) = Len(a) + Len(c)
      /\ \A k \in 1..(Len(a) + Len(c)) : (a \o c)[k] = IF k <= Len(a) THEN a[k] ELSE c[k - Len(a)]
  BY <1>2, <1>3, ConcatProperties
<1>6. Len(a) + Len(c) = n - 1
  BY <1>1, <1>2, <1>3
<1>7. ASSUME NEW k \in 1..(n - 1)
      PROVE  (a \o c)[k] = IF k < i THEN s[k] ELSE s[k + 1]
  <2>1. CASE k < i
    BY <2>1, <1>1, <1>2, <1>5, <1>6
  <2>2. CASE k >= i
    <3>1. k - (i - 1) \in 1..(n - i) /\ i + (k - (i - 1)) = k + 1 /\ ~(k <= Len(a))
          /\ k - Len(a) = k - (i - 1)
      BY <2>2, <1>1, <1>2
    <3>2. (a \o c)[k] = c[k - (i - 1)]
      BY <3>1, <1>5, <1>6
    <3> DEFINE m == k - (i - 1)
    <3>3. m \in 1..(n - i) /\ i + m = k + 1 /\ (a \o c)[k] = c[m]
      BY <3>1, <3>2
    <3> HIDE DEF m
    <3>4. c[m] = s[i + m]
      BY <3>3, <1>3
    <3>5. s[i + m] = s[k + 1]
      BY <3>3
    <3>6. ~(k < i)
      BY <2>2, <1>1
    <3> QED BY <3>3, <3>4, <3>5, <3>6
  <2>3. k < i \/ k >= i
    BY <1>1
  <2> QED BY <2>1, <2>2, <2>3, Zenon
<1> QED BY <1>4, <1>5, <1>6, <1>7 DEF n, HasLess
=============================================================================
