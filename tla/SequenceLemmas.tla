--------------------------- MODULE SequenceLemmas ---------------------------
(***************************************************************************)
(* What InsertAt and RemoveAt (community modules) do to the elements of a  *)
(* sequence, which sequences repeat nothing, and how many elements they    *)
(* have, and what a walk or a selection by recursion is: facts that the    *)
(* proofs about lists, texts and queues cite.                              *)
(***************************************************************************)
EXTENDS SequencesExt, SequenceTheorems, FiniteSetTheorems, WellFoundedInduction, TLAPS

\* t is s with e in front of what was its i-th element.
IsInsertion(t, s, i, e) ==
    \A j \in 1..(Len(s) + 1) :
        t[j] = IF j < i THEN s[j] ELSE IF j = i THEN e ELSE s[j - 1]

\* The elements of a sequence into which e has been inserted as the i-th.
LEMMA InsertAtElements ==
    ASSUME NEW S, NEW s \in Seq(S), NEW e \in S, NEW i \in 1..(Len(s) + 1)
    PROVE  /\ InsertAt(s, i, e) \in Seq(S)
           /\ Len(InsertAt(s, i, e)) = Len(s) + 1
           /\ IsInsertion(InsertAt(s, i, e), s, i, e)
<1> DEFINE a == SubSeq(s, 1, i - 1)
           b == SubSeq(s, i, Len(s))
<1>1. /\ a \in Seq(S) /\ Len(a) = i - 1
      /\ \A j \in 1..(i - 1) : a[j] = s[j]
  OBVIOUS
<1>2. /\ b \in Seq(S) /\ Len(b) = Len(s) - i + 1
      /\ \A j \in 1..(Len(s) - i + 1) : b[j] = s[i + j - 1]
  OBVIOUS
<1> HIDE DEF a, b
<1>3. InsertAt(s, i, e) = (a \o <<e>>) \o b
  BY DEF InsertAt, a, b
<1>4. /\ a \o <<e>> \in Seq(S) /\ Len(a \o <<e>>) = i
      /\ \A j \in 1..i : (a \o <<e>>)[j] = IF j < i THEN s[j] ELSE e
  BY <1>1
<1> DEFINE c == a \o <<e>>
<1> HIDE DEF c
<1>5. /\ c \o b \in Seq(S) /\ Len(c \o b) = Len(s) + 1
      /\ \A j \in 1..(Len(s) + 1) :
             (c \o b)[j] = IF j < i THEN s[j] ELSE IF j = i THEN e ELSE s[j - 1]
  <2>1. c \in Seq(S) /\ Len(c) = i /\ \A j \in 1..i : c[j] = IF j < i THEN s[j] ELSE e
    BY <1>4 DEF c
  <2>0. Len(s) \in Nat /\ i \in Nat
    OBVIOUS
  <2>2. c \o b \in Seq(S) /\ Len(c \o b) = Len(s) + 1
    <3>1. c \in Seq(S) /\ b \in Seq(S)
      BY <2>1, <1>2
    <3>2. c \o b \in Seq(S) /\ Len(c \o b) = Len(c) + Len(b)
      BY <3>1
    <3> QED
      BY <3>2, <2>0, <2>1, <1>2
  <2>3. ASSUME NEW j \in 1..(Len(s) + 1)
        PROVE  (c \o b)[j] = IF j < i THEN s[j] ELSE IF j = i THEN e ELSE s[j - 1]
    <3>1. CASE j <= i
      BY <3>1, <2>1, <1>2
    <3>2. CASE j > i
      <4>1. (c \o b)[j] = b[j - i]
        BY <3>2, <2>1, <1>2
      <4>2. b[j - i] = s[i + (j - i) - 1]
        BY <3>2, <1>2
      <4> QED
        BY <3>2, <4>1, <4>2
    <3>3. j <= i \/ j > i
      BY <2>0
    <3> QED
      BY <3>1, <3>2, <3>3, Zenon
  <2> QED
    BY <2>2, <2>3
<1> QED
  BY <1>3, <1>5 DEF c, IsInsertion

\* Inserting an element that is not there yet leaves every element in the
\* sequence once.
LEMMA InsertAtInjective ==
    ASSUME NEW S, NEW s \in Seq(S), NEW e \in S, NEW i \in 1..(Len(s) + 1),
           IsInjective(s), e \notin Range(s)
    PROVE  /\ IsInjective(InsertAt(s, i, e))
           /\ Range(InsertAt(s, i, e)) = Range(s) \cup {e}
<1> DEFINE t == InsertAt(s, i, e)
<1>1. /\ t \in Seq(S) /\ Len(t) = Len(s) + 1
      /\ \A j \in 1..(Len(s) + 1) :
             t[j] = IF j < i THEN s[j] ELSE IF j = i THEN e ELSE s[j - 1]
  BY InsertAtElements DEF IsInsertion
<1> HIDE DEF t
<1>2. \A j \in 1..Len(s) : s[j] # e /\ s[j] \in Range(s)
  BY DEF Range
<1>3. \A j, k \in 1..Len(s) : s[j] = s[k] => j = k
  BY DEF IsInjective
<1>4. ASSUME NEW j \in 1..Len(t), NEW k \in 1..Len(t), t[j] = t[k]
      PROVE  j = k
  <2> DEFINE old(n) == IF n < i THEN n ELSE n - 1
  <2>1. \A n \in 1..Len(t) : n # i => old(n) \in 1..Len(s) /\ t[n] = s[old(n)]
    BY <1>1
  <2>2. t[i] = e
    BY <1>1
  <2>3. CASE j # i /\ k # i
    <3>1. old(j) = old(k)
      BY <2>1, <2>3, <1>3, <1>4
    <3> QED
      BY <3>1, <2>3, <1>1
  <2>4. ASSUME NEW n \in 1..Len(t), n # i PROVE t[n] # t[i]
    BY <2>1, <2>2, <2>4, <1>2
  <2> QED
    BY <2>3, <2>4, <1>4
<1>5. IsInjective(t)
  BY <1>1, <1>4 DEF IsInjective
<1>6. Range(t) \subseteq Range(s) \cup {e}
  BY <1>1, <1>2 DEF Range
<1>7. ASSUME NEW x \in Range(s) PROVE x \in Range(t)
  <2>1. PICK j \in 1..Len(s) : s[j] = x
    BY DEF Range
  <2> DEFINE k == IF j < i THEN j ELSE j + 1
  <2>2. k \in 1..Len(t) /\ t[k] = x
    BY <2>1, <1>1
  <2> HIDE DEF k
  <2> QED
    BY <2>2, <1>1 DEF Range
<1>8. e \in Range(t)
  BY <1>1 DEF Range
<1> QED
  BY <1>5, <1>6, <1>7, <1>8 DEF t

(***************************************************************************)
(* The least of a set of numbers: what a proof by induction over the steps *)
(* of a recursion, or over the places in a sequence, begins with.          *)
(***************************************************************************)
Less == { p \in Nat \X Nat : p[1] < p[2] }

LEMMA LessWellFounded == IsWellFoundedOn(Less, Nat)
  BY NatLessThanWellFounded DEF OpToRel, Less

LEMMA LeastNatural ==
    ASSUME NEW T \in SUBSET Nat, T # {}
    PROVE  \E m \in T : \A n \in T : m <= n
<1>1. PICK m \in T : \A n \in T : ~(<<n, m>> \in Less)
  BY LessWellFounded, WFMin
<1>2. ASSUME NEW n \in T PROVE m <= n
  <2>1. m \in Nat /\ n \in Nat /\ <<n, m>> \notin Less
    BY <1>1
  <2>2. ~(n < m)
    BY <2>1 DEF Less
  <2> QED
    BY <2>1, <2>2
<1> QED
  BY <1>2

\* A sequence that is made of a finite set has the elements of the set.
LEMMA SetToSeqElements ==
    ASSUME NEW S, IsFiniteSet(S)
    PROVE  /\ SetToSeq(S) \in Seq(S)
           /\ \A x \in S : \E i \in DOMAIN SetToSeq(S) : SetToSeq(S)[i] = x
<1> DEFINE n == Cardinality(S)
           f == SetToSeq(S)
<1>1. n \in Nat /\ ExistsBijection(1..n, S)
  BY FS_CardinalityType
<1>2. PICK b : b \in Bijection(1..n, S)
  BY <1>1 DEF ExistsBijection
<1>3. b \in [1..n -> S] /\ IsInjective(b)
  BY <1>2 DEF Bijection, Injection
<1>4. f \in [1..n -> S] /\ IsInjective(f)
  BY <1>3 DEF SetToSeq
<1> HIDE DEF f
<1>5. f \in Injection(1..n, S)
  BY <1>4 DEF Injection
<1>6. Cardinality(1..n) = n
  <2>1. Cardinality(1..n) = IF 1 > n THEN 0 ELSE n - 1 + 1
    BY <1>1, FS_Interval, 1 \in Int, n \in Int
  <2> HIDE DEF n
  <2> QED
    BY <1>1, <2>1
<1>7. f \in Surjection(1..n, S)
  BY <1>5, <1>6, FS_Injection
<1>8. \A x \in S : \E i \in 1..n : f[i] = x
  BY <1>7 DEF Surjection
<1>9. DOMAIN f = 1..n /\ f \in Seq(S)
  <2> HIDE DEF n
  <2> QED
    BY <1>1, <1>4
<1> QED
  BY <1>8, <1>9 DEF f

\* A sequence without repetitions is as long as the set of its elements.
LEMMA RangeCounted ==
    ASSUME NEW S, NEW s \in Seq(S), IsInjective(s)
    PROVE  IsFiniteSet(Range(s)) /\ Cardinality(Range(s)) = Len(s)
<1>1. Len(s) \in Nat /\ s \in [1..Len(s) -> Range(s)]
  BY DEF Range
<1>2. s \in Bijection(1..Len(s), Range(s))
  BY <1>1 DEF Bijection, Injection, Surjection, IsInjective, Range
<1>3. IsFiniteSet(1..Len(s)) /\ Cardinality(1..Len(s)) = Len(s)
  BY <1>1, FS_Interval, 1 \in Int, Len(s) \in Int
<1>4. ExistsBijection(1..Len(s), Range(s))
  BY <1>2 DEF ExistsBijection
<1> QED
  BY <1>3, <1>4, FS_Bijection

\* What is left of a sequence without its i-th element.
LEMMA RemoveAtElements ==
    ASSUME NEW S, NEW s \in Seq(S), NEW i \in 1..Len(s)
    PROVE  /\ RemoveAt(s, i) \in Seq(S)
           /\ Len(RemoveAt(s, i)) = Len(s) - 1
           /\ \A j \in 1..(Len(s) - 1) : RemoveAt(s, i)[j] = IF j < i THEN s[j] ELSE s[j + 1]
<1> DEFINE a == SubSeq(s, 1, i - 1)
           b == SubSeq(s, i + 1, Len(s))
<1>1. Len(s) \in Nat /\ i \in Nat /\ i > 0 /\ i <= Len(s)
  OBVIOUS
<1>2. a \in Seq(S) /\ Len(a) = i - 1 /\ \A j \in 1..(i - 1) : a[j] = s[j]
  OBVIOUS
<1>3. /\ b \in Seq(S) /\ Len(b) = Len(s) - i
      /\ \A j \in 1..(Len(s) - i) : b[j] = s[i + j]
  OBVIOUS
<1> HIDE DEF a, b
<1>4. RemoveAt(s, i) = a \o b
  BY DEF RemoveAt, a, b
<1>5. a \o b \in Seq(S) /\ Len(a \o b) = Len(s) - 1
  <2>0. a \in Seq(S) /\ b \in Seq(S)
    BY <1>2, <1>3
  <2>1. a \o b \in Seq(S) /\ Len(a \o b) = Len(a) + Len(b)
    BY <2>0, Zenon, ConcatProperties
  <2> QED
    BY <1>1, <1>2, <1>3, <2>1
<1>6. ASSUME NEW j \in 1..(Len(s) - 1)
      PROVE  (a \o b)[j] = IF j < i THEN s[j] ELSE s[j + 1]
  <2>1. CASE j < i
    <3>1. j \in 1..Len(a)
      BY <1>1, <1>2, <2>1
    <3>2. (a \o b)[j] = a[j]
      BY <1>2, <1>3, <3>1
    <3> QED
      BY <1>2, <2>1, <3>1, <3>2
  <2>2. CASE ~(j < i)
    <3>1. j - (i - 1) \in 1..Len(b) /\ Len(a) = i - 1 /\ Len(a) \in Nat
      BY <1>1, <1>2, <1>3, <2>2
    <3>2. (a \o b)[j] = b[j - (i - 1)]
      BY <1>2, <1>3, <3>1
    <3>3. b[j - (i - 1)] = s[i + (j - (i - 1))] /\ i + (j - (i - 1)) = j + 1
      BY <1>1, <1>3, <3>1
    <3> QED
      BY <2>2, <3>2, <3>3
  <2> QED
    BY <2>1, <2>2
<1> QED
  BY <1>4, <1>5, <1>6

(***************************************************************************)
(* Two recursions that a model defines with CHOOSE: a walk from a start,   *)
(* each step looked up, and the elements of a list that are not skipped.   *)
(***************************************************************************)
IsWalk(at, start, step, n) ==
    at = [k \in 0..n |-> IF k = 0 THEN start ELSE step[at[k - 1]]]

LEMMA WalkExists ==
    ASSUME NEW start, NEW step, NEW n \in Nat
    PROVE  \E at : IsWalk(at, start, step, n)
<1> DEFINE Bad == {k \in Nat : ~\E at : IsWalk(at, start, step, k)}
<1>1. SUFFICES ASSUME Bad # {} PROVE FALSE
  OBVIOUS
<1>2. PICK k \in Bad : \A m \in Bad : k <= m
  BY <1>1, LeastNatural
<1>3. CASE k = 0
  <2> DEFINE f == [i \in 0..0 |-> start]
  <2>1. IsWalk(f, start, step, 0)
    BY DEF IsWalk
  <2> QED
    BY <2>1, <1>2, <1>3
<1>4. CASE k # 0
  <2>1. k \in Nat /\ k - 1 \in Nat /\ k - 1 \notin Bad
    BY <1>2, <1>4
  <2>2. PICK f : IsWalk(f, start, step, k - 1)
    BY <2>1
  <2> DEFINE Along(g, i) == IF i = 0 THEN start ELSE step[g[i - 1]]
             g == [i \in 0..k |-> IF i = k THEN step[f[k - 1]] ELSE f[i]]
  <2>3. \A i \in 0..(k - 1) : f[i] = Along(f, i)
    BY <2>2 DEF IsWalk
  <2>4. \A i \in 0..k : g[i] = IF i = k THEN step[f[k - 1]] ELSE f[i]
    OBVIOUS
  <2> HIDE DEF g
  <2>5. ASSUME NEW i \in 0..k PROVE g[i] = Along(g, i)
    <3>1. CASE i = k
      <4>1. g[i - 1] = f[k - 1]
        BY <3>1, <2>1, <2>4, <1>4
      <4> QED
        BY <4>1, <3>1, <1>4, <2>4
    <3>2. CASE i # k
      <4>1. i \in 0..(k - 1) /\ g[i] = f[i] /\ (i # 0 => g[i - 1] = f[i - 1])
        BY <3>2, <2>1, <2>4
      <4> QED
        BY <4>1, <2>3
    <3> QED
      BY <3>1, <3>2
  <2>6. g = [i \in 0..k |-> Along(g, i)]
    BY <2>5, Zenon DEF g
  <2>7. IsWalk(g, start, step, k)
    BY <2>6 DEF IsWalk
  <2> QED
    BY <2>1, <2>7, <1>2
<1> QED
  BY <1>3, <1>4

\* A walk begins at its start and goes on step by step.
LEMMA WalkSteps ==
    ASSUME NEW start, NEW step, NEW n \in Nat, NEW at, IsWalk(at, start, step, n)
    PROVE  /\ at[0] = start
           /\ \A k \in 1..n : at[k] = step[at[k - 1]]
<1>1. \A k \in 0..n : at[k] = IF k = 0 THEN start ELSE step[at[k - 1]]
  BY Zenon DEF IsWalk
<1> QED
  BY <1>1

\* What holds at the start and is kept by every step holds all along a walk.
LEMMA WalkStays ==
    ASSUME NEW start, NEW step, NEW n \in Nat, NEW at, IsWalk(at, start, step, n),
           NEW S, start \in S, \A x \in S : step[x] \in S
    PROVE  \A k \in 0..n : at[k] \in S
<1> DEFINE Bad == {k \in Nat : k \in 0..n /\ at[k] \notin S}
<1>1. at[0] = start /\ \A k \in 1..n : at[k] = step[at[k - 1]]
  BY WalkSteps
<1>2. SUFFICES ASSUME Bad # {} PROVE FALSE
  OBVIOUS
<1>3. PICK k \in Bad : \A m \in Bad : k <= m
  BY <1>2, LeastNatural
<1>4. k # 0 /\ k \in 1..n /\ k - 1 \in 0..n /\ k - 1 \in Nat
  BY <1>1, <1>3
<1>5. at[k - 1] \in S
  BY <1>3, <1>4
<1> QED
  BY <1>1, <1>3, <1>4, <1>5

IsShown(f, list, skipped, n) ==
    f = [i \in 0..n |-> IF i = 0 THEN <<>>
                        ELSE IF list[i] \in skipped THEN f[i - 1]
                        ELSE Append(f[i - 1], list[i])]

LEMMA ShownExists ==
    ASSUME NEW list, NEW skipped, NEW n \in Nat
    PROVE  \E f : IsShown(f, list, skipped, n)
<1> DEFINE Bad == {k \in Nat : ~\E f : IsShown(f, list, skipped, k)}
           More(t, i) == IF list[i] \in skipped THEN t ELSE Append(t, list[i])
           Grow(f, i) == IF i = 0 THEN <<>> ELSE More(f[i - 1], i)
<1>0. \A f, k : IsShown(f, list, skipped, k) <=> f = [i \in 0..k |-> Grow(f, i)]
  BY DEF IsShown
<1> HIDE DEF More
<1>1. SUFFICES ASSUME Bad # {} PROVE FALSE
  OBVIOUS
<1>2. PICK k \in Bad : \A m \in Bad : k <= m
  BY <1>1, LeastNatural
<1>3. CASE k = 0
  <2> DEFINE f == [i \in 0..0 |-> <<>>]
  <2>1. f = [i \in 0..0 |-> Grow(f, i)]
    OBVIOUS
  <2> QED
    BY <2>1, <1>0, <1>2, <1>3
<1>4. CASE k # 0
  <2>1. k \in Nat /\ k - 1 \in Nat /\ k - 1 \notin Bad
    BY <1>2, <1>4
  <2>2. PICK f : f = [i \in 0..(k - 1) |-> Grow(f, i)]
    BY <2>1, <1>0
  <2> DEFINE g == [i \in 0..k |-> IF i = k THEN More(f[k - 1], k) ELSE f[i]]
  <2>3. \A i \in 0..(k - 1) : f[i] = Grow(f, i)
    BY <2>2
  <2>4. \A i \in 0..k : g[i] = IF i = k THEN More(f[k - 1], k) ELSE f[i]
    OBVIOUS
  <2> HIDE DEF g
  <2>5. ASSUME NEW i \in 0..k PROVE g[i] = Grow(g, i)
    <3>1. CASE i = k
      <4>1. g[i - 1] = f[k - 1]
        BY <3>1, <2>1, <2>4, <1>4
      <4> QED
        BY <4>1, <3>1, <1>4, <2>4
    <3>2. CASE i # k
      <4>1. i \in 0..(k - 1) /\ g[i] = f[i] /\ (i # 0 => g[i - 1] = f[i - 1])
        BY <3>2, <2>1, <2>4
      <4> QED
        BY <4>1, <2>3
    <3> QED
      BY <3>1, <3>2
  <2>6. g = [i \in 0..k |-> Grow(g, i)]
    BY <2>5, Zenon DEF g
  <2> QED
    BY <2>1, <2>6, <1>0, <1>2
<1> QED
  BY <1>3, <1>4
=============================================================================
