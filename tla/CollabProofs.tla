---------------------------- MODULE CollabProofs ----------------------------
(***************************************************************************)
(* Proofs about Collab, for any number of users and elements: the worker   *)
(* never meets an element before the one it was typed behind, and an       *)
(* editor shows its list.  The second rests on what ClientList promises of *)
(* each handler: a list of a document is a sequence of the known elements, *)
(* and the text is the part of it that is not deleted, in its order.  The  *)
(* second half of the module is about two users, who end up with the same  *)
(* text.                                                                   *)
(***************************************************************************)
EXTENDS Collab, SequenceLemmas, TLAPS

(***************************************************************************)
(* Walks.                                                                  *)
(***************************************************************************)
LEMMA PathIsWalk ==
    ASSUME NEW start, NEW step, NEW n \in Nat
    PROVE  IsWalk(Path(start, step, n), start, step, n)
<1>1. Path(start, step, n) = CHOOSE f : IsWalk(f, start, step, n)
  BY DEF Path, IsWalk
<1> QED
  BY <1>1, WalkExists, Zenon

\* A path begins at its start and goes on step by step.
LEMMA PathSteps ==
    ASSUME NEW start, NEW step, NEW n \in Nat, NEW at, at = Path(start, step, n)
    PROVE  /\ at[0] = start
           /\ \A k \in 1..n : at[k] = step[at[k - 1]]
<1>1. IsWalk(at, start, step, n)
  BY PathIsWalk
<1>2. \A f : IsWalk(f, start, step, n) => f[0] = start /\ \A k \in 1..n : f[k] = step[f[k - 1]]
  BY WalkSteps
<1> QED
  BY <1>1, <1>2

\* What holds at the start and is kept by every step holds all along a path.
LEMMA PathStays ==
    ASSUME NEW start, NEW step, NEW n \in Nat, NEW S, start \in S, \A x \in S : step[x] \in S
    PROVE  \A k \in 0..n : Path(start, step, n)[k] \in S
  BY PathIsWalk, WalkStays

-----------------------------------------------------------------------------
(***************************************************************************)
(* The list of a document, and its text.                                   *)
(***************************************************************************)
At(s, i) == IF i \in 1..Len(s) THEN s[i] ELSE NIL

\* A document has the fields of a document.
IsDoc(d) ==
    d = [next |-> d.next, prev |-> d.prev, head |-> d.head, dead |-> d.dead, text |-> d.text,
         length |-> d.length]

\* The pointers are those of the sequence s.
ListOf(d, s) ==
    /\ s \in Seq(Ids) /\ IsInjective(s) /\ Range(s) = Known(d)
    /\ d.head = At(s, 1)
    /\ \A i \in 1..Len(s) : d.next[s[i]] = At(s, i + 1) /\ d.prev[s[i]] = At(s, i - 1)

\* t has the elements of s that are in T, each once and in the order of s.
Selects(t, s, T) ==
    /\ t \in Seq(Ids) /\ IsInjective(t) /\ Range(t) = Range(s) \cap T
    /\ \A i, j \in 1..Len(t) : \A p, q \in 1..Len(s) :
           i < j /\ s[p] = t[i] /\ s[q] = t[j] => p < q

\* Elements of a sequence without repetitions.
LEMMA SeqFacts ==
    ASSUME NEW S, NEW s \in Seq(S), IsInjective(s)
    PROVE  /\ Len(s) \in Nat /\ DOMAIN s = 1..Len(s)
           /\ \A i \in 1..Len(s) : s[i] \in Range(s) /\ s[i] \in S
           /\ \A i, j \in 1..Len(s) : s[i] = s[j] => i = j
           /\ \A x \in Range(s) : \E i \in 1..Len(s) : s[i] = x
<1>1. Len(s) \in Nat /\ DOMAIN s = 1..Len(s) /\ \A i \in 1..Len(s) : s[i] \in S
  OBVIOUS
<1> QED
  BY <1>1 DEF Range, IsInjective

\* Of two such selections one goes along with the other.
LEMMA SelectionAlong ==
    ASSUME NEW s \in Seq(Ids), IsInjective(s), NEW T, NEW t, NEW u, Selects(t, s, T), Selects(u, s, T),
           NEW k \in 1..Len(t), \A j \in 1..(k - 1) : j <= Len(u) /\ u[j] = t[j]
    PROVE  k <= Len(u) /\ u[k] = t[k]
<1>1. /\ Len(t) \in Nat /\ Len(u) \in Nat
      /\ \A i, j \in 1..Len(t) : t[i] = t[j] => i = j
      /\ \A i, j \in 1..Len(u) : u[i] = u[j] => i = j
      /\ \A i \in 1..Len(t) : \E j \in 1..Len(u) : u[j] = t[i]
      /\ \A i \in 1..Len(u) : \E j \in 1..Len(t) : t[j] = u[i]
      /\ \A i \in 1..Len(t) : \E p \in 1..Len(s) : s[p] = t[i]
  <2>1. /\ t \in Seq(Ids) /\ IsInjective(t) /\ Range(t) = Range(s) \cap T
        /\ u \in Seq(Ids) /\ IsInjective(u) /\ Range(u) = Range(s) \cap T
    BY DEF Selects
  <2>2. /\ Len(t) \in Nat /\ \A i \in 1..Len(t) : t[i] \in Range(t)
        /\ \A i, j \in 1..Len(t) : t[i] = t[j] => i = j
        /\ \A x \in Range(t) : \E i \in 1..Len(t) : t[i] = x
    BY <2>1, SeqFacts
  <2>3. /\ Len(u) \in Nat /\ \A i \in 1..Len(u) : u[i] \in Range(u)
        /\ \A i, j \in 1..Len(u) : u[i] = u[j] => i = j
        /\ \A x \in Range(u) : \E i \in 1..Len(u) : u[i] = x
    BY <2>1, SeqFacts
  <2>4. \A x \in Range(s) : \E p \in 1..Len(s) : s[p] = x
    BY SeqFacts
  <2> HIDE DEF Selects
  <2> QED
    BY <2>1, <2>2, <2>3, <2>4
<1>2. PICK m \in 1..Len(u) : u[m] = t[k]
  BY <1>1
<1>3. ~(m < k)
  <2> SUFFICES ASSUME m < k PROVE FALSE
    OBVIOUS
  <2>1. m \in 1..(k - 1) /\ m \in 1..Len(t) /\ u[m] = t[m]
    BY <1>1, <1>2
  <2> QED
    BY <2>1, <1>1, <1>2
<1>4. k \in 1..Len(u)
  BY <1>1, <1>2, <1>3
<1>5. PICK l \in 1..Len(t) : t[l] = u[k]
  BY <1>1, <1>4
<1>6. ~(l < k)
  <2> SUFFICES ASSUME l < k PROVE FALSE
    OBVIOUS
  <2>1. l \in 1..(k - 1) /\ l \in 1..Len(u) /\ u[l] = t[l]
    BY <1>1, <1>4, <1>5
  <2> QED
    BY <2>1, <1>1, <1>4, <1>5
<1>7. CASE m = k
  BY <1>2, <1>4, <1>7
<1>8. CASE m # k
  <2>1. k < m /\ k < l
    <3>1. k < m
      BY <1>1, <1>3, <1>8
    <3>2. l # k
      BY <1>1, <1>2, <1>4, <1>5, <1>8
    <3> QED
      BY <3>1, <3>2, <1>1, <1>6
  <2>2. PICK p \in 1..Len(s) : s[p] = t[k]
    BY <1>1
  <2>3. PICK q \in 1..Len(s) : s[q] = t[l]
    BY <1>1
  <2>4. p < q
    BY <2>1, <2>2, <2>3 DEF Selects
  <2>5. q < p
    BY <1>2, <1>4, <1>5, <2>1, <2>2, <2>3 DEF Selects
  <2>6. p \in Nat /\ q \in Nat
    BY SeqFacts
  <2> QED
    BY <2>4, <2>5, <2>6
<1> QED
  BY <1>7, <1>8

\* There is only one.
LEMMA SelectionUnique ==
    ASSUME NEW s \in Seq(Ids), IsInjective(s), NEW T, NEW t, NEW u, Selects(t, s, T), Selects(u, s, T)
    PROVE  t = u
<1> DEFINE Same(k) == k <= Len(t) /\ k <= Len(u) /\ t[k] = u[k]
           Bad == {k \in Nat \ {0} : (k <= Len(t) \/ k <= Len(u)) /\ ~Same(k)}
<1>1. Len(t) \in Nat /\ Len(u) \in Nat /\ t \in Seq(Ids) /\ u \in Seq(Ids)
  BY DEF Selects
<1>2. Bad = {}
  <2> SUFFICES ASSUME Bad # {} PROVE FALSE
    OBVIOUS
  <2>1. Bad \in SUBSET Nat
    OBVIOUS
  <2>2. PICK k \in Bad : \A m \in Bad : k <= m
    BY <2>1, LeastNatural
  <2>3. ASSUME NEW j \in 1..(k - 1) PROVE Same(j)
    <3>1. j \in Nat \ {0} /\ j < k /\ (j <= Len(t) \/ j <= Len(u))
      BY <1>1, <2>2
    <3>2. j \notin Bad
      BY <3>1, <2>2
    <3> QED
      BY <3>1, <3>2
  <2>4. CASE k <= Len(t)
    <3>1. k \in 1..Len(t) /\ \A j \in 1..(k - 1) : j <= Len(u) /\ u[j] = t[j]
      BY <1>1, <2>2, <2>3, <2>4
    <3>2. k <= Len(u) /\ u[k] = t[k]
      BY <3>1, SelectionAlong
    <3> QED
      BY <3>2, <2>2, <2>4
  <2>5. CASE k <= Len(u)
    <3>1. k \in 1..Len(u) /\ \A j \in 1..(k - 1) : j <= Len(t) /\ t[j] = u[j]
      BY <1>1, <2>2, <2>3, <2>5
    <3>2. k <= Len(t) /\ t[k] = u[k]
      BY <3>1, SelectionAlong
    <3> QED
      BY <3>2, <2>2, <2>5
  <2> QED
    BY <2>2, <2>4, <2>5
<1>3. \A k \in Nat \ {0} : k <= Len(t) \/ k <= Len(u) => Same(k)
  BY <1>2
<1>4. Len(t) = Len(u)
  <2>1. Len(t) # 0 => Same(Len(t))
    BY <1>1, <1>3
  <2>2. Len(u) # 0 => Same(Len(u))
    BY <1>1, <1>3
  <2> QED
    BY <1>1, <2>1, <2>2
<1>5. \A k \in 1..Len(t) : t[k] = u[k]
  BY <1>1, <1>3
<1> QED
  BY <1>1, <1>4, <1>5, SeqEqual

\* What ListOf says of the elements.
LEMMA ListFacts ==
    ASSUME NEW d, NEW s, ListOf(d, s)
    PROVE  /\ Len(s) \in Nat
           /\ \A i \in 1..Len(s) : s[i] \in Known(d) /\ s[i] \in Ids /\ s[i] # NIL
           /\ \A i, j \in 1..Len(s) : s[i] = s[j] => i = j
           /\ \A x \in Known(d) : \E i \in 1..Len(s) : s[i] = x
           /\ Known(d) \subseteq Ids /\ NIL \notin Known(d)
           /\ Cardinality(Known(d)) = Len(s)
<1>1. s \in Seq(Ids) /\ IsInjective(s) /\ Range(s) = Known(d)
  BY DEF ListOf
<1>2. /\ Len(s) \in Nat
      /\ \A i \in 1..Len(s) : s[i] \in Range(s) /\ s[i] \in Ids
      /\ \A i, j \in 1..Len(s) : s[i] = s[j] => i = j
      /\ \A x \in Range(s) : \E i \in 1..Len(s) : s[i] = x
  BY <1>1, SeqFacts
<1>3. Cardinality(Range(s)) = Len(s)
  BY <1>1, RangeCounted
<1>4. NIL \notin Ids
  BY CollabAssumption
<1> QED
  BY <1>1, <1>2, <1>3, <1>4

\* handleRemoteInput goes on from element to element of the list.
LEMMA PlaceIsKnown ==
    ASSUME NEW d, NEW id, NEW prev, IsFiniteSet(Known(d)), d.next \in [Known(d) -> Known(d) \cup {NIL}]
    PROVE  ListPlace(d, id, prev) \in Known(d) \cup {NIL}
<1> DEFINE step == [k \in Known(d) |->
                       IF d.next[k] = NIL \/ IsLess(d.next[k], id) THEN k ELSE d.next[k]]
           n == Cardinality(Known(d))
<1>1. n \in Nat /\ n \in 0..n
  BY FS_CardinalityType
<1>2. \A k \in Known(d) : step[k] \in Known(d)
  BY DEF IsLess
<1>3. ListPlace(d, id, prev) = IF prev \in Known(d) THEN Path(prev, step, n)[n] ELSE NIL
  BY DEF ListPlace, WalkEnd
<1> HIDE DEF step, n
<1>4. prev \in Known(d) => Path(prev, step, n)[n] \in Known(d)
  BY <1>1, <1>2, PathStays
<1> QED
  BY <1>3, <1>4

\* The backward traversal of handleRemoteInput ends at the last element that
\* is not deleted, or in front of the list.
LEMMA VisibleBeforePlace ==
    ASSUME NEW d, NEW s, ListOf(d, s), d.dead \subseteq Known(d), NEW q \in 0..Len(s)
    PROVE  \E r \in 0..q : /\ VisibleBefore(d, At(s, q)) = At(s, r)
                           /\ \A i \in (r + 1)..q : s[i] \in d.dead
                           /\ r # 0 => s[r] \notin d.dead
<1> DEFINE step == [k \in Known(d) \cup {NIL} |-> IF k \in d.dead THEN d.prev[k] ELSE k]
           n == Len(s)
           at == Path(At(s, q), step, n)
           Back(k, r) == /\ at[k] = At(s, r)
                         /\ \A i \in (r + 1)..q : s[i] \in d.dead
                         /\ r = 0 \/ s[r] \notin d.dead \/ r = q - k
           Bad == {k \in Nat : k <= n /\ ~\E r \in 0..q : Back(k, r)}
<1>1. VisibleBefore(d, At(s, q)) = at[n] /\ n \in Nat /\ q \in Nat /\ q <= n
  BY ListFacts DEF VisibleBefore, WalkEnd
<1> HIDE DEF step, n
<1>2. at[0] = At(s, q) /\ \A k \in 1..n : at[k] = step[at[k - 1]]
  BY <1>1, PathSteps
<1> HIDE DEF at
<1>3. step[NIL] = NIL /\ \A i \in 1..n : step[s[i]] = IF s[i] \in d.dead THEN At(s, i - 1) ELSE s[i]
  BY ListFacts DEF ListOf, step, n
<1>4. Bad = {}
  <2> SUFFICES ASSUME Bad # {} PROVE FALSE
    OBVIOUS
  <2>1. PICK k \in Bad : \A m \in Bad : k <= m
    BY LeastNatural
  <2>2. k \in Nat /\ k <= n /\ ~\E r \in 0..q : Back(k, r)
    BY <2>1
  <2>3. CASE k = 0
    <3>1. Back(0, q) /\ q \in 0..q
      BY <1>1, <1>2
    <3> QED
      BY <3>1, <2>2, <2>3
  <2>4. CASE k # 0
    <3>1. k - 1 \in Nat /\ k - 1 <= n /\ k - 1 \notin Bad /\ k \in 1..n
      BY <1>1, <2>1, <2>2, <2>4
    <3>2. PICK r \in 0..q : Back(k - 1, r)
      BY <3>1
    <3>3. at[k] = step[At(s, r)] /\ r \in Nat
      BY <1>1, <1>2, <3>1, <3>2
    <3>4. CASE r = 0
      <4>1. Back(k, 0) /\ 0 \in 0..q
        BY <1>1, <1>3, <3>2, <3>3, <3>4 DEF At
      <4> QED
        BY <4>1, <2>2
    <3>5. CASE r # 0 /\ s[r] \notin d.dead
      <4>1. r \in 1..n /\ At(s, r) = s[r]
        BY <1>1, <3>3, <3>5 DEF At, n
      <4>2. Back(k, r)
        BY <1>3, <3>2, <3>3, <3>5, <4>1
      <4> QED
        BY <4>2, <2>2
    <3>6. CASE r # 0 /\ s[r] \in d.dead
      <4>1. r \in 1..n /\ At(s, r) = s[r] /\ r - 1 \in 0..q
        BY <1>1, <3>3, <3>6 DEF At, n
      <4>2. at[k] = At(s, r - 1)
        BY <1>3, <3>3, <3>6, <4>1
      <4>3. \A i \in ((r - 1) + 1)..q : s[i] \in d.dead
        BY <1>1, <3>2, <3>3, <3>6
      <4>4. r - 1 = q - k
        BY <1>1, <2>2, <3>2, <3>3, <3>6
      <4>5. Back(k, r - 1)
        BY <4>2, <4>3, <4>4
      <4> QED
        BY <4>1, <4>5, <2>2
    <3> QED
      BY <3>4, <3>5, <3>6
  <2> QED
    BY <2>3, <2>4
<1>5. PICK r \in 0..q : Back(n, r)
  BY <1>1, <1>4
<1>6. r # 0 => s[r] \notin d.dead
  BY <1>1, <1>5
<1> QED
  BY <1>1, <1>5, <1>6

\* The element at each place of the list once id has been inserted.
LEMMA AtInserted ==
    ASSUME NEW s \in Seq(Ids), NEW e \in Ids, NEW k \in 1..(Len(s) + 1), NEW j \in Int
    PROVE  At(InsertAt(s, k, e), j) = IF j < k THEN At(s, j)
                                      ELSE IF j = k THEN e ELSE At(s, j - 1)
<1> DEFINE t == InsertAt(s, k, e)
<1>1. Len(s) \in Nat
  OBVIOUS
<1>2. /\ Len(t) = Len(s) + 1
      /\ \A i \in 1..(Len(s) + 1) :
            t[i] = IF i < k THEN s[i] ELSE IF i = k THEN e ELSE s[i - 1]
  BY InsertAtElements DEF IsInsertion
<1> SUFFICES At(t, j) = IF j < k THEN At(s, j) ELSE IF j = k THEN e ELSE At(s, j - 1)
  OBVIOUS
<1> HIDE DEF t
<1>3. CASE j \notin 1..(Len(s) + 1)
  BY <1>1, <1>2, <1>3 DEF At
<1>4. CASE j \in 1..(Len(s) + 1)
  BY <1>1, <1>2, <1>4 DEF At
<1> QED
  BY <1>3, <1>4

\* Insert links an element into the list between two neighbours.
LEMMA ListInserted ==
    ASSUME NEW d, NEW s, ListOf(d, s), NEW q \in 0..Len(s), NEW id \in Ids, id \notin Known(d), NEW ch
    PROVE  ListOf(Insert(d, id, At(s, q), At(s, q + 1), ch), InsertAt(s, q + 1, id))
<1> DEFINE t == InsertAt(s, q + 1, id)
           new == Insert(d, id, At(s, q), At(s, q + 1), ch)
<1>1. /\ Len(s) \in Nat /\ q \in Nat /\ q <= Len(s) /\ q + 1 \in 1..(Len(s) + 1) /\ s \in Seq(Ids)
      /\ IsInjective(s) /\ Range(s) = Known(d) /\ id \notin Range(s)
  BY ListFacts DEF ListOf
<1>2. /\ t \in Seq(Ids) /\ Len(t) = Len(s) + 1
      /\ \A j \in 1..(Len(s) + 1) :
            t[j] = IF j < q + 1 THEN s[j] ELSE IF j = q + 1 THEN id ELSE s[j - 1]
  BY <1>1, InsertAtElements DEF IsInsertion
<1>3. IsInjective(t) /\ Range(t) = Known(d) \cup {id}
  BY <1>1, InsertAtInjective
<1>4. \A j \in Int : At(t, j) = IF j < q + 1 THEN At(s, j) ELSE IF j = q + 1 THEN id ELSE At(s, j - 1)
  BY <1>1, AtInserted
<1>5. /\ Known(new) = Known(d) \cup {id}
      /\ new.head = IF At(s, q) = NIL THEN id ELSE d.head
      /\ \A k \in Known(d) \cup {id} :
            /\ new.next[k] = IF k = id THEN At(s, q + 1) ELSE IF k = At(s, q) THEN id ELSE d.next[k]
            /\ new.prev[k] = IF k = id THEN At(s, q) ELSE IF k = At(s, q + 1) THEN id ELSE d.prev[k]
  BY DEF Insert, Known
<1> HIDE DEF t, new
<1>6. /\ \A i \in 1..Len(s) : s[i] \in Known(d) /\ s[i] # NIL /\ s[i] # id
      /\ \A i, j \in 1..Len(s) : s[i] = s[j] => i = j
      /\ \A i \in 1..Len(s) : d.next[s[i]] = At(s, i + 1) /\ d.prev[s[i]] = At(s, i - 1)
      /\ d.head = At(s, 1)
  <2>1. /\ \A i \in 1..Len(s) : d.next[s[i]] = At(s, i + 1) /\ d.prev[s[i]] = At(s, i - 1)
        /\ d.head = At(s, 1)
    BY DEF ListOf
  <2>2. /\ \A i \in 1..Len(s) : s[i] \in Known(d) /\ s[i] # NIL
        /\ \A i, j \in 1..Len(s) : s[i] = s[j] => i = j
    BY ListFacts
  <2> QED
    BY <2>1, <2>2
<1>7. \A i \in 1..Len(s) : (s[i] = At(s, q) <=> i = q) /\ (s[i] = At(s, q + 1) <=> i = q + 1)
  BY <1>1, <1>6 DEF At
<1>8. new.head = At(t, 1)
  <2>1. At(t, 1) = IF q = 0 THEN id ELSE At(s, 1)
    BY <1>1, <1>4
  <2>2. At(s, q) = NIL <=> q = 0
    BY <1>1, <1>6 DEF At
  <2> QED
    BY <2>1, <2>2, <1>5, <1>6
<1>9. ASSUME NEW j \in 1..Len(t)
      PROVE  new.next[t[j]] = At(t, j + 1) /\ new.prev[t[j]] = At(t, j - 1)
  <2>0. j \in 1..(Len(s) + 1) /\ j \in Int
    BY <1>2
  <2>1. CASE j = q + 1
    <3>1. t[j] = id /\ At(t, j + 1) = At(s, q + 1) /\ At(t, j - 1) = At(s, q)
      BY <1>1, <1>2, <1>4, <2>0, <2>1
    <3> QED
      BY <3>1, <1>5
  <2>2. CASE j < q + 1
    <3>1. /\ t[j] = s[j] /\ j \in 1..Len(s) /\ At(t, j - 1) = At(s, j - 1)
          /\ At(t, j + 1) = IF j = q THEN id ELSE At(s, j + 1)
      BY <1>1, <1>2, <1>4, <2>0, <2>2
    <3>2. s[j] \in Known(d) /\ s[j] # id
      BY <1>6, <3>1
    <3>3. /\ (s[j] = At(s, q)) = (j = q) /\ s[j] # At(s, q + 1)
          /\ d.next[s[j]] = At(s, j + 1) /\ d.prev[s[j]] = At(s, j - 1)
      BY <1>1, <1>6, <1>7, <2>2, <3>1
    <3>4. /\ new.next[s[j]] = IF j = q THEN id ELSE At(s, j + 1)
          /\ new.prev[s[j]] = At(s, j - 1)
      BY <1>5, <3>2, <3>3
    <3> QED
      BY <3>1, <3>4
  <2>3. CASE j > q + 1
    <3>1. /\ t[j] = s[j - 1] /\ j - 1 \in 1..Len(s) /\ At(t, j + 1) = At(s, j)
          /\ At(t, j - 1) = IF j - 1 = q + 1 THEN id ELSE At(s, j - 2)
      BY <1>1, <1>2, <1>4, <2>0, <2>3
    <3>2. /\ new.next[s[j - 1]] = At(s, (j - 1) + 1)
          /\ new.prev[s[j - 1]] = IF j - 1 = q + 1 THEN id ELSE At(s, (j - 1) - 1)
      <4> DEFINE k == j - 1
      <4>1. k \in 1..Len(s) /\ k # q
        BY <1>1, <2>0, <2>3, <3>1
      <4> HIDE DEF k
      <4>2. s[k] \in Known(d) /\ s[k] # id /\ d.next[s[k]] = At(s, k + 1) /\ d.prev[s[k]] = At(s, k - 1)
        BY <1>6, <4>1
      <4>3. s[k] # At(s, q) /\ (s[k] = At(s, q + 1)) = (k = q + 1)
        BY <1>7, <4>1
      <4>4. new.next[s[k]] = At(s, k + 1) /\ new.prev[s[k]] = IF k = q + 1 THEN id ELSE At(s, k - 1)
        BY <1>5, <4>2, <4>3
      <4> QED
        BY <4>4 DEF k
    <3>3. (j - 1) + 1 = j /\ (j - 1) - 1 = j - 2
      BY <2>0
    <3> QED
      BY <3>1, <3>2, <3>3
  <2> QED
    BY <2>0, <2>1, <2>2, <2>3, <1>1
<1> QED
  BY <1>2, <1>3, <1>5, <1>8, <1>9 DEF ListOf, t, new

\* IndexIn finds the place of an element.
LEMMA IndexInFacts ==
    ASSUME NEW S, NEW t \in Seq(S), IsInjective(t), NEW x
    PROVE  /\ IndexIn(t, x) \in 0..Len(t)
           /\ x \in Range(t) => IndexIn(t, x) \in 1..Len(t) /\ t[IndexIn(t, x)] = x
           /\ x \notin Range(t) => IndexIn(t, x) = 0
           /\ \A i \in 1..Len(t) : IndexIn(t, t[i]) = i
<1>1. /\ Len(t) \in Nat
      /\ \A i \in 1..Len(t) : t[i] \in Range(t)
      /\ \A i, j \in 1..Len(t) : t[i] = t[j] => i = j
      /\ \A y \in Range(t) : \E i \in 1..Len(t) : t[i] = y
  BY SeqFacts
<1>2. \A y \in Range(t) : IndexIn(t, y) \in 1..Len(t) /\ t[IndexIn(t, y)] = y
  BY <1>1 DEF IndexIn
<1>3. x \notin Range(t) => IndexIn(t, x) = 0
  BY DEF IndexIn
<1> QED
  BY <1>1, <1>2, <1>3

\* In front of the place behind c visible elements are the elements up to q,
\* if the c-th is the last visible one of them.
LEMMA Boundary ==
    ASSUME NEW s \in Seq(Ids), IsInjective(s), NEW T, NEW t, Selects(t, s, T),
           NEW q \in 0..Len(s), NEW r \in 0..q, \A i \in (r + 1)..q : s[i] \notin T,
           r # 0 => s[r] \in T, NIL \notin Ids,
           NEW l \in 1..Len(t), NEW m \in 1..Len(s), s[m] = t[l]
    PROVE  l <= IndexIn(t, At(s, r)) <=> m <= q
<1> DEFINE c == IndexIn(t, At(s, r))
<1>1. /\ t \in Seq(Ids) /\ IsInjective(t) /\ Range(t) = Range(s) \cap T
      /\ \A i, j \in 1..Len(t) : \A a, b \in 1..Len(s) : i < j /\ s[a] = t[i] /\ s[b] = t[j] => a < b
  BY DEF Selects
<1>2. /\ Len(s) \in Nat /\ Len(t) \in Nat /\ q \in Nat /\ r \in Nat /\ r <= q /\ q <= Len(s)
      /\ l \in Nat /\ m \in Nat /\ m <= Len(s) /\ l <= Len(t) /\ m > 0 /\ l > 0
  BY <1>1
<1>3. t[l] \in T /\ t[l] \in Range(t)
  BY <1>1, SeqFacts
<1>4. m \notin (r + 1)..q
  BY <1>3
<1>5. CASE r = 0
  <2>1. At(s, r) = NIL /\ NIL \notin Range(t)
    BY <1>1, <1>2, <1>5, SeqFacts DEF At
  <2>2. c = 0
    BY <2>1, <1>1, IndexInFacts
  <2> QED
    BY <2>2, <1>2, <1>4, <1>5
<1>6. CASE r # 0
  <2>1. r \in 1..Len(s) /\ At(s, r) = s[r] /\ s[r] \in Range(t)
    <3>1. r \in 1..Len(s)
      BY <1>2, <1>6
    <3>2. s[r] \in Range(s)
      BY <3>1, SeqFacts
    <3> QED
      BY <3>1, <3>2, <1>1, <1>6 DEF At
  <2>2. c \in 1..Len(t) /\ t[c] = s[r]
    BY <2>1, <1>1, IndexInFacts
  <2> HIDE DEF c
  <2>3. l < c => m < r
    BY <2>1, <2>2, <1>1
  <2>4. c < l => r < m
    BY <2>1, <2>2, <1>1
  <2>5. l = c => m = r
    BY <2>1, <2>2, SeqFacts
  <2>6. c \in Nat
    BY <2>2
  <2>7. l <= c => m <= r
    BY <2>3, <2>5, <2>6, <1>2
  <2>8. ~(l <= c) => r < m
    BY <2>4, <2>6, <1>2
  <2>9. ~(l <= c) => ~(m <= q)
    BY <2>8, <1>2, <1>4
  <2>10. l <= c => m <= q
    BY <2>7, <1>2
  <2>11. l <= c <=> m <= q
    BY <2>9, <2>10
  <2> QED
    BY <2>11 DEF c
<1> QED
  BY <1>5, <1>6

\* A visible element that goes behind s[q] in the list goes behind the last
\* visible one up to there in the text.
LEMMA SelectsInserted ==
    ASSUME NEW s \in Seq(Ids), IsInjective(s), NEW T, NEW t, Selects(t, s, T),
           NEW q \in 0..Len(s), NEW r \in 0..q, \A i \in (r + 1)..q : s[i] \notin T,
           r # 0 => s[r] \in T, NIL \notin Ids,
           NEW id \in Ids \cap T, id \notin Range(s)
    PROVE  Selects(InsertAt(t, IndexIn(t, At(s, r)) + 1, id), InsertAt(s, q + 1, id), T)
<1> DEFINE c == IndexIn(t, At(s, r))
           tt == InsertAt(t, c + 1, id)
           ss == InsertAt(s, q + 1, id)
           OldT(n) == IF n < c + 1 THEN n ELSE n - 1
           OldS(n) == IF n < q + 1 THEN n ELSE n - 1
<1>1. /\ t \in Seq(Ids) /\ IsInjective(t) /\ Range(t) = Range(s) \cap T
      /\ \A i, j \in 1..Len(t) : \A a, b \in 1..Len(s) : i < j /\ s[a] = t[i] /\ s[b] = t[j] => a < b
      /\ id \notin Range(t)
  BY DEF Selects
<1>2. /\ Len(s) \in Nat /\ Len(t) \in Nat /\ q \in Nat /\ q <= Len(s) /\ c \in Nat /\ c <= Len(t)
      /\ q + 1 \in 1..(Len(s) + 1) /\ c + 1 \in 1..(Len(t) + 1)
  <2>1. c \in 0..Len(t)
    BY <1>1, IndexInFacts
  <2>2. Len(s) \in Nat /\ Len(t) \in Nat /\ q \in Nat /\ q <= Len(s)
    BY <1>1
  <2> HIDE DEF c
  <2> QED
    BY <2>1, <2>2
<1>3. \A l \in 1..Len(t), m \in 1..Len(s) : s[m] = t[l] => (l <= c <=> m <= q)
  BY Boundary
<1> HIDE DEF c
<1>4. /\ tt \in Seq(Ids) /\ Len(tt) = Len(t) + 1 /\ IsInjective(tt) /\ Range(tt) = Range(t) \cup {id}
      /\ \A j \in 1..(Len(t) + 1) :
            tt[j] = IF j < c + 1 THEN t[j] ELSE IF j = c + 1 THEN id ELSE t[j - 1]
  <2>1. IsInjective(tt) /\ Range(tt) = Range(t) \cup {id}
    BY <1>1, <1>2, InsertAtInjective
  <2>2. tt \in Seq(Ids) /\ Len(tt) = Len(t) + 1 /\ IsInsertion(tt, t, c + 1, id)
    BY <1>1, <1>2, InsertAtElements
  <2> HIDE DEF tt
  <2> QED
    BY <2>1, <2>2 DEF IsInsertion
<1>5. /\ ss \in Seq(Ids) /\ Len(ss) = Len(s) + 1 /\ IsInjective(ss) /\ Range(ss) = Range(s) \cup {id}
      /\ \A j \in 1..(Len(s) + 1) :
            ss[j] = IF j < q + 1 THEN s[j] ELSE IF j = q + 1 THEN id ELSE s[j - 1]
  <2>1. IsInjective(ss) /\ Range(ss) = Range(s) \cup {id}
    BY <1>2, InsertAtInjective
  <2>2. ss \in Seq(Ids) /\ Len(ss) = Len(s) + 1 /\ IsInsertion(ss, s, q + 1, id)
    BY <1>2, InsertAtElements
  <2> HIDE DEF ss
  <2> QED
    BY <2>1, <2>2 DEF IsInsertion
<1> HIDE DEF tt, ss
<1>6. \A n \in 1..Len(tt) : n # c + 1 => OldT(n) \in 1..Len(t) /\ tt[n] = t[OldT(n)]
  BY <1>2, <1>4
<1>7. \A n \in 1..Len(ss) : n # q + 1 => OldS(n) \in 1..Len(s) /\ ss[n] = s[OldS(n)]
  BY <1>2, <1>5
<1>8. \A n \in 1..Len(tt) : tt[n] = id <=> n = c + 1
  <2>1. c + 1 \in 1..Len(tt) /\ tt[c + 1] = id
    BY <1>2, <1>4
  <2> QED
    BY <2>1, <1>4, SeqFacts
<1>9. \A n \in 1..Len(ss) : ss[n] = id <=> n = q + 1
  <2>1. q + 1 \in 1..Len(ss) /\ ss[q + 1] = id
    BY <1>2, <1>5
  <2> QED
    BY <2>1, <1>5, SeqFacts
<1>10. ASSUME NEW i \in 1..Len(tt), NEW j \in 1..Len(tt), NEW a \in 1..Len(ss), NEW b \in 1..Len(ss),
              i < j, ss[a] = tt[i], ss[b] = tt[j]
       PROVE  a < b
  <2>0. i \in Nat /\ j \in Nat /\ a \in Nat /\ b \in Nat
    BY <1>4, <1>5
  <2>1. /\ i # c + 1 => (OldT(i) <= c <=> i < c + 1)
        /\ j # c + 1 => (OldT(j) <= c <=> j < c + 1)
    BY <1>2, <2>0
  <2>2. /\ a # q + 1 => (OldS(a) <= q <=> a < q + 1)
        /\ b # q + 1 => (OldS(b) <= q <=> b < q + 1)
    BY <1>2, <2>0
  <2>3. i # c + 1 /\ j # c + 1 => OldT(i) < OldT(j)
    BY <1>2, <1>10, <2>0
  <2>4. a # q + 1 /\ b # q + 1 /\ OldS(a) < OldS(b) => a < b
    BY <1>2, <2>0
  <2>5. (i = c + 1 <=> a = q + 1) /\ (j = c + 1 <=> b = q + 1)
    BY <1>8, <1>9, <1>10
  <2> HIDE DEF OldS, OldT
  <2>6. i # c + 1 => s[OldS(a)] = t[OldT(i)] /\ OldT(i) \in 1..Len(t) /\ OldS(a) \in 1..Len(s)
    BY <1>6, <1>7, <1>10, <2>5
  <2>7. j # c + 1 => s[OldS(b)] = t[OldT(j)] /\ OldT(j) \in 1..Len(t) /\ OldS(b) \in 1..Len(s)
    BY <1>6, <1>7, <1>10, <2>5
  <2>8. CASE i = c + 1
    <3>1. a = q + 1 /\ j # c + 1 /\ b # q + 1 /\ ~(j < c + 1)
      BY <1>2, <1>10, <2>0, <2>5, <2>8
    <3>2. OldS(b) <= q <=> OldT(j) <= c
      BY <1>3, <2>7, <3>1
    <3>3. ~(b < q + 1)
      BY <2>1, <2>2, <3>1, <3>2
    <3> QED
      BY <1>2, <2>0, <3>1, <3>3
  <2>9. CASE j = c + 1
    <3>1. b = q + 1 /\ i # c + 1 /\ a # q + 1 /\ i < c + 1
      BY <1>10, <2>5, <2>9, <2>0
    <3>2. OldS(a) <= q <=> OldT(i) <= c
      BY <1>3, <2>6, <3>1
    <3> QED
      BY <2>1, <2>2, <3>1, <3>2
  <2>10. CASE i # c + 1 /\ j # c + 1
    <3>1. OldS(a) < OldS(b)
      BY <1>1, <2>3, <2>6, <2>7, <2>10
    <3> QED
      BY <2>4, <2>5, <2>10, <3>1
  <2> QED
    BY <2>8, <2>9, <2>10
<1>11. Range(tt) = Range(ss) \cap T
  BY <1>1, <1>4, <1>5
<1>12. Selects(tt, ss, T)
  BY <1>4, <1>10, <1>11 DEF Selects
<1> QED
  BY <1>12 DEF tt, ss, c

\* The text loses an element that is deleted.
LEMMA SelectsDropped ==
    ASSUME NEW s \in Seq(Ids), NEW T, NEW t, Selects(t, s, T), NEW id
    PROVE  Selects(IF id \in Range(t) THEN RemoveAt(t, IndexIn(t, id)) ELSE t, s, T \ {id})
<1>1. /\ t \in Seq(Ids) /\ IsInjective(t) /\ Range(t) = Range(s) \cap T
      /\ \A i, j \in 1..Len(t) : \A a, b \in 1..Len(s) : i < j /\ s[a] = t[i] /\ s[b] = t[j] => a < b
  BY DEF Selects
<1>2. CASE id \notin Range(t)
  BY <1>1, <1>2 DEF Selects
<1>3. CASE id \in Range(t)
  <2> DEFINE c == IndexIn(t, id)
             tt == RemoveAt(t, c)
             Old(n) == IF n < c THEN n ELSE n + 1
  <2>1. c \in 1..Len(t) /\ t[c] = id
    BY <1>1, <1>3, IndexInFacts
  <2> HIDE DEF c
  <2>2. /\ tt \in Seq(Ids) /\ Len(tt) = Len(t) - 1
        /\ \A j \in 1..(Len(t) - 1) : tt[j] = IF j < c THEN t[j] ELSE t[j + 1]
    BY <1>1, <2>1, RemoveAtElements
  <2> HIDE DEF tt
  <2>3. /\ Len(t) \in Nat
        /\ \A i, j \in 1..Len(t) : t[i] = t[j] => i = j
        /\ \A i \in 1..Len(t) : t[i] \in Range(t)
        /\ \A x \in Range(t) : \E i \in 1..Len(t) : t[i] = x
    BY <1>1, SeqFacts
  <2>4. \A n \in 1..Len(tt) : Old(n) \in 1..Len(t) /\ Old(n) # c /\ tt[n] = t[Old(n)]
    <3> SUFFICES ASSUME NEW n \in 1..Len(tt)
                 PROVE  Old(n) \in 1..Len(t) /\ Old(n) # c /\ tt[n] = t[Old(n)]
      OBVIOUS
    <3>1. n \in 1..(Len(t) - 1) /\ c \in 1..Len(t)
      BY <2>1, <2>2
    <3>2. tt[n] = t[Old(n)]
      BY <2>2, <3>1
    <3>3. Old(n) \in 1..Len(t) /\ Old(n) # c
      BY <2>3, <3>1
    <3> QED
      BY <3>2, <3>3
  <2>5. \A n, m \in 1..Len(tt) : (n < m => Old(n) < Old(m)) /\ (Old(n) = Old(m) => n = m)
    BY <2>1, <2>2, <2>3
  <2>6. DOMAIN tt = 1..Len(tt)
    BY <2>2
  <2>7. IsInjective(tt)
    BY <2>3, <2>4, <2>5, <2>6 DEF IsInjective
  <2>8. ASSUME NEW x \in Range(t), x # id PROVE x \in Range(tt)
    <3>1. PICK i \in 1..Len(t) : t[i] = x
      BY <2>3
    <3> DEFINE n == IF i < c THEN i ELSE i - 1
    <3>2. n \in 1..Len(tt) /\ tt[n] = x
      BY <2>1, <2>2, <2>3, <2>8, <3>1
    <3> HIDE DEF n
    <3> QED
      BY <3>2, <2>6 DEF Range
  <2>9. ASSUME NEW x \in Range(tt) PROVE x \in Range(t) /\ x # id
    <3>1. PICK n \in 1..Len(tt) : tt[n] = x
      BY <2>6 DEF Range
    <3> QED
      BY <3>1, <2>1, <2>3, <2>4
  <2>10. Range(tt) = Range(s) \cap (T \ {id})
    BY <1>1, <2>8, <2>9
  <2>11. ASSUME NEW i \in 1..Len(tt), NEW j \in 1..Len(tt), NEW a \in 1..Len(s), NEW b \in 1..Len(s),
                i < j, s[a] = tt[i], s[b] = tt[j]
         PROVE  a < b
    <3> HIDE DEF Old
    <3>1. Old(i) < Old(j) /\ Old(i) \in 1..Len(t) /\ Old(j) \in 1..Len(t)
      BY <2>4, <2>5, <2>11
    <3>2. s[a] = t[Old(i)] /\ s[b] = t[Old(j)]
      BY <2>4, <2>11
    <3> QED
      BY <1>1, <3>1, <3>2
  <2>12. Selects(tt, s, T \ {id})
    BY <2>2, <2>7, <2>10, <2>11 DEF Selects
  <2> QED
    BY <2>12, <1>3 DEF tt, c
<1> QED
  BY <1>2, <1>3

\* One more element of the list is one more of the text if it is visible.
LEMMA SelectsAppended ==
    ASSUME NEW s \in Seq(Ids), IsInjective(s), NEW T, NEW t, Selects(t, s, T), NEW x \in Ids, x \notin Range(s)
    PROVE  Selects(IF x \in T THEN Append(t, x) ELSE t, Append(s, x), T)
<1> DEFINE tt == IF x \in T THEN Append(t, x) ELSE t
           ss == Append(s, x)
<1>1. /\ t \in Seq(Ids) /\ IsInjective(t) /\ Range(t) = Range(s) \cap T
      /\ \A i, j \in 1..Len(t) : \A a, b \in 1..Len(s) : i < j /\ s[a] = t[i] /\ s[b] = t[j] => a < b
  BY DEF Selects
<1>2. /\ Len(s) \in Nat /\ ss \in Seq(Ids) /\ Len(ss) = Len(s) + 1 /\ DOMAIN ss = 1..(Len(s) + 1)
      /\ \A a \in 1..(Len(s) + 1) : ss[a] = IF a = Len(s) + 1 THEN x ELSE s[a]
  OBVIOUS
<1>3. /\ Len(t) \in Nat /\ tt \in Seq(Ids) /\ Len(tt) = IF x \in T THEN Len(t) + 1 ELSE Len(t)
      /\ DOMAIN tt = 1..Len(tt)
      /\ \A i \in 1..Len(tt) : tt[i] = IF i = Len(t) + 1 THEN x ELSE t[i]
  BY <1>1
<1>4. /\ \A i, j \in 1..Len(t) : t[i] = t[j] => i = j
      /\ \A i \in 1..Len(t) : t[i] \in Range(t)
      /\ \A y \in Range(t) : \E i \in 1..Len(t) : t[i] = y
      /\ x \notin Range(t)
  BY <1>1, SeqFacts
<1>5. /\ \A i \in 1..Len(s) : s[i] \in Range(s)
      /\ \A y \in Range(s) : \E i \in 1..Len(s) : s[i] = y
  BY SeqFacts
<1> HIDE DEF tt, ss
<1>6. Range(ss) = Range(s) \cup {x}
  <2>1. ASSUME NEW y \in Range(ss) PROVE y \in Range(s) \cup {x}
    BY <1>2, <1>5 DEF Range
  <2>2. ASSUME NEW y \in Range(s) PROVE y \in Range(ss)
    <3>1. PICK i \in 1..Len(s) : s[i] = y
      BY <1>5
    <3>2. i \in DOMAIN ss /\ ss[i] = y
      BY <1>2, <3>1
    <3> QED
      BY <3>2 DEF Range
  <2>3. Len(s) + 1 \in DOMAIN ss /\ ss[Len(s) + 1] = x
    BY <1>2
  <2> QED
    BY <2>1, <2>2, <2>3 DEF Range
<1>7. Range(tt) = Range(t) \cup (T \cap {x})
  <2>1. ASSUME NEW y \in Range(tt) PROVE y \in Range(t) \cup (T \cap {x})
    <3>1. PICK i \in 1..Len(tt) : tt[i] = y
      BY <1>3 DEF Range
    <3>2. i \in 1..Len(t) \/ (i = Len(t) + 1 /\ x \in T)
      BY <1>3
    <3> QED
      BY <3>1, <3>2, <1>3, <1>4
  <2>2. ASSUME NEW y \in Range(t) PROVE y \in Range(tt)
    <3>1. PICK i \in 1..Len(t) : t[i] = y
      BY <1>4
    <3>2. i \in DOMAIN tt /\ tt[i] = y
      BY <1>3, <3>1
    <3> QED
      BY <3>2 DEF Range
  <2>3. ASSUME x \in T PROVE x \in Range(tt)
    <3>1. Len(t) + 1 \in DOMAIN tt /\ tt[Len(t) + 1] = x
      BY <1>3, <2>3
    <3> QED
      BY <3>1 DEF Range
  <2> QED
    BY <2>1, <2>2, <2>3
<1>8. IsInjective(tt)
  <2> SUFFICES ASSUME NEW i \in 1..Len(tt), NEW j \in 1..Len(tt), tt[i] = tt[j] PROVE i = j
    BY <1>3 DEF IsInjective
  <2>1. /\ i = Len(t) + 1 \/ (i \in 1..Len(t) /\ tt[i] = t[i])
        /\ j = Len(t) + 1 \/ (j \in 1..Len(t) /\ tt[j] = t[j])
    BY <1>3
  <2>2. \A k \in 1..Len(tt) : k = Len(t) + 1 => tt[k] = x
    BY <1>3
  <2> QED
    BY <1>4, <2>1, <2>2
<1>9. ASSUME NEW i \in 1..Len(tt), NEW j \in 1..Len(tt), NEW a \in 1..Len(ss), NEW b \in 1..Len(ss),
             i < j, ss[a] = tt[i], ss[b] = tt[j]
      PROVE  a < b
  <2>1. i \in 1..Len(t) /\ tt[i] = t[i] /\ t[i] # x
    BY <1>3, <1>4, <1>9
  <2>2. a \in 1..Len(s) /\ ss[a] = s[a]
    BY <1>2, <1>9, <2>1
  <2>3. CASE j = Len(t) + 1
    <3>1. ss[b] = x
      BY <1>3, <1>9, <2>3
    <3>2. b = Len(s) + 1
      BY <1>2, <1>5, <3>1
    <3> QED
      BY <1>2, <2>2, <3>2
  <2>4. CASE j # Len(t) + 1
    <3>1. j \in 1..Len(t) /\ tt[j] = t[j] /\ t[j] # x
      BY <1>3, <1>4, <2>4
    <3>2. b \in 1..Len(s) /\ ss[b] = s[b]
      BY <1>2, <1>9, <3>1
    <3> QED
      BY <1>1, <1>9, <2>1, <2>2, <3>1, <3>2
  <2> QED
    BY <2>3, <2>4
<1>10. Range(tt) = Range(ss) \cap T
  BY <1>1, <1>6, <1>7
<1>11. Selects(tt, ss, T)
  BY <1>3, <1>8, <1>9, <1>10 DEF Selects
<1> QED
  BY <1>11 DEF tt, ss

\* What toMapping goes along.
Onward(d) == [k \in Known(d) \cup {NIL} |-> IF k = NIL THEN NIL ELSE d.next[k]]

\* The walk of toMapping visits the list place by place.
LEMMA WalkAlongList ==
    ASSUME NEW d, NEW s, ListOf(d, s), NEW list,
           list = Path(d.head, Onward(d), Len(s))
    PROVE  \A i \in 1..Len(s) : list[i - 1] = s[i]
<1> DEFINE step == Onward(d)
           n == Len(s)
           Bad == {k \in Nat : k \in 1..n /\ list[k - 1] # s[k]}
<1>1. n \in Nat
  BY ListFacts
<1>2. \A i \in 1..n : step[s[i]] = At(s, i + 1)
  <2>1. \A i \in 1..n : s[i] \in Known(d) /\ s[i] # NIL
    BY ListFacts
  <2> QED
    BY <2>1 DEF ListOf, Onward
<1> HIDE DEF step
<1>3. list[0] = d.head /\ \A k \in 1..n : list[k] = step[list[k - 1]]
  <2>1. list = Path(d.head, step, n)
    BY DEF step
  <2> HIDE DEF n
  <2> QED
    BY <1>1, <2>1, PathSteps
<1>4. d.head = At(s, 1)
  BY DEF ListOf
<1> HIDE DEF n
<1>5. SUFFICES ASSUME Bad # {} PROVE FALSE
  <2>1. ASSUME Bad = {}, NEW i \in 1..n PROVE list[i - 1] = s[i]
    BY <1>1, <2>1
  <2> QED
    BY <2>1 DEF n
<1>6. PICK k \in Bad : \A m \in Bad : k <= m
  BY <1>5, LeastNatural
<1>7. CASE k = 1
  BY <1>1, <1>3, <1>4, <1>6, <1>7 DEF At, n
<1>8. CASE k # 1
  <2>1. k - 1 \in 1..n /\ k - 1 \in Nat /\ (k - 1) + 1 = k /\ k \in 1..n
    BY <1>1, <1>6, <1>8
  <2>2. list[(k - 1) - 1] = s[k - 1]
    <3>1. ~(k <= k - 1)
      BY <2>1
    <3>2. k - 1 \notin Bad
      BY <1>6, <3>1
    <3> QED
      BY <2>1, <3>2
  <2>3. list[k - 1] = At(s, (k - 1) + 1)
    BY <1>2, <1>3, <2>1, <2>2
  <2>4. list[k - 1] = s[k]
    BY <2>1, <2>3 DEF At, n
  <2> QED
    BY <2>4, <1>6
<1> QED
  BY <1>7, <1>8

\* What is visible of a list is a selection of it.
LEMMA VisibleSelects ==
    ASSUME NEW s \in Seq(Ids), IsInjective(s), NEW gone
    PROVE  Selects(Visible(s, Len(s), gone), s, Ids \ gone)
<1> DEFINE n == Len(s)
           skipped == gone \cup {NIL}
           shown == CHOOSE f : IsShown(f, s, skipped, n)
           T == Ids \ gone
           Upto(i) == SubSeq(s, 1, i)
           Bad == {k \in Nat : k <= n /\ ~Selects(shown[k], Upto(k), T)}
<1>1. n \in Nat
  OBVIOUS
<1>2. Visible(s, n, gone) = shown[n]
  BY DEF Visible, IsShown
<1>4. IsShown(shown, s, skipped, n)
  BY <1>1, ShownExists, Zenon
<1> HIDE DEF shown
<1>5. /\ shown[0] = <<>>
      /\ \A i \in 1..n : shown[i] = IF s[i] \in T THEN Append(shown[i - 1], s[i]) ELSE shown[i - 1]
  <2>1. \A i \in 0..n : shown[i] = IF i = 0 THEN <<>>
                                   ELSE IF s[i] \in gone \cup {NIL} THEN shown[i - 1]
                                   ELSE Append(shown[i - 1], s[i])
    BY <1>4, Zenon DEF IsShown
  <2>2. \A i \in 1..n : s[i] \in Ids /\ s[i] # NIL
    BY CollabAssumption
  <2>3. 0 \in 0..n /\ \A i \in 1..n : i \in 0..n /\ i # 0
    BY <1>1
  <2> HIDE DEF n
  <2> QED
    BY <2>1, <2>2, <2>3
<1>6. s \in Seq(Ids) /\ IsInjective(s)
  OBVIOUS
<1>7. \A k \in 0..n : /\ Upto(k) \in Seq(Ids) /\ Len(Upto(k)) = k
                      /\ \A i \in 1..k : Upto(k)[i] = s[i]
  BY <1>1, <1>6
<1>8. Bad = {}
  <2> SUFFICES ASSUME Bad # {} PROVE FALSE
    OBVIOUS
  <2> HIDE DEF n, T
  <2>1. PICK k \in Bad : \A m \in Bad : k <= m
    BY LeastNatural
  <2>2. CASE k = 0
    <3>1. Upto(0) \in Seq(Ids) /\ Len(Upto(0)) = 0
      BY <1>1, <1>7
    <3>2. Upto(0) = <<>>
      BY <3>1
    <3>3. Selects(<<>>, <<>>, T)
      BY DEF Selects, IsInjective, Range
    <3> QED
      BY <1>5, <2>1, <2>2, <3>2, <3>3
  <2>3. CASE k # 0
    <3>1. k \in 1..n /\ k - 1 \in Nat /\ k - 1 \in 0..n /\ k \in 0..n /\ k - 1 \notin Bad /\ k - 1 <= n
      BY <1>1, <2>1, <2>3
    <3>2. Selects(shown[k - 1], Upto(k - 1), T)
      BY <3>1
    <3> DEFINE before == Upto(k - 1)
    <3>3. before \in Seq(Ids) /\ Len(before) = k - 1 /\ \A i \in 1..(k - 1) : before[i] = s[i]
      BY <1>7, <3>1
    <3>4. Upto(k) = Append(before, s[k])
      <4>1. Upto(k) \in Seq(Ids) /\ Len(Upto(k)) = k /\ \A i \in 1..k : Upto(k)[i] = s[i]
        BY <1>7, <3>1
      <4>2. s[k] \in Ids
        BY <1>6, <3>1 DEF n
      <4> DEFINE u == Upto(k)
                 v == Append(before, s[k])
      <4> HIDE DEF before, Upto
      <4>3. v \in Seq(Ids) /\ Len(v) = k /\ \A i \in 1..k : v[i] = s[i]
        BY <3>1, <3>3, <4>2
      <4>4. u \in Seq(Ids) /\ Len(u) = k /\ \A i \in 1..k : u[i] = s[i]
        BY <4>1
      <4> HIDE DEF u, v
      <4>5. u = v
        BY <4>3, <4>4, SeqEqual
      <4> QED
        BY <4>5 DEF u, v
    <3> HIDE DEF Upto
    <3>5. \A i, j \in 1..n : s[i] = s[j] => i = j
      BY <1>6, SeqFacts DEF n
    <3> HIDE DEF before
    <3>6. IsInjective(before)
      <4>1. DOMAIN before = 1..(k - 1)
        BY <3>3
      <4>2. \A i \in 1..(k - 1) : i \in 1..n
        BY <1>1, <3>1
      <4> QED
        BY <3>3, <3>5, <4>1, <4>2 DEF IsInjective
    <3>7. s[k] \in Ids /\ s[k] \notin Range(before)
      BY <1>6, <3>1, <3>3, <3>5 DEF Range, n
    <3>8. Selects(shown[k - 1], before, T)
      BY <3>2 DEF before
    <3>9. Selects(IF s[k] \in T THEN Append(shown[k - 1], s[k]) ELSE shown[k - 1], Append(before, s[k]), T)
      BY <3>3, <3>6, <3>7, <3>8, SelectsAppended
    <3> QED
      BY <1>5, <2>1, <3>1, <3>4, <3>9
  <2> QED
    BY <2>2, <2>3
<1>9. Selects(shown[n], Upto(n), T)
  <2> HIDE DEF n, T, Upto
  <2> QED
    BY <1>1, <1>8
<1>10. Upto(n) = s
  BY <1>6
<1> QED
  BY <1>2, <1>9, <1>10

\* toMapping selects the elements of the list that are not deleted.
LEMMA MappingSelects ==
    ASSUME NEW d, NEW s, ListOf(d, s)
    PROVE  Selects(ToMapping(d), s, Ids \ d.dead)
<1> DEFINE n == Len(s)
           at == Path(d.head, Onward(d), n)
           list == [i \in 1..n |-> at[i - 1]]
<1>1. n \in Nat /\ Cardinality(Known(d)) = n
  BY ListFacts
<1>2. ToMapping(d) = Visible(list, n, d.dead)
  BY <1>1 DEF ToMapping, Onward
<1>3. \A i \in 1..n : at[i - 1] = s[i]
  <2>1. \A l : l = at => \A i \in 1..n : l[i - 1] = s[i]
    BY WalkAlongList
  <2> HIDE DEF at, n
  <2> QED
    BY <2>1
<1> HIDE DEF at
<1>4. s \in Seq(Ids) /\ IsInjective(s)
  BY DEF ListOf
<1>5. list = s
  <2>1. list = [i \in 1..n |-> s[i]]
    BY <1>3
  <2>2. s = [i \in 1..n |-> s[i]]
    BY <1>4
  <2> QED
    BY <2>1, <2>2
<1> QED
  BY <1>2, <1>4, <1>5, VisibleSelects

-----------------------------------------------------------------------------
(***************************************************************************)
(* The handlers of a browser.                                              *)
(***************************************************************************)
\* A document whatever its pointers are.
DocTypes(d) ==
    /\ IsDoc(d)
    /\ Known(d) \subseteq Ids /\ IsFiniteSet(Known(d))
    /\ d.next \in [Known(d) -> Known(d) \cup {NIL}]
    /\ d.prev \in [Known(d) -> Known(d) \cup {NIL}]
    /\ d.head \in Known(d) \cup {NIL}
    /\ d.dead \subseteq Known(d)
    /\ d.length \in Nat
    /\ d.text \in Seq(Ids) /\ IsInjective(d.text) /\ Range(d.text) \subseteq Known(d) \ d.dead

\* One whose pointers are the list s, and whose text is what is visible of it.
Shows(d, s) == ListOf(d, s) /\ Selects(d.text, s, Ids \ d.dead)

DocList(d) == \E s : Shows(d, s)

LEMMA TextFacts ==
    ASSUME NEW d, DocTypes(d)
    PROVE  /\ Len(d.text) \in Nat
           /\ \A i \in 1..Len(d.text) : d.text[i] \in Known(d) /\ d.text[i] \notin d.dead
           /\ \A x : IndexIn(d.text, x) \in 0..Len(d.text)
           /\ NIL \notin Known(d)
<1>1. /\ d.text \in Seq(Ids) /\ IsInjective(d.text) /\ Range(d.text) \subseteq Known(d) \ d.dead
      /\ Known(d) \subseteq Ids
  BY DEF DocTypes
<1>2. Len(d.text) \in Nat /\ \A i \in 1..Len(d.text) : d.text[i] \in Range(d.text)
  BY <1>1, SeqFacts
<1>3. \A x : IndexIn(d.text, x) \in 0..Len(d.text)
  BY <1>1, IndexInFacts
<1> QED
  BY <1>1, <1>2, <1>3, CollabAssumption

LEMMA InsertTypes ==
    ASSUME NEW d, DocTypes(d), NEW id \in Ids, id \notin Known(d),
           NEW prev \in Known(d) \cup {NIL}, NEW next \in Known(d) \cup {NIL}, NEW ch \in 0..Len(d.text)
    PROVE  LET new == Insert(d, id, prev, next, ch) IN
           /\ DocTypes(new)
           /\ Known(new) = Known(d) \cup {id} /\ new.length = d.length + 1 /\ new.dead = d.dead
<1> DEFINE new == Insert(d, id, prev, next, ch)
<1>1. /\ Known(new) = Known(d) \cup {id} /\ new.length = d.length + 1 /\ new.dead = d.dead
      /\ new.head = IF prev = NIL THEN id ELSE d.head
      /\ new.text = InsertAt(d.text, ch + 1, id)
      /\ new.next = [k \in Known(d) \cup {id} |->
                        IF k = id THEN next ELSE IF k = prev THEN id ELSE d.next[k]]
      /\ new.prev = [k \in Known(d) \cup {id} |->
                        IF k = id THEN prev ELSE IF k = next THEN id ELSE d.prev[k]]
      /\ IsDoc(new)
  BY DEF Insert, Known, IsDoc
<1> HIDE DEF new
<1>2. /\ d.text \in Seq(Ids) /\ IsInjective(d.text) /\ Range(d.text) \subseteq Known(d) \ d.dead
      /\ d.dead \subseteq Known(d) /\ ch + 1 \in 1..(Len(d.text) + 1) /\ id \notin Range(d.text)
  BY DEF DocTypes
<1>3. /\ new.text \in Seq(Ids) /\ IsInjective(new.text) /\ Range(new.text) = Range(d.text) \cup {id}
  <2>1. InsertAt(d.text, ch + 1, id) \in Seq(Ids)
    BY <1>2, InsertAtElements
  <2>2. /\ IsInjective(InsertAt(d.text, ch + 1, id))
        /\ Range(InsertAt(d.text, ch + 1, id)) = Range(d.text) \cup {id}
    BY <1>2, InsertAtInjective
  <2> QED
    BY <1>1, <2>1, <2>2
<1>4. IsFiniteSet(Known(new))
  BY <1>1, FS_AddElement DEF DocTypes
<1>5. /\ new.next \in [Known(new) -> Known(new) \cup {NIL}]
      /\ new.prev \in [Known(new) -> Known(new) \cup {NIL}]
      /\ new.head \in Known(new) \cup {NIL} /\ new.length \in Nat /\ Known(new) \subseteq Ids
  BY <1>1 DEF DocTypes
<1>6. new.dead \subseteq Known(new) /\ Range(new.text) \subseteq Known(new) \ new.dead
  BY <1>1, <1>2, <1>3
<1>7. DocTypes(new)
  BY <1>1, <1>3, <1>4, <1>5, <1>6 DEF DocTypes
<1> QED
  BY <1>1, <1>7 DEF new

\* What Hide changes.
LEMMA HideFields ==
    ASSUME NEW d, IsDoc(d), NEW id
    PROVE  LET new == Hide(d, id) IN
           /\ IsDoc(new) /\ Known(new) = Known(d)
           /\ new.next = d.next /\ new.prev = d.prev /\ new.head = d.head /\ new.length = d.length
           /\ new.dead = d.dead \cup {id}
           /\ new.text = IF id \in Range(d.text) THEN RemoveAt(d.text, IndexIn(d.text, id)) ELSE d.text
<1> DEFINE shorter == IF id \in Range(d.text) THEN RemoveAt(d.text, IndexIn(d.text, id)) ELSE d.text
           deleted == [next |-> d.next, prev |-> d.prev, head |-> d.head, dead |-> d.dead \cup {id},
                       text |-> d.text, length |-> d.length]
           new == [next |-> d.next, prev |-> d.prev, head |-> d.head, dead |-> d.dead \cup {id},
                   text |-> shorter, length |-> d.length]
<1>1. Hide(d, id) = [[d EXCEPT !.dead = d.dead \cup {id}] EXCEPT !.text = shorter]
  BY DEF Hide
<1> HIDE DEF shorter
<1>2. [d EXCEPT !.dead = d.dead \cup {id}] = deleted
  BY DEF IsDoc
<1>3. [deleted EXCEPT !.text = shorter] = new
  OBVIOUS
<1>4. Hide(d, id) = new
  BY <1>1, <1>2, <1>3
<1> QED
  BY <1>4 DEF IsDoc, Known, shorter

LEMMA HideTypes ==
    ASSUME NEW d, DocTypes(d), NEW id \in Known(d)
    PROVE  DocTypes(Hide(d, id))
<1> DEFINE new == Hide(d, id)
<1>1. /\ IsDoc(new) /\ Known(new) = Known(d)
      /\ new.next = d.next /\ new.prev = d.prev /\ new.head = d.head /\ new.length = d.length
      /\ new.dead = d.dead \cup {id}
      /\ new.text = IF id \in Range(d.text) THEN RemoveAt(d.text, IndexIn(d.text, id)) ELSE d.text
  BY HideFields DEF DocTypes
<1> HIDE DEF new
<1>2. d.text \in Seq(Ids) /\ IsInjective(d.text) /\ Range(d.text) \subseteq Known(d) \ d.dead
  BY DEF DocTypes
<1>3. Selects(d.text, d.text, Range(d.text))
  BY <1>2, SeqFacts DEF Selects
<1>4. Selects(new.text, d.text, Range(d.text) \ {id})
  BY <1>1, <1>2, <1>3, SelectsDropped
<1>5. new.text \in Seq(Ids) /\ IsInjective(new.text) /\ Range(new.text) \subseteq Range(d.text) \ {id}
  BY <1>4 DEF Selects
<1>6. DocTypes(new)
  BY <1>1, <1>2, <1>5 DEF DocTypes
<1> QED
  BY <1>6 DEF new

LEMMA HideList ==
    ASSUME NEW d, DocTypes(d), NEW s, Shows(d, s), NEW id
    PROVE  Shows(Hide(d, id), s)
<1> DEFINE new == Hide(d, id)
<1>1. /\ IsDoc(new) /\ Known(new) = Known(d)
      /\ new.next = d.next /\ new.prev = d.prev /\ new.head = d.head
      /\ new.dead = d.dead \cup {id}
      /\ new.text = IF id \in Range(d.text) THEN RemoveAt(d.text, IndexIn(d.text, id)) ELSE d.text
  BY HideFields DEF DocTypes
<1> HIDE DEF new
<1>2. ListOf(d, s) /\ Selects(d.text, s, Ids \ d.dead)
  BY DEF Shows
<1>3. ListOf(new, s)
  BY <1>1, <1>2 DEF ListOf
<1>4. Selects(new.text, s, (Ids \ d.dead) \ {id})
  <2>1. s \in Seq(Ids)
    BY <1>2 DEF ListOf
  <2> QED
    BY <1>1, <1>2, <2>1, SelectsDropped
<1>5. (Ids \ d.dead) \ {id} = Ids \ new.dead
  BY <1>1
<1>6. Shows(new, s)
  BY <1>3, <1>4, <1>5 DEF Shows
<1> QED
  BY <1>6 DEF new

\* Insert, with the character where the text and the list agree, keeps both.
LEMMA InsertList ==
    ASSUME NEW d, DocTypes(d), NEW s, Shows(d, s),
           NEW id \in Ids, id \notin Known(d), NEW q \in 0..Len(s), NEW r \in 0..q,
           \A i \in (r + 1)..q : s[i] \in d.dead, r # 0 => s[r] \notin d.dead,
           NEW ch, ch = IndexIn(d.text, At(s, r))
    PROVE  Shows(Insert(d, id, At(s, q), At(s, q + 1), ch), InsertAt(s, q + 1, id))
<1> USE DEF Shows
<1> DEFINE new == Insert(d, id, At(s, q), At(s, q + 1), ch)
           T == Ids \ d.dead
<1>1. new.text = InsertAt(d.text, ch + 1, id) /\ new.dead = d.dead
  BY DEF Insert
<1>2. ListOf(new, InsertAt(s, q + 1, id))
  BY ListInserted
<1>3. s \in Seq(Ids) /\ IsInjective(s) /\ id \notin Range(s)
  BY DEF ListOf
<1>4. id \in Ids \cap T /\ NIL \notin Ids
  BY CollabAssumption DEF DocTypes
<1>5. /\ r # 0 => s[r] \in T
      /\ \A i \in (r + 1)..q : s[i] \notin T
  <2>1. Len(s) \in Nat /\ \A i \in 1..Len(s) : s[i] \in Ids
    BY ListFacts
  <2> QED
    BY <2>1
<1> HIDE DEF new, T
<1>6. Selects(InsertAt(d.text, IndexIn(d.text, At(s, r)) + 1, id), InsertAt(s, q + 1, id), T)
  <2>1. Selects(d.text, s, T)
    BY DEF T
  <2> QED
    BY <1>3, <1>4, <1>5, <2>1, SelectsInserted
<1>7. Shows(new, InsertAt(s, q + 1, id))
  BY <1>1, <1>2, <1>6 DEF T
<1> QED
  BY <1>7 DEF new

\* What a handler does to the types, the elements and the count.
Grown(d, new, id) ==
    /\ DocTypes(new) /\ Known(new) = Known(d) \cup {id} /\ new.length >= d.length
    /\ new.dead = d.dead

LEMMA RemoteInputTypes ==
    ASSUME NEW d, DocTypes(d), NEW id \in Ids, NEW prev
    PROVE  Grown(d, RemoteInput(d, id, prev), id)
<1> DEFINE place == ListPlace(d, id, prev)
           next == IF place # NIL THEN d.next[place] ELSE d.head
           ch == TextPlace(d, place)
<1>1. CASE id \in Known(d)
  <2>1. RemoteInput(d, id, prev) = d
    BY <1>1 DEF RemoteInput
  <2> QED
    BY <1>1, <2>1 DEF Grown, DocTypes
<1>2. CASE id \notin Known(d)
  <2>1. RemoteInput(d, id, prev) = Insert(d, id, place, next, ch)
    BY <1>2 DEF RemoteInput
  <2>2. place \in Known(d) \cup {NIL}
    BY PlaceIsKnown DEF DocTypes
  <2>3. ch \in 0..Len(d.text)
    BY TextFacts DEF TextPlace
  <2> HIDE DEF place, ch
  <2>4. next \in Known(d) \cup {NIL}
    BY <2>2 DEF DocTypes
  <2> HIDE DEF next
  <2>5. /\ DocTypes(Insert(d, id, place, next, ch))
        /\ Known(Insert(d, id, place, next, ch)) = Known(d) \cup {id}
        /\ Insert(d, id, place, next, ch).length = d.length + 1
        /\ Insert(d, id, place, next, ch).dead = d.dead
    BY <1>2, <2>2, <2>3, <2>4, InsertTypes
  <2> QED
    BY <2>1, <2>5 DEF Grown, DocTypes
<1> QED
  BY <1>1, <1>2

LEMMA RemoteInputList ==
    ASSUME NEW d, DocTypes(d), NEW s, Shows(d, s), NEW id \in Ids, id \notin Known(d), NEW prev
    PROVE  \E q \in 0..Len(s) : /\ ListPlace(d, id, prev) = At(s, q)
                                /\ Shows(RemoteInput(d, id, prev), InsertAt(s, q + 1, id))
<1> USE DEF Shows
<1> DEFINE place == ListPlace(d, id, prev)
           next == IF place # NIL THEN d.next[place] ELSE d.head
           ch == TextPlace(d, place)
<1>1. RemoteInput(d, id, prev) = Insert(d, id, place, next, ch)
  BY DEF RemoteInput
<1>2. place \in Known(d) \cup {NIL}
  BY PlaceIsKnown DEF DocTypes
<1>3. ListOf(d, s) /\ Selects(d.text, s, Ids \ d.dead)
  OBVIOUS
<1>4. ch = IndexIn(d.text, VisibleBefore(d, place))
  BY DEF TextPlace
<1> HIDE DEF place, ch
<1>5. \E q \in 0..Len(s) : place = At(s, q) /\ next = At(s, q + 1)
  <2>1. CASE place = NIL
    <3>1. At(s, 0) = NIL /\ d.head = At(s, 1) /\ 0 + 1 = 1 /\ 0 \in 0..Len(s)
      BY <1>3, ListFacts DEF At, ListOf
    <3> QED
      BY <2>1, <3>1
  <2>2. CASE place # NIL
    <3>1. PICK q \in 1..Len(s) : s[q] = place
      BY <1>2, <1>3, <2>2, ListFacts
    <3>2. place = At(s, q) /\ d.next[place] = At(s, q + 1) /\ q \in 0..Len(s)
      BY <1>3, <3>1, ListFacts DEF At, ListOf
    <3> QED
      BY <2>2, <3>2
  <2> QED
    BY <2>1, <2>2
<1>6. PICK q \in 0..Len(s) : place = At(s, q) /\ next = At(s, q + 1)
  BY <1>5
<1>7. PICK r \in 0..q : /\ VisibleBefore(d, At(s, q)) = At(s, r)
                        /\ \A i \in (r + 1)..q : s[i] \in d.dead
                        /\ r # 0 => s[r] \notin d.dead
  BY <1>3, VisibleBeforePlace DEF DocTypes
<1>8. ch = IndexIn(d.text, At(s, r))
  BY <1>4, <1>6, <1>7
<1>9. Shows(Insert(d, id, At(s, q), At(s, q + 1), ch), InsertAt(s, q + 1, id))
  BY <1>7, <1>8, InsertList
<1> QED
  BY <1>1, <1>6, <1>9 DEF place

\* Whatever arrives, the text stays what is visible of the list.
LEMMA RemoteInputDocList ==
    ASSUME NEW d, DocTypes(d), DocList(d), NEW id \in Ids, NEW prev
    PROVE  DocList(RemoteInput(d, id, prev))
<1>1. CASE id \in Known(d)
  BY <1>1 DEF RemoteInput
<1>2. CASE id \notin Known(d)
  BY <1>2, RemoteInputList DEF DocList
<1> QED
  BY <1>1, <1>2

LEMMA RemoteDeleteTypes ==
    ASSUME NEW d, DocTypes(d), NEW id
    PROVE  /\ DocTypes(RemoteDelete(d, id)) /\ Known(RemoteDelete(d, id)) = Known(d)
           /\ RemoteDelete(d, id).length = d.length
           /\ DocList(d) => DocList(RemoteDelete(d, id))
<1>1. CASE id \in Known(d)
  <2>1. RemoteDelete(d, id) = Hide(d, id)
    BY <1>1 DEF RemoteDelete
  <2>2. Known(Hide(d, id)) = Known(d) /\ Hide(d, id).length = d.length
    BY HideFields DEF DocTypes
  <2> QED
    BY <1>1, <2>1, <2>2, HideTypes, HideList DEF DocList
<1>2. CASE id \notin Known(d)
  <2>1. RemoteDelete(d, id) = d
    BY <1>2 DEF RemoteDelete
  <2> QED
    BY <2>1
<1> QED
  BY <1>1, <1>2

LEMMA LocalInputTypes ==
    ASSUME NEW d, DocTypes(d), NEW user, NEW ch \in 0..Len(d.text),
           NewID(d, user) \in Ids, NewID(d, user) \notin Known(d)
    PROVE  /\ Grown(d, LocalInput(d, user, ch), NewID(d, user))
           /\ LocalInput(d, user, ch).length = d.length + 1
           /\ Preceding(d, ch) \in Known(d) \cup {NIL}
<1> DEFINE prev == Preceding(d, ch)
           next == IF prev # NIL THEN d.next[prev]
                   ELSE IF d.text # <<>> THEN d.text[1] ELSE NIL
           id == NewID(d, user)
           new == Insert(d, id, prev, next, ch)
<1>1. LocalInput(d, user, ch) = new
  BY DEF LocalInput
<1>2. prev \in Known(d) \cup {NIL} /\ (prev = NIL <=> ch = 0)
  BY TextFacts DEF Preceding
<1>3. next \in Known(d) \cup {NIL}
  <2>1. d.text # <<>> => 1 \in 1..Len(d.text)
    BY DEF DocTypes
  <2> HIDE DEF prev
  <2> QED
    BY <1>2, <2>1, TextFacts DEF DocTypes
<1> HIDE DEF prev, next, id
<1>4. /\ DocTypes(Insert(d, id, prev, next, ch))
      /\ Known(Insert(d, id, prev, next, ch)) = Known(d) \cup {id}
      /\ Insert(d, id, prev, next, ch).length = d.length + 1
      /\ Insert(d, id, prev, next, ch).dead = d.dead
  <2>1. id \in Ids /\ id \notin Known(d)
    BY DEF id
  <2> QED
    BY <1>2, <1>3, <2>1, InsertTypes
<1> QED
  BY <1>1, <1>2, <1>4 DEF Grown, DocTypes, id, prev

\* Typed at the very start, an element is only linked to the whole list if
\* there is no tombstone in front of the text.
LEMMA LocalInputList ==
    ASSUME NEW d, DocTypes(d), NEW s, Shows(d, s), NEW user, NEW ch \in 0..Len(d.text),
           NewID(d, user) \in Ids, NewID(d, user) \notin Known(d), ch # 0 \/ d.dead = {}
    PROVE  \E q \in 0..Len(s) : /\ Preceding(d, ch) = At(s, q)
                                /\ Shows(LocalInput(d, user, ch), InsertAt(s, q + 1, NewID(d, user)))
<1> DEFINE prev == Preceding(d, ch)
           next == IF prev # NIL THEN d.next[prev]
                   ELSE IF d.text # <<>> THEN d.text[1] ELSE NIL
           id == NewID(d, user)
<1>1. LocalInput(d, user, ch) = Insert(d, id, prev, next, ch)
  BY DEF LocalInput
<1>2. ListOf(d, s) /\ Selects(d.text, s, Ids \ d.dead)
  BY DEF Shows
<1>3. /\ Len(s) \in Nat /\ Len(d.text) \in Nat /\ d.head = At(s, 1)
      /\ \A i \in 1..Len(s) : s[i] \in Known(d) /\ s[i] # NIL /\ d.next[s[i]] = At(s, i + 1)
      /\ \A x \in Known(d) : \E i \in 1..Len(s) : s[i] = x
      /\ \A i \in 1..Len(d.text) : d.text[i] \in Known(d) /\ d.text[i] \notin d.dead /\ d.text[i] # NIL
      /\ d.text \in Seq(Ids) /\ IsInjective(d.text)
  <2>1. /\ Len(s) \in Nat
        /\ \A i \in 1..Len(s) : s[i] \in Known(d) /\ s[i] # NIL
        /\ \A x \in Known(d) : \E i \in 1..Len(s) : s[i] = x
    BY <1>2, ListFacts
  <2>2. d.head = At(s, 1) /\ \A i \in 1..Len(s) : d.next[s[i]] = At(s, i + 1)
    BY <1>2 DEF ListOf
  <2>3. /\ Len(d.text) \in Nat
        /\ \A i \in 1..Len(d.text) : d.text[i] \in Known(d) /\ d.text[i] \notin d.dead /\ d.text[i] # NIL
    BY TextFacts
  <2> QED
    BY <2>1, <2>2, <2>3 DEF DocTypes
<1>4. \E q \in 0..Len(s) : /\ prev = At(s, q) /\ next = At(s, q + 1)
                           /\ q # 0 => s[q] \notin d.dead
                           /\ ch = IndexIn(d.text, At(s, q))
  <2>1. CASE ch # 0
    <3>1. ch \in 1..Len(d.text) /\ prev = d.text[ch]
      BY <1>3, <2>1 DEF Preceding
    <3>2. PICK q \in 1..Len(s) : s[q] = d.text[ch]
      BY <1>3, <3>1
    <3>3. prev = At(s, q) /\ prev # NIL /\ s[q] \notin d.dead /\ q \in 0..Len(s)
      BY <1>3, <3>1, <3>2 DEF At
    <3> HIDE DEF prev
    <3>4. next = At(s, q + 1)
      BY <1>3, <3>1, <3>2, <3>3
    <3>5. IndexIn(d.text, d.text[ch]) = ch
      BY <1>3, <3>1, IndexInFacts
    <3> QED
      BY <3>1, <3>3, <3>4, <3>5
  <2>2. CASE ch = 0
    <3>1. prev = NIL /\ At(s, 0) = NIL /\ 0 \in 0..Len(s) /\ 0 + 1 = 1
      BY <1>3, <2>2 DEF Preceding, At
    <3>2. IndexIn(d.text, NIL) = 0
      <4>1. NIL \notin Range(d.text)
        BY CollabAssumption, <1>3, SeqFacts
      <4> QED
        BY <4>1 DEF IndexIn
    <3>3. next = At(s, 1)
      <4>0. d.dead = {}
        BY <2>2
      <4>1. Range(d.text) = Range(s)
        <5>1. Range(s) \subseteq Ids
          BY <1>2 DEF ListOf, DocTypes
        <5> QED
          BY <1>2, <4>0, <5>1 DEF Selects
      <4>2. CASE d.text = <<>>
        <5>1. Range(s) = {}
          BY <4>1, <4>2 DEF Range
        <5>2. Len(s) = 0
          <6>1. 1 \in DOMAIN s => s[1] \in Range(s)
            BY DEF Range
          <6>2. s \in Seq(Ids)
            BY <1>2 DEF ListOf
          <6> QED
            BY <5>1, <6>1, <6>2, <1>3
        <5> QED
          BY <3>1, <4>2, <5>2 DEF At
      <4>3. CASE d.text # <<>>
        <5>1. 1 \in 1..Len(d.text) /\ next = d.text[1]
          BY <1>3, <3>1, <4>3
        <5>2. PICK p \in 1..Len(s) : s[p] = d.text[1]
          BY <1>3, <5>1
        <5>3. 1 \in 1..Len(s) /\ s[1] \in Range(d.text)
          <6>1. 1 \in 1..Len(s)
            BY <1>3, <5>2
          <6>2. s \in Seq(Ids) /\ IsInjective(s)
            BY <1>2 DEF ListOf
          <6> QED
            BY <4>1, <6>1, <6>2, SeqFacts
        <5>4. PICK j \in 1..Len(d.text) : d.text[j] = s[1]
          <6>1. DOMAIN d.text = 1..Len(d.text)
            BY <1>3
          <6> QED
            BY <5>3, <6>1 DEF Range
        <5>5. 1 < j => p < 1
          BY <1>2, <5>1, <5>2, <5>3, <5>4 DEF Selects
        <5>6. j = 1
          BY <1>3, <5>2, <5>4, <5>5
        <5> QED
          BY <5>1, <5>3, <5>4, <5>6 DEF At
      <4> QED
        BY <4>2, <4>3
    <3> QED
      BY <2>2, <3>1, <3>2, <3>3
  <2> QED
    BY <2>1, <2>2
<1> HIDE DEF prev, next, id
<1>5. PICK q \in 0..Len(s) : /\ prev = At(s, q) /\ next = At(s, q + 1)
                             /\ q # 0 => s[q] \notin d.dead
                             /\ ch = IndexIn(d.text, At(s, q))
  BY <1>4
<1>6. q \in 0..q /\ \A i \in (q + 1)..q : s[i] \in d.dead
  BY <1>3
<1>7. id \in Ids /\ id \notin Known(d)
  BY DEF id
<1>8. Shows(Insert(d, id, At(s, q), At(s, q + 1), ch), InsertAt(s, q + 1, id))
  BY <1>5, <1>6, <1>7, InsertList
<1> QED
  BY <1>1, <1>5, <1>8 DEF prev, id

\* The editor of such a document shows its list.
LEMMA ListShown ==
    ASSUME NEW d, DocTypes(d), DocList(d)
    PROVE  d.text = ToMapping(d)
<1>1. PICK s : ListOf(d, s) /\ Selects(d.text, s, Ids \ d.dead)
  BY DEF DocList, Shows
<1>2. s \in Seq(Ids) /\ IsInjective(s)
  BY <1>1 DEF ListOf
<1> QED
  BY <1>1, <1>2, MappingSelects, SelectionUnique

-----------------------------------------------------------------------------
(***************************************************************************)
(* The inductive invariant.                                                *)
(***************************************************************************)
Shape ==
    /\ doc = [u \in Users |-> doc[u]] /\ task = [u \in Users |-> task[u]]
    /\ \A u \in Users : DocTypes(doc[u])
    /\ up \in [Users -> Seq(Element)] /\ down \in [Users -> Seq(Element)]
    /\ order \in Seq(Ids) /\ IsInjective(order) /\ DOMAIN sent = Range(order) /\ dead \subseteq Range(order)
    /\ \A u \in Users : task[u] = [element |-> task[u].element, to |-> task[u].to]
    /\ \A u \in Users : task[u] = NoTask \/ task[u].element \in Element

\* Element id is inserted by one of the first n messages of queue q.
IsSent(q, n, id) == \E j \in 1..n : q[j].id = id /\ ~q[j].deleted

\* What a browser has is in the worker's list or on the way there, and so is
\* the element any other was typed behind, further ahead.
OnTheWay == \A u \in Users :
    /\ \A id \in Known(doc[u]) : id \in Range(order) \/ IsSent(up[u], Len(up[u]), id)
    /\ \A i \in 1..Len(up[u]) : ~up[u][i].deleted =>
           up[u][i].prev \in Range(order) \cup {NIL} \/ IsSent(up[u], i - 1, up[u][i].prev)

\* The worker sends what is in its list.
Delivered == \A u \in Users :
    /\ \A i \in 1..Len(down[u]) : down[u][i].id \in Range(order)
    /\ task[u].to # <<>> => task[u].element \in Element /\ task[u].element.id \in Range(order)

\* Whatever anybody has its author has, who gives a new number to the next.
Numbered == \A u \in Users :
    /\ \A id \in Known(doc[u]) \cup Range(order) : id[2] \in Users /\ id \in Known(doc[id[2]])
    /\ \A i \in 1..Len(up[u]) : up[u][i].id \in Known(doc[u])
    /\ \A id \in Known(doc[u]) : id[2] = u => id[1] < doc[u].length

CInv == Shape /\ OnTheWay /\ Delivered /\ Numbered /\ alive

\* Known elements stay known.
LEMMA DocUpdated ==
    ASSUME Shape, NEW u \in Users, NEW d, DocTypes(d), doc' = [doc EXCEPT ![u] = d]
    PROVE  /\ doc' = [v \in Users |-> doc'[v]]
           /\ doc'[u] = d /\ \A v \in Users \ {u} : doc'[v] = doc[v]
           /\ \A v \in Users : DocTypes(doc'[v])
<1>1. doc = [v \in Users |-> doc[v]]
  BY DEF Shape
<1>2. doc'[u] = d /\ \A v \in Users \ {u} : doc'[v] = doc[v]
  BY <1>1
<1>3. doc' = [v \in Users |-> doc'[v]]
  BY <1>1
<1> QED
  BY <1>2, <1>3 DEF Shape

\* One more element on the way from u.
LEMMA SendStep ==
    ASSUME Shape, NEW u \in Users, NEW id \in Ids, NEW prev \in Ids \cup {NIL}, NEW deleted \in BOOLEAN,
           Send(u, id, prev, deleted)
    PROVE  /\ up' \in [Users -> Seq(Element)]
           /\ \A v \in Users \ {u} : up'[v] = up[v]
           /\ Len(up'[u]) = Len(up[u]) + 1 /\ Len(up[u]) \in Nat
           /\ \A i \in 1..Len(up[u]) : up'[u][i] = up[u][i]
           /\ up'[u][Len(up[u]) + 1].id = id /\ up'[u][Len(up[u]) + 1].prev = prev
           /\ up'[u][Len(up[u]) + 1].deleted = deleted
<1> DEFINE m == [id |-> id, prev |-> prev, client |-> u, deleted |-> deleted]
<1>1. m \in Element
  BY DEF Element
<1>2. m.id = id /\ m.prev = prev /\ m.deleted = deleted
  OBVIOUS
<1> HIDE DEF m
<1>3. up' = [up EXCEPT ![u] = Append(up[u], m)]
  BY DEF Send, m
<1>4. up \in [Users -> Seq(Element)] /\ up[u] \in Seq(Element)
  BY DEF Shape
<1>5. /\ Append(up[u], m) \in Seq(Element) /\ Len(Append(up[u], m)) = Len(up[u]) + 1
      /\ Len(up[u]) \in Nat
      /\ \A i \in 1..Len(up[u]) : Append(up[u], m)[i] = up[u][i]
      /\ Append(up[u], m)[Len(up[u]) + 1] = m
  BY <1>1, <1>4
<1>6. /\ up' \in [Users -> Seq(Element)] /\ up'[u] = Append(up[u], m)
      /\ \A v \in Users \ {u} : up'[v] = up[v]
  BY <1>3, <1>4, <1>5
<1> QED
  BY <1>2, <1>5, <1>6

\* A browser that changes its document and sends an element of it.
LEMMA EditStep ==
    ASSUME CInv, NEW u \in Users, NEW d, DocTypes(d), doc' = [doc EXCEPT ![u] = d],
           NEW id \in Ids, NEW prev \in Ids \cup {NIL}, NEW deleted \in BOOLEAN,
           Send(u, id, prev, deleted), UNCHANGED <<down, workerVars>>,
           Known(d) = Known(doc[u]) \cup {id}, d.length \in Nat, d.length >= doc[u].length,
           deleted => id \in Known(doc[u]),
           ~deleted => prev \in Known(doc[u]) \cup {NIL} /\ id[2] = u /\ id[1] < d.length
    PROVE  CInv'
<1>1. /\ doc' = [v \in Users |-> doc'[v]]
      /\ doc'[u] = d /\ \A v \in Users \ {u} : doc'[v] = doc[v]
      /\ \A v \in Users : DocTypes(doc'[v])
  <2>1. Shape
    BY DEF CInv
  <2> QED
    BY <2>1, DocUpdated
<1>2. /\ up' \in [Users -> Seq(Element)]
      /\ \A v \in Users \ {u} : up'[v] = up[v]
      /\ Len(up'[u]) = Len(up[u]) + 1 /\ Len(up[u]) \in Nat
      /\ \A i \in 1..Len(up[u]) : up'[u][i] = up[u][i]
      /\ up'[u][Len(up[u]) + 1].id = id /\ up'[u][Len(up[u]) + 1].prev = prev
      /\ up'[u][Len(up[u]) + 1].deleted = deleted
  <2>1. Shape
    BY DEF CInv
  <2> QED
    BY <2>1, SendStep
<1>3. down' = down /\ order' = order /\ sent' = sent /\ dead' = dead /\ task' = task /\ alive' = alive
  BY DEF workerVars
<1>4. Shape'
  BY <1>1, <1>2, <1>3 DEF CInv, Shape
<1>5. \A v \in Users : Known(doc'[v]) = Known(doc[v]) \cup (IF v = u THEN {id} ELSE {})
  BY <1>1
<1>6. \A v \in Users, n \in Nat : \A x : n <= Len(up[v]) /\ IsSent(up[v], n, x) => IsSent(up'[v], n, x)
  <2> SUFFICES ASSUME NEW v \in Users, NEW n \in Nat, NEW x, n <= Len(up[v]), IsSent(up[v], n, x)
               PROVE  IsSent(up'[v], n, x)
    OBVIOUS
  <2>1. PICK j \in 1..n : up[v][j].id = x /\ ~up[v][j].deleted
    BY DEF IsSent
  <2>2. up'[v][j] = up[v][j]
    <3>1. CASE v = u
      BY <1>2, <3>1
    <3>2. CASE v # u
      BY <1>2, <3>2
    <3> QED
      BY <3>1, <3>2
  <2> QED
    BY <2>1, <2>2 DEF IsSent
<1>7. \A v \in Users : Len(up[v]) \in Nat
  BY DEF CInv, Shape
<1>8. OnTheWay'
  <2>1. ASSUME NEW v \in Users, NEW x \in Known(doc[v])
        PROVE  x \in Range(order) \/ IsSent(up'[v], Len(up[v]), x)
    <3>1. x \in Range(order) \/ IsSent(up[v], Len(up[v]), x)
      BY DEF CInv, OnTheWay
    <3>2. Len(up[v]) \in Nat /\ Len(up[v]) <= Len(up[v])
      BY <1>7
    <3> QED
      BY <1>6, <3>1, <3>2
  <2>2. ASSUME NEW x \in Known(doc[u])
        PROVE  x \in Range(order) \/ IsSent(up'[u], Len(up[u]) + 1, x)
    <3>1. CASE x \in Range(order)
      BY <3>1
    <3>2. CASE IsSent(up[u], Len(up[u]), x)
      <4>1. PICK j \in 1..Len(up[u]) : up[u][j].id = x /\ ~up[u][j].deleted
        BY <3>2 DEF IsSent
      <4>2. j \in 1..(Len(up[u]) + 1) /\ up'[u][j] = up[u][j]
        BY <1>2, <4>1
      <4> QED
        BY <4>1, <4>2 DEF IsSent
    <3> QED
      BY <3>1, <3>2 DEF CInv, OnTheWay
  <2>3. ~deleted => IsSent(up'[u], Len(up[u]) + 1, id)
    <3>1. Len(up[u]) + 1 \in 1..(Len(up[u]) + 1)
      BY <1>2
    <3> QED
      BY <1>2, <3>1 DEF IsSent
  <2>4. ASSUME NEW v \in Users, NEW x \in Known(doc'[v])
        PROVE  x \in Range(order) \/ IsSent(up'[v], Len(up'[v]), x)
    <3>1. CASE v # u
      <4>1. x \in Known(doc[v]) /\ Len(up'[v]) = Len(up[v])
        BY <1>2, <1>5, <3>1
      <4> QED
        BY <4>1, <2>1
    <3>2. CASE v = u
      <4>1. x \in Known(doc[u]) \/ (x = id /\ ~deleted)
        BY <1>5, <3>2
      <4> QED
        BY <4>1, <2>2, <2>3, <1>2, <3>2
    <3> QED
      BY <3>1, <3>2
  <2>5. ASSUME NEW v \in Users, NEW i \in 1..Len(up'[v]), ~up'[v][i].deleted
        PROVE  up'[v][i].prev \in Range(order) \cup {NIL} \/ IsSent(up'[v], i - 1, up'[v][i].prev)
    <3>1. CASE i \in 1..Len(up[v])
      <4>1. up'[v][i] = up[v][i]
        BY <1>2, <3>1
      <4>2. up[v][i].prev \in Range(order) \cup {NIL} \/ IsSent(up[v], i - 1, up[v][i].prev)
        BY <2>5, <3>1, <4>1 DEF CInv, OnTheWay
      <4>3. i - 1 \in Nat /\ i - 1 <= Len(up[v])
        BY <1>7, <3>1
      <4> QED
        BY <1>6, <4>1, <4>2, <4>3
    <3>2. CASE i \notin 1..Len(up[v])
      <4>1. v = u /\ i = Len(up[u]) + 1 /\ i - 1 = Len(up[u])
        BY <1>2, <1>7, <3>2
      <4>2. prev \in Known(doc[u]) \cup {NIL} /\ up'[v][i].prev = prev
        BY <1>2, <2>5, <4>1
      <4>3. prev \in Range(order) \cup {NIL} \/ IsSent(up[u], Len(up[u]), prev)
        BY <4>2 DEF CInv, OnTheWay
      <4>4. prev \in Range(order) \cup {NIL} \/ \E j \in 1..Len(up[u]) : up[u][j].id = prev /\ ~up[u][j].deleted
        BY <4>3 DEF IsSent
      <4>5. prev \in Range(order) \cup {NIL} \/ \E j \in 1..Len(up[u]) : up'[u][j].id = prev /\ ~up'[u][j].deleted
        BY <4>4, <1>2
      <4> QED
        BY <4>1, <4>2, <4>5 DEF IsSent
    <3> QED
      BY <3>1, <3>2
  <2> QED
    BY <2>4, <2>5, <1>3 DEF OnTheWay
<1>9. Delivered'
  BY <1>3 DEF CInv, Delivered
<1>10. Numbered'
  <2>1. ASSUME NEW v \in Users, NEW x \in Known(doc'[v]) \cup Range(order)
        PROVE  x[2] \in Users /\ x \in Known(doc'[x[2]])
    <3>1. CASE x \in Known(doc[v]) \cup Range(order)
      BY <1>5, <3>1 DEF CInv, Numbered
    <3>2. CASE x \notin Known(doc[v]) \cup Range(order)
      <4>1. x = id /\ v = u /\ ~deleted
        BY <1>5, <2>1, <3>2
      <4> QED
        BY <4>1, <1>5
    <3> QED
      BY <3>1, <3>2
  <2>2. ASSUME NEW v \in Users, NEW i \in 1..Len(up'[v]) PROVE up'[v][i].id \in Known(doc'[v])
    <3>1. CASE i \in 1..Len(up[v])
      <4>1. up'[v][i] = up[v][i] /\ up[v][i].id \in Known(doc[v])
        BY <1>2, <3>1 DEF CInv, Numbered
      <4> QED
        BY <4>1, <1>5
    <3>2. CASE i \notin 1..Len(up[v])
      <4>1. v = u /\ i = Len(up[u]) + 1
        BY <1>2, <1>7, <3>2
      <4> QED
        BY <4>1, <1>2, <1>5
    <3> QED
      BY <3>1, <3>2
  <2>3. ASSUME NEW v \in Users, NEW x \in Known(doc'[v]), x[2] = v PROVE x[1] < doc'[v].length
    <3>1. CASE v # u
      BY <1>1, <2>3, <3>1 DEF CInv, Numbered
    <3>2. CASE v = u
      <4>1. doc'[v].length = d.length
        BY <1>1, <3>2
      <4>2. CASE x \in Known(doc[u])
        <5>1. x[1] < doc[u].length /\ x \in Ids /\ doc[u].length \in Nat
          BY <2>3, <3>2, <4>2 DEF CInv, Numbered, Shape, DocTypes
        <5>2. x[1] \in Nat
          BY <5>1, CollabAssumption DEF Ids
        <5> QED
          BY <4>1, <5>1, <5>2
      <4>3. CASE x \notin Known(doc[u])
        BY <1>5, <2>3, <3>2, <4>1, <4>3
      <4> QED
        BY <4>2, <4>3
    <3> QED
      BY <3>1, <3>2
  <2> QED
    BY <2>1, <2>2, <2>3, <1>3 DEF Numbered
<1> QED
  BY <1>3, <1>4, <1>8, <1>9, <1>10 DEF CInv

\* A user types.
LEMMA TypeStep ==
    ASSUME CInv, NEW u \in Users, NEW ch \in 0..Len(doc[u].text), Type(u, ch)
    PROVE  CInv'
<1> DEFINE id == NewID(doc[u], u)
           prev == Preceding(doc[u], ch)
           d == LocalInput(doc[u], u, ch)
<1>1. /\ id \in Ids /\ doc' = [doc EXCEPT ![u] = d] /\ Send(u, id, prev, FALSE)
      /\ UNCHANGED <<down, workerVars>>
  BY DEF Type
<1>2. DocTypes(doc[u]) /\ doc[u].length \in Nat
  BY DEF CInv, Shape, DocTypes
<1>3. id[1] = doc[u].length /\ id[2] = u
  BY DEF NewID
<1>4. id \notin Known(doc[u])
  <2>1. id \in Known(doc[u]) => id[1] < doc[u].length
    BY <1>3 DEF CInv, Numbered
  <2> QED
    BY <2>1, <1>2, <1>3
<1>5. Grown(doc[u], d, id) /\ d.length = doc[u].length + 1 /\ prev \in Known(doc[u]) \cup {NIL}
  BY <1>1, <1>2, <1>4, LocalInputTypes
<1>6. prev \in Ids \cup {NIL}
  BY <1>2, <1>5 DEF DocTypes
<1> HIDE DEF id, prev, d
<1>7. DocTypes(d) /\ Known(d) = Known(doc[u]) \cup {id}
  BY <1>5 DEF Grown
<1>8. d.length \in Nat /\ d.length >= doc[u].length /\ id[1] < d.length
  BY <1>2, <1>3, <1>5
<1>9. FALSE \in BOOLEAN
  OBVIOUS
<1> QED
  BY <1>1, <1>3, <1>5, <1>6, <1>7, <1>8, <1>9, EditStep

\* A user deletes.
LEMMA EraseStep ==
    ASSUME CInv, NEW u \in Users, NEW ch \in 1..Len(doc[u].text), Erase(u, ch)
    PROVE  CInv'
<1> DEFINE id == doc[u].text[ch]
           prev == doc[u].prev[id]
           d == Hide(doc[u], id)
<1>1. /\ doc' = [doc EXCEPT ![u] = d] /\ Send(u, id, prev, TRUE) /\ UNCHANGED <<down, workerVars>>
  BY DEF Erase
<1>2. DocTypes(doc[u])
  BY DEF CInv, Shape
<1>3. id \in Known(doc[u])
  BY <1>2, TextFacts
<1>4. id \in Ids /\ prev \in Ids \cup {NIL} /\ doc[u].length \in Nat
  BY <1>2, <1>3 DEF DocTypes
<1>5. DocTypes(d)
  BY <1>2, <1>3, HideTypes
<1>6. Known(d) = Known(doc[u]) /\ d.length = doc[u].length
  <2>1. IsDoc(doc[u])
    BY <1>2 DEF DocTypes
  <2> QED
    BY <2>1, HideFields
<1> HIDE DEF id, prev, d
<1>7. Known(d) = Known(doc[u]) \cup {id} /\ d.length \in Nat /\ d.length >= doc[u].length
  BY <1>3, <1>4, <1>6
<1>8. TRUE \in BOOLEAN
  OBVIOUS
<1> QED
  BY <1>1, <1>3, <1>4, <1>5, <1>7, <1>8, EditStep

\* What a browser has once it has handled a message.
Handled(d, m) == IF m.deleted THEN RemoteDelete(d, m.id) ELSE RemoteInput(d, m.id, m.prev)

LEMMA HandledTypes ==
    ASSUME NEW d, DocTypes(d), NEW m \in Element
    PROVE  /\ DocTypes(Handled(d, m))
           /\ Known(d) \subseteq Known(Handled(d, m)) /\ Known(Handled(d, m)) \subseteq Known(d) \cup {m.id}
           /\ Handled(d, m).length >= d.length
<1>1. m.id \in Ids /\ d.length \in Nat
  BY DEF Element, DocTypes
<1>2. CASE m.deleted
  <2>1. Handled(d, m) = RemoteDelete(d, m.id)
    BY <1>2 DEF Handled
  <2>2. /\ DocTypes(RemoteDelete(d, m.id)) /\ Known(RemoteDelete(d, m.id)) = Known(d)
        /\ RemoteDelete(d, m.id).length = d.length
    BY RemoteDeleteTypes
  <2> QED
    BY <1>1, <2>1, <2>2
<1>3. CASE ~m.deleted
  <2>1. Handled(d, m) = RemoteInput(d, m.id, m.prev)
    BY <1>3 DEF Handled
  <2>2. Grown(d, RemoteInput(d, m.id, m.prev), m.id)
    BY <1>1, RemoteInputTypes
  <2> QED
    BY <2>1, <2>2 DEF Grown
<1> QED
  BY <1>2, <1>3

\* The head of a queue and the rest.
LEMMA QueueFacts ==
    ASSUME NEW q \in Seq(Element), q # <<>>
    PROVE  /\ Head(q) \in Element /\ Head(q) = q[1] /\ 1 \in 1..Len(q)
           /\ Tail(q) \in Seq(Element) /\ Len(Tail(q)) = Len(q) - 1 /\ Len(q) \in Nat
           /\ \A i \in 1..(Len(q) - 1) : Tail(q)[i] = q[i + 1]
  OBVIOUS

\* A browser handles a message.
LEMMA ArriveStep ==
    ASSUME CInv, NEW u \in Users, Arrive(u)
    PROVE  CInv'
<1> DEFINE m == Head(down[u])
           d == Handled(doc[u], m)
<1>1. /\ down[u] # <<>> /\ doc' = [doc EXCEPT ![u] = d] /\ down' = [down EXCEPT ![u] = Tail(down[u])]
      /\ up' = up /\ order' = order /\ sent' = sent /\ dead' = dead /\ task' = task /\ alive' = alive
  BY DEF Arrive, Handled, workerVars
<1>2. down \in [Users -> Seq(Element)] /\ down[u] \in Seq(Element)
  BY DEF CInv, Shape
<1>3. /\ m \in Element /\ m = down[u][1] /\ 1 \in 1..Len(down[u])
      /\ Tail(down[u]) \in Seq(Element) /\ Len(Tail(down[u])) = Len(down[u]) - 1 /\ Len(down[u]) \in Nat
      /\ \A i \in 1..(Len(down[u]) - 1) : Tail(down[u])[i] = down[u][i + 1]
  BY <1>1, <1>2, QueueFacts
<1>4. m.id \in Range(order)
  BY <1>3 DEF CInv, Delivered
<1> HIDE DEF m
<1>5. DocTypes(doc[u])
  BY DEF CInv, Shape
<1>6. /\ DocTypes(d) /\ Known(doc[u]) \subseteq Known(d) /\ Known(d) \subseteq Known(doc[u]) \cup {m.id}
      /\ d.length >= doc[u].length
  BY <1>3, <1>5, HandledTypes
<1> HIDE DEF d
<1>7. /\ doc' = [v \in Users |-> doc'[v]]
      /\ doc'[u] = d /\ \A v \in Users \ {u} : doc'[v] = doc[v]
      /\ \A v \in Users : DocTypes(doc'[v])
  <2>1. Shape
    BY DEF CInv
  <2> QED
    BY <1>1, <1>6, <2>1, DocUpdated
<1>8. /\ down' \in [Users -> Seq(Element)] /\ down'[u] = Tail(down[u])
      /\ \A v \in Users \ {u} : down'[v] = down[v]
  BY <1>1, <1>2, <1>3
<1>9. Shape'
  BY <1>1, <1>7, <1>8 DEF CInv, Shape
<1>10. \A v \in Users : Known(doc[v]) \subseteq Known(doc'[v]) /\ Known(doc'[v]) \subseteq Known(doc[v]) \cup {m.id}
  BY <1>6, <1>7
<1>11. OnTheWay'
  <2>1. ASSUME NEW v \in Users, NEW x \in Known(doc'[v])
        PROVE  x \in Range(order) \/ IsSent(up[v], Len(up[v]), x)
    BY <1>4, <1>10 DEF CInv, OnTheWay
  <2>2. ASSUME NEW v \in Users, NEW i \in 1..Len(up[v]), ~up[v][i].deleted
        PROVE  up[v][i].prev \in Range(order) \cup {NIL} \/ IsSent(up[v], i - 1, up[v][i].prev)
    BY <2>2 DEF CInv, OnTheWay
  <2> QED
    BY <1>1, <2>1, <2>2 DEF OnTheWay
<1>12. Delivered'
  <2>1. ASSUME NEW v \in Users, NEW i \in 1..Len(down'[v]) PROVE down'[v][i].id \in Range(order)
    <3>1. CASE v = u
      <4>1. i + 1 \in 1..Len(down[u]) /\ down'[v][i] = down[u][i + 1]
        <5>1. i \in 1..(Len(down[u]) - 1)
          BY <1>3, <1>8, <3>1
        <5>2. i + 1 \in 1..Len(down[u]) /\ Tail(down[u])[i] = down[u][i + 1]
          BY <1>3, <5>1
        <5> QED
          BY <1>8, <3>1, <5>2
      <4>2. \A j \in 1..Len(down[u]) : down[u][j].id \in Range(order)
        BY DEF CInv, Delivered
      <4> QED
        BY <4>1, <4>2
    <3>2. CASE v # u
      BY <1>8, <3>2 DEF CInv, Delivered
    <3> QED
      BY <3>1, <3>2
  <2>2. \A v \in Users : task[v].to # <<>> => task[v].element \in Element /\ task[v].element.id \in Range(order)
    BY DEF CInv, Delivered
  <2> QED
    BY <1>1, <2>1, <2>2 DEF Delivered
<1>13. Numbered'
  <2>1. ASSUME NEW v \in Users, NEW x \in Known(doc'[v]) \cup Range(order)
        PROVE  x[2] \in Users /\ x \in Known(doc'[x[2]])
    <3>1. x \in Known(doc[v]) \cup Range(order)
      BY <1>4, <1>10
    <3>2. x[2] \in Users /\ x \in Known(doc[x[2]])
      BY <3>1 DEF CInv, Numbered
    <3> QED
      BY <1>10, <3>2
  <2>2. ASSUME NEW v \in Users, NEW i \in 1..Len(up[v]) PROVE up[v][i].id \in Known(doc'[v])
    <3>1. up[v][i].id \in Known(doc[v])
      BY DEF CInv, Numbered
    <3> QED
      BY <1>10, <3>1
  <2>3. ASSUME NEW v \in Users, NEW x \in Known(doc'[v]), x[2] = v PROVE x[1] < doc'[v].length
    <3>1. x \in Known(doc[v])
      <4>1. x \in Known(doc[v]) \cup Range(order)
        BY <1>4, <1>10
      <4> QED
        BY <2>3, <4>1 DEF CInv, Numbered
    <3>2. x[1] < doc[v].length /\ x \in Ids /\ doc[v].length \in Nat
      BY <2>3, <3>1 DEF CInv, Numbered, Shape, DocTypes
    <3>3. x[1] \in Nat
      BY <3>2, CollabAssumption DEF Ids
    <3>4. doc'[v].length >= doc[v].length /\ doc'[v].length \in Nat
      <4>1. CASE v = u
        BY <1>6, <1>7, <4>1 DEF DocTypes
      <4>2. CASE v # u
        BY <1>7, <3>2, <4>2
      <4> QED
        BY <4>1, <4>2
    <3> QED
      BY <3>2, <3>3, <3>4
  <2> QED
    BY <1>1, <2>1, <2>2, <2>3 DEF Numbered
<1> QED
  BY <1>1, <1>9, <1>11, <1>12, <1>13 DEF CInv

\* The operators of the worker's list are those used here.
LEMMA ListOperators ==
    /\ List!Present = Range(order)
    /\ \A s, i, e : List!InsertAt(s, i, e) = InsertAt(s, i, e)
    /\ \A f, k, v : DOMAIN List!Put(f, k, v) = DOMAIN f \cup {k}
<1>1. List!Present = Range(order)
  BY DEF List!Present, List!Range, Range
<1>2. \A s, i, e : List!InsertAt(s, i, e) = InsertAt(s, i, e)
  BY DEF List!InsertAt, InsertAt
<1>3. \A f, k, v : DOMAIN List!Put(f, k, v) = DOMAIN f \cup {k}
  BY DEF List!Put
<1> QED
  BY <1>1, <1>2, <1>3

\* The worker's list takes an element.
LEMMA AddedTypes ==
    ASSUME Shape, NEW m \in Element, IsNews(m), AddToSession(m)
    PROVE  /\ order' \in Seq(Ids) /\ IsInjective(order')
           /\ Range(order) \subseteq Range(order') /\ Range(order') \subseteq Range(order) \cup {m.id}
           /\ m.id \in Range(order')
           /\ DOMAIN sent' = Range(order') /\ dead' \subseteq Range(order')
<1>1. /\ order \in Seq(Ids) /\ IsInjective(order) /\ DOMAIN sent = Range(order) /\ dead \subseteq Range(order)
      /\ Len(order) \in Nat
  BY DEF Shape
<1>2. m.id \in Ids
  BY DEF Element
<1>3. ASSUME ~m.deleted, NEW i \in 1..(Len(order) + 1), order' = InsertAt(order, i, m.id),
             NEW prev, sent' = List!Put(sent, m.id, prev), dead' = dead
      PROVE  /\ order' \in Seq(Ids) /\ IsInjective(order') /\ Range(order') = Range(order) \cup {m.id}
             /\ DOMAIN sent' = Range(order') /\ dead' \subseteq Range(order')
  <2>1. m.id \notin Range(order)
    BY <1>3, ListOperators DEF IsNews
  <2>2. order' \in Seq(Ids)
    BY <1>1, <1>2, <1>3, InsertAtElements
  <2>3. IsInjective(order') /\ Range(order') = Range(order) \cup {m.id}
    BY <1>1, <1>2, <1>3, <2>1, InsertAtInjective
  <2>4. DOMAIN sent' = DOMAIN sent \cup {m.id}
    BY <1>3, ListOperators
  <2> QED
    BY <1>1, <1>3, <2>2, <2>3, <2>4
<1>4. CASE ~m.deleted /\ m.prev = NIL /\ List!InsertHead(m.id)
  <2>1. order' = InsertAt(order, 1, m.id) /\ sent' = List!Put(sent, m.id, NIL) /\ dead' = dead
    BY <1>4, ListOperators DEF List!InsertHead
  <2>2. 1 \in 1..(Len(order) + 1)
    BY <1>1
  <2> QED
    BY <1>3, <1>4, <2>1, <2>2
<1>5. CASE ~m.deleted /\ m.prev # NIL /\ List!InsertAfter(m.id, m.prev)
  <2>1. PICK i \in 1..Len(order) : order' = InsertAt(order, i + 1, m.id)
    BY <1>5, ListOperators DEF List!InsertAfter
  <2>2. i + 1 \in 1..(Len(order) + 1)
    BY <1>1
  <2>3. sent' = List!Put(sent, m.id, m.prev) /\ dead' = dead
    BY <1>5 DEF List!InsertAfter
  <2> QED
    BY <1>3, <1>5, <2>1, <2>2, <2>3
<1>6. CASE m.deleted /\ List!Bury(m.id)
  <2>1. order' = order /\ sent' = sent /\ dead' = dead \cup {m.id} /\ m.id \in Range(order)
    BY <1>6, ListOperators DEF List!Bury
  <2> QED
    BY <1>1, <2>1
<1> QED
  BY <1>4, <1>5, <1>6 DEF AddToSession

\* The worker handles the first message of u.
LEMMA ProcessStep ==
    ASSUME CInv, NEW u \in Users, Process(u)
    PROVE  CInv'
<1> DEFINE m == Head(up[u])
<1>1. /\ up[u] # <<>> /\ up' = [up EXCEPT ![u] = Tail(up[u])]
      /\ doc' = doc /\ down' = down
  BY DEF Process
<1>2. up \in [Users -> Seq(Element)] /\ up[u] \in Seq(Element)
  BY DEF CInv, Shape
<1>3. /\ m \in Element /\ m = up[u][1] /\ 1 \in 1..Len(up[u])
      /\ Tail(up[u]) \in Seq(Element) /\ Len(Tail(up[u])) = Len(up[u]) - 1 /\ Len(up[u]) \in Nat
      /\ \A i \in 1..(Len(up[u]) - 1) : Tail(up[u])[i] = up[u][i + 1]
  BY <1>1, <1>2, QueueFacts
<1>4. /\ up' \in [Users -> Seq(Element)] /\ up'[u] = Tail(up[u])
      /\ \A v \in Users \ {u} : up'[v] = up[v]
  BY <1>1, <1>2, <1>3
<1>5. /\ m.id \in Known(doc[u])
      /\ ~m.deleted => m.prev \in Range(order) \cup {NIL}
  <2>1. m.id \in Known(doc[u])
    BY <1>3 DEF CInv, Numbered
  <2>2. ~up[u][1].deleted => up[u][1].prev \in Range(order) \cup {NIL} \/ IsSent(up[u], 1 - 1, up[u][1].prev)
    BY <1>3 DEF CInv, OnTheWay
  <2>3. ~IsSent(up[u], 1 - 1, up[u][1].prev)
    BY DEF IsSent
  <2> QED
    BY <1>3, <2>1, <2>2, <2>3
<1>6. \/ /\ IsNews(m) /\ AddToSession(m)
         /\ task' = [task EXCEPT ![u] = [element |-> m, to |-> OthersThan(m.client)]]
         /\ alive' = alive
      \/ /\ ~IsNews(m) /\ alive' = ~Panics(m)
         /\ order' = order /\ sent' = sent /\ dead' = dead /\ task' = task
  BY DEF Process
<1> HIDE DEF m
<1>7. /\ order' \in Seq(Ids) /\ IsInjective(order')
      /\ Range(order) \subseteq Range(order') /\ Range(order') \subseteq Range(order) \cup {m.id}
      /\ DOMAIN sent' = Range(order') /\ dead' \subseteq Range(order')
      /\ ~m.deleted => m.id \in Range(order')
      /\ alive'
  <2>1. CASE IsNews(m) /\ AddToSession(m) /\ alive' = alive
    <3>1. Shape /\ alive
      BY DEF CInv
    <3> QED
      BY <1>3, <2>1, <3>1, AddedTypes
  <2>2. CASE ~IsNews(m) /\ alive' = ~Panics(m) /\ order' = order /\ sent' = sent /\ dead' = dead
    <3>1. ~Panics(m) /\ (~m.deleted => m.id \in Range(order))
      BY <1>5, <2>2, ListOperators DEF Panics, IsNews
    <3>2. order \in Seq(Ids) /\ IsInjective(order) /\ DOMAIN sent = Range(order) /\ dead \subseteq Range(order)
      BY DEF CInv, Shape
    <3> QED
      BY <2>2, <3>1, <3>2
  <2> QED
    BY <1>6, <2>1, <2>2
<1>8. /\ task' = [v \in Users |-> task'[v]]
      /\ \A v \in Users : /\ task'[v] = [element |-> task'[v].element, to |-> task'[v].to]
                          /\ task'[v] = NoTask \/ task'[v].element \in Element
                          /\ task'[v].to # <<>> => task'[v].element \in Element
                                                   /\ task'[v].element.id \in Range(order')
  <2>1. /\ task = [v \in Users |-> task[v]]
        /\ \A v \in Users : /\ task[v] = [element |-> task[v].element, to |-> task[v].to]
                            /\ task[v] = NoTask \/ task[v].element \in Element
    BY DEF CInv, Shape
  <2>2. \A v \in Users : task[v].to # <<>> => task[v].element \in Element
                                              /\ task[v].element.id \in Range(order')
    BY <1>7 DEF CInv, Delivered
  <2>3. CASE IsNews(m) /\ AddToSession(m)
             /\ task' = [task EXCEPT ![u] = [element |-> m, to |-> OthersThan(m.client)]]
    <3> DEFINE new == [element |-> m, to |-> OthersThan(m.client)]
    <3>1. new = [element |-> new.element, to |-> new.to] /\ new.element = m
      OBVIOUS
    <3>2. m.id \in Range(order')
      <4>1. Shape
        BY DEF CInv
      <4> QED
        BY <1>3, <2>3, <4>1, AddedTypes
    <3> HIDE DEF new
    <3>3. task' = [task EXCEPT ![u] = new]
      BY <2>3 DEF new
    <3>4. task'[u] = new /\ \A v \in Users \ {u} : task'[v] = task[v]
      BY <2>1, <3>3
    <3>5. task' = [v \in Users |-> task'[v]]
      BY <2>1, <3>3
    <3> QED
      BY <1>3, <2>1, <2>2, <3>1, <3>2, <3>4, <3>5
  <2>4. CASE task' = task
    BY <2>1, <2>2, <2>4
  <2> QED
    BY <1>6, <2>3, <2>4
<1>9. Shape'
  BY <1>1, <1>4, <1>7, <1>8 DEF CInv, Shape
<1>10. \A n \in 1..Len(up[u]) : \A x : IsSent(up[u], n, x) => x \in Range(order') \/ IsSent(up'[u], n - 1, x)
  <2> SUFFICES ASSUME NEW n \in 1..Len(up[u]), NEW x, IsSent(up[u], n, x), x \notin Range(order')
               PROVE  IsSent(up'[u], n - 1, x)
    OBVIOUS
  <2>1. PICK j \in 1..n : up[u][j].id = x /\ ~up[u][j].deleted
    BY DEF IsSent
  <2>2. j # 1
    BY <1>3, <1>7, <2>1
  <2>3. j - 1 \in 1..(n - 1) /\ j - 1 \in 1..(Len(up[u]) - 1) /\ (j - 1) + 1 = j
    BY <1>3, <2>2
  <2>4. up'[u][j - 1] = up[u][j]
    BY <1>3, <1>4, <2>3
  <2> QED
    BY <2>1, <2>3, <2>4 DEF IsSent
<1>11. OnTheWay'
  <2>1. ASSUME NEW v \in Users, NEW x \in Known(doc[v])
        PROVE  x \in Range(order') \/ IsSent(up'[v], Len(up'[v]), x)
    <3>1. x \in Range(order) \/ IsSent(up[v], Len(up[v]), x)
      BY DEF CInv, OnTheWay
    <3>2. CASE v = u
      <4>1. Len(up[u]) \in 1..Len(up[u]) /\ Len(up'[u]) = Len(up[u]) - 1
        BY <1>3, <1>4
      <4> QED
        BY <1>7, <1>10, <3>1, <3>2, <4>1
    <3>3. CASE v # u
      BY <1>4, <1>7, <3>1, <3>3
    <3> QED
      BY <3>2, <3>3
  <2>2. ASSUME NEW v \in Users, NEW i \in 1..Len(up'[v]), ~up'[v][i].deleted
        PROVE  up'[v][i].prev \in Range(order') \cup {NIL} \/ IsSent(up'[v], i - 1, up'[v][i].prev)
    <3>1. CASE v = u
      <4>1. i + 1 \in 1..Len(up[u]) /\ i \in 1..Len(up[u]) /\ up'[u][i] = up[u][i + 1] /\ (i + 1) - 1 = i
        BY <1>3, <1>4, <3>1
      <4> DEFINE x == up[u][i + 1].prev
      <4>2. x \in Range(order) \cup {NIL} \/ IsSent(up[u], i, x)
        <5>1. \A k \in 1..Len(up[u]) : ~up[u][k].deleted =>
                  up[u][k].prev \in Range(order) \cup {NIL} \/ IsSent(up[u], k - 1, up[u][k].prev)
          BY DEF CInv, OnTheWay
        <5> QED
          BY <2>2, <3>1, <4>1, <5>1
      <4> HIDE DEF x
      <4>3. x \in Range(order') \cup {NIL} \/ IsSent(up'[u], i - 1, x)
        BY <1>7, <1>10, <4>1, <4>2
      <4> QED
        BY <3>1, <4>1, <4>3 DEF x
    <3>2. CASE v # u
      <4>1. up'[v] = up[v]
        BY <1>4, <3>2
      <4>2. up[v][i].prev \in Range(order) \cup {NIL} \/ IsSent(up[v], i - 1, up[v][i].prev)
        BY <2>2, <4>1 DEF CInv, OnTheWay
      <4> QED
        BY <1>7, <4>1, <4>2
    <3> QED
      BY <3>1, <3>2
  <2> QED
    BY <1>1, <2>1, <2>2 DEF OnTheWay
<1>12. Delivered'
  <2>1. \A v \in Users : \A i \in 1..Len(down[v]) : down[v][i].id \in Range(order')
    BY <1>7 DEF CInv, Delivered
  <2> QED
    BY <1>1, <1>8, <2>1 DEF Delivered
<1>13. Numbered'
  <2>1. ASSUME NEW v \in Users, NEW x \in Known(doc[v]) \cup Range(order')
        PROVE  x[2] \in Users /\ x \in Known(doc[x[2]])
    <3>1. x \in Known(doc[v]) \cup Range(order) \/ x \in Known(doc[u])
      BY <1>5, <1>7
    <3> QED
      BY <3>1 DEF CInv, Numbered
  <2>2. ASSUME NEW v \in Users, NEW i \in 1..Len(up'[v]) PROVE up'[v][i].id \in Known(doc[v])
    <3>0. \A k \in 1..Len(up[v]) : up[v][k].id \in Known(doc[v])
      BY DEF CInv, Numbered
    <3>1. CASE v = u
      <4>1. i + 1 \in 1..Len(up[u]) /\ up'[u][i] = up[u][i + 1]
        BY <1>3, <1>4, <3>1
      <4> QED
        BY <3>0, <3>1, <4>1
    <3>2. CASE v # u
      BY <1>4, <3>0, <3>2
    <3> QED
      BY <3>1, <3>2
  <2>3. \A v \in Users : \A x \in Known(doc[v]) : x[2] = v => x[1] < doc[v].length
    BY DEF CInv, Numbered
  <2> QED
    BY <1>1, <2>1, <2>2, <2>3 DEF Numbered
<1> QED
  BY <1>7, <1>9, <1>11, <1>12, <1>13 DEF CInv

LEMMA TaskChanged ==
    ASSUME NEW e, NEW t, NEW x
    PROVE  [[element |-> e, to |-> t] EXCEPT !.to = x] = [element |-> e, to |-> x]
  OBVIOUS

\* The worker sends what it has handled to one more user.
LEMMA BroadcastStep ==
    ASSUME CInv, NEW u \in Users, Broadcast(u)
    PROVE  CInv'
<1> DEFINE w == Head(task[u].to)
           m == task[u].element
           rest == IF Tail(task[u].to) = <<>> THEN NoTask ELSE [task[u] EXCEPT !.to = Tail(task[u].to)]
<1>1. /\ task[u].to # <<>> /\ down' = [down EXCEPT ![w] = Append(down[w], m)]
      /\ task' = [task EXCEPT ![u] = rest]
      /\ doc' = doc /\ up' = up /\ order' = order /\ sent' = sent /\ dead' = dead /\ alive' = alive
  <2>1. down' = [down EXCEPT ![w] = Append(down[w], m)]
    BY DEF Broadcast
  <2>2. task' = [task EXCEPT ![u] = rest]
    BY DEF Broadcast
  <2>3. /\ task[u].to # <<>>
        /\ doc' = doc /\ up' = up /\ order' = order /\ sent' = sent /\ dead' = dead /\ alive' = alive
    BY DEF Broadcast
  <2> QED
    BY <2>1, <2>2, <2>3
<1>2. m \in Element /\ m.id \in Range(order)
  BY <1>1 DEF CInv, Delivered
<1>3. /\ task = [v \in Users |-> task[v]]
      /\ \A v \in Users : /\ task[v] = [element |-> task[v].element, to |-> task[v].to]
                          /\ task[v] = NoTask \/ task[v].element \in Element
                          /\ task[v].to # <<>> => task[v].element \in Element
                                                  /\ task[v].element.id \in Range(order)
  BY DEF CInv, Shape, Delivered
<1>4. rest = [element |-> rest.element, to |-> rest.to]
      /\ (rest = NoTask \/ rest.element = m) /\ (rest.to # <<>> => rest.element = m)
  <2>1. CASE rest = NoTask
    <3>1. NoTask = [element |-> NoTask.element, to |-> NoTask.to] /\ NoTask.to = <<>>
      BY DEF NoTask
    <3> QED
      BY <2>1, <3>1
  <2>2. CASE rest = [task[u] EXCEPT !.to = Tail(task[u].to)]
    <3>1. task[u] = [element |-> m, to |-> task[u].to]
      BY <1>3
    <3>2. rest = [element |-> m, to |-> Tail(task[u].to)]
      <4> HIDE DEF rest, m
      <4> DEFINE t == task[u].to
                 r == task[u]
      <4>1. r = [element |-> m, to |-> t] /\ rest = [r EXCEPT !.to = Tail(t)]
        BY <2>2, <3>1
      <4> HIDE DEF t, r
      <4>2. [[element |-> m, to |-> t] EXCEPT !.to = Tail(t)] = [element |-> m, to |-> Tail(t)]
        BY TaskChanged
      <4>3. rest = [element |-> m, to |-> Tail(t)]
        BY <4>1, <4>2
      <4> QED
        BY <4>3 DEF t
    <3> HIDE DEF rest, m
    <3>3. rest.element = m /\ rest.to = Tail(task[u].to)
      BY <3>2
    <3> QED
      BY <3>2, <3>3
  <2> QED
    BY <2>1, <2>2
<1> HIDE DEF rest, w, m
<1>5. task' = [v \in Users |-> task'[v]] /\ task'[u] = rest /\ \A v \in Users \ {u} : task'[v] = task[v]
  BY <1>1, <1>3
<1>6. \A v \in Users : /\ task'[v] = [element |-> task'[v].element, to |-> task'[v].to]
                       /\ task'[v] = NoTask \/ task'[v].element \in Element
                       /\ task'[v].to # <<>> => task'[v].element \in Element
                                                /\ task'[v].element.id \in Range(order)
  BY <1>2, <1>3, <1>4, <1>5
<1>7. down' \in [Users -> Seq(Element)]
      /\ \A v \in Users : \A i \in 1..Len(down'[v]) : down'[v][i].id \in Range(order)
  <2>1. down \in [Users -> Seq(Element)]
        /\ \A v \in Users : \A i \in 1..Len(down[v]) : down[v][i].id \in Range(order)
    BY DEF CInv, Shape, Delivered
  <2>2. CASE w \in Users
    <3> DEFINE q == Append(down[w], m)
    <3>1. down[w] \in Seq(Element)
      BY <2>1, <2>2
    <3>2. q \in Seq(Element) /\ \A i \in 1..Len(q) : q[i] = m \/ (i \in 1..Len(down[w]) /\ q[i] = down[w][i])
      BY <1>2, <3>1
    <3> HIDE DEF q
    <3>3. down' = [down EXCEPT ![w] = q]
      BY <1>1 DEF q
    <3>4. down' \in [Users -> Seq(Element)] /\ down'[w] = q /\ \A v \in Users \ {w} : down'[v] = down[v]
      BY <2>1, <2>2, <3>2, <3>3
    <3>5. \A i \in 1..Len(q) : q[i].id \in Range(order)
      BY <1>2, <2>1, <2>2, <3>2
    <3> QED
      BY <2>1, <3>4, <3>5
  <2>3. CASE w \notin Users
    <3>1. down' = down
      BY <1>1, <2>1, <2>3
    <3> QED
      BY <2>1, <3>1
  <2> QED
    BY <2>2, <2>3
<1>8. Shape'
  BY <1>1, <1>5, <1>6, <1>7 DEF CInv, Shape
<1>9. OnTheWay' /\ Numbered'
  BY <1>1 DEF CInv, OnTheWay, Numbered
<1>10. Delivered'
  BY <1>1, <1>6, <1>7 DEF Delivered
<1> QED
  BY <1>1, <1>8, <1>9, <1>10 DEF CInv

\* A document as it is loaded.
LEMMA LoadedFacts ==
    ASSUME NEW s \in Seq(Ids), IsInjective(s)
    PROVE  DocTypes(Loaded(s)) /\ Shows(Loaded(s), s) /\ Known(Loaded(s)) = Range(s)
           /\ Loaded(s).length = Len(s) /\ Loaded(s).dead = {}
<1> DEFINE d == Loaded(s)
           next == [k \in Range(s) |-> LET i == IndexIn(s, k) IN IF i = Len(s) THEN NIL ELSE s[i + 1]]
           prev == [k \in Range(s) |-> LET i == IndexIn(s, k) IN IF i = 1 THEN NIL ELSE s[i - 1]]
<1>1. /\ Len(s) \in Nat /\ DOMAIN s = 1..Len(s)
      /\ \A i \in 1..Len(s) : s[i] \in Range(s) /\ s[i] \in Ids /\ IndexIn(s, s[i]) = i
      /\ \A x \in Range(s) : IndexIn(s, x) \in 1..Len(s) /\ s[IndexIn(s, x)] = x
  BY SeqFacts, IndexInFacts
<1>2. /\ IsDoc(d) /\ Known(d) = Range(s) /\ d.next = next /\ d.prev = prev
      /\ d.dead = {} /\ d.text = s /\ d.length = Len(s)
      /\ d.head = IF s = <<>> THEN NIL ELSE s[1]
  BY DEF Loaded, IsDoc, Known
<1>3. \A i \in 1..Len(s) : next[s[i]] = At(s, i + 1) /\ prev[s[i]] = At(s, i - 1)
  <2> SUFFICES ASSUME NEW i \in 1..Len(s) PROVE next[s[i]] = At(s, i + 1) /\ prev[s[i]] = At(s, i - 1)
    OBVIOUS
  <2>1. /\ next[s[i]] = IF i = Len(s) THEN NIL ELSE s[i + 1]
        /\ prev[s[i]] = IF i = 1 THEN NIL ELSE s[i - 1]
    <3>1. s[i] \in Range(s) /\ IndexIn(s, s[i]) = i
      BY <1>1
    <3> QED
      BY <3>1
  <2>2. At(s, i + 1) = IF i = Len(s) THEN NIL ELSE s[i + 1]
    <3>1. Len(s) \in Nat
      OBVIOUS
    <3>2. i + 1 \in 1..Len(s) <=> i # Len(s)
      BY <3>1
    <3> QED
      BY <3>2 DEF At
  <2>3. At(s, i - 1) = IF i = 1 THEN NIL ELSE s[i - 1]
    <3>1. Len(s) \in Nat
      OBVIOUS
    <3>2. i - 1 \in 1..Len(s) <=> i # 1
      BY <3>1
    <3> QED
      BY <3>2 DEF At
  <2> QED
    BY <2>1, <2>2, <2>3
<1>4. d.head = At(s, 1) /\ d.head \in Range(s) \cup {NIL}
  <2> HIDE DEF d
  <2>1. CASE s = <<>>
    <3>1. Len(s) = 0
      BY <2>1
    <3> QED
      BY <1>2, <2>1, <3>1 DEF At
  <2>2. CASE s # <<>>
    <3>1. 1 \in 1..Len(s)
      BY <1>1, <2>2
    <3> QED
      BY <1>1, <1>2, <2>2, <3>1 DEF At
  <2> QED
    BY <2>1, <2>2
<1>5. next \in [Range(s) -> Range(s) \cup {NIL}] /\ prev \in [Range(s) -> Range(s) \cup {NIL}]
  <2>1. ASSUME NEW k \in Range(s) PROVE next[k] \in Range(s) \cup {NIL} /\ prev[k] \in Range(s) \cup {NIL}
    <3>1. PICK i \in 1..Len(s) : s[i] = k
      BY <1>1
    <3> QED
      BY <1>1, <1>3, <3>1 DEF At
  <2> QED
    BY <2>1
<1> HIDE DEF d, next, prev
<1>6. Range(s) \subseteq Ids /\ IsFiniteSet(Range(s))
  BY <1>1, RangeCounted
<1>7. DocTypes(d)
  BY <1>1, <1>2, <1>4, <1>5, <1>6 DEF DocTypes
<1>8. ListOf(d, s)
  BY <1>2, <1>3, <1>4 DEF ListOf
<1>9. Selects(d.text, s, Ids \ d.dead)
  BY <1>1, <1>2, <1>6 DEF Selects
<1> QED
  BY <1>2, <1>7, <1>8, <1>9 DEF Shows, d

\* The elements a session starts with.
LEMMA OpenedFacts ==
    /\ Opened \in Seq(Ids) /\ IsInjective(Opened) /\ Len(Opened) = Opening
    /\ \A id \in Range(Opened) : id[2] \in Users /\ id[1] < Opening
<1>1. Opening \in Nat /\ MaxNumber \in Nat /\ Opening <= MaxNumber + 1
  BY CollabAssumption
<1>2. Joined[1] \in Users
  <2>1. 1 \in DOMAIN Joined
    BY CollabAssumption
  <2> QED
    BY <2>1 DEF Users, Range
<1>3. \A i \in 1..Opening : Opened[i] = <<i - 1, Joined[1]>> /\ Opened[i] \in Ids
  BY <1>1, <1>2 DEF Opened, Ids
<1>4. Opened \in Seq(Ids) /\ Len(Opened) = Opening /\ DOMAIN Opened = 1..Opening
  BY <1>1, <1>3 DEF Opened
<1>5. IsInjective(Opened)
  BY <1>1, <1>3, <1>4 DEF IsInjective
<1>6. \A id \in Range(Opened) : id[2] \in Users /\ id[1] < Opening
  BY <1>1, <1>2, <1>3, <1>4 DEF Range
<1> QED
  BY <1>4, <1>5, <1>6

LEMMA InitCInv == Init => CInv
<1> SUFFICES ASSUME Init PROVE CInv
  OBVIOUS
<1>1. /\ Opened \in Seq(Ids) /\ IsInjective(Opened) /\ Len(Opened) = Opening
      /\ \A id \in Range(Opened) : id[2] \in Users /\ id[1] < Opening
  BY OpenedFacts
<1>2. /\ DocTypes(Loaded(Opened)) /\ Known(Loaded(Opened)) = Range(Opened)
      /\ Loaded(Opened).length = Opening
  BY <1>1, LoadedFacts
<1>3. \A u \in Users : doc[u] = Loaded(Opened) /\ up[u] = <<>> /\ down[u] = <<>> /\ task[u] = NoTask
  BY DEF Init
<1>4. order = Opened /\ dead = {} /\ alive = TRUE /\ DOMAIN sent = Range(Opened)
  BY DEF Init
<1>5. NoTask = [element |-> NoTask.element, to |-> NoTask.to] /\ NoTask.to = <<>>
  BY DEF NoTask
<1>6. doc = [u \in Users |-> doc[u]] /\ task = [u \in Users |-> task[u]]
  BY DEF Init
<1>7. up \in [Users -> Seq(Element)] /\ down \in [Users -> Seq(Element)]
  BY DEF Init
<1> HIDE DEF Init
<1>8. Shape
  BY <1>1, <1>2, <1>3, <1>4, <1>5, <1>6, <1>7 DEF Shape
<1>9. OnTheWay /\ Delivered
  BY <1>2, <1>3, <1>4, <1>5 DEF OnTheWay, Delivered
<1>10. Numbered
  BY <1>1, <1>2, <1>3, <1>4 DEF Numbered
<1> QED
  BY <1>4, <1>8, <1>9, <1>10 DEF CInv

LEMMA NextCInv == CInv /\ [Next]_vars => CInv'
<1> SUFFICES ASSUME CInv, [Next]_vars PROVE CInv'
  OBVIOUS
<1>1. ASSUME NEW u \in Users, NEW ch \in 0..Len(doc[u].text), Type(u, ch) PROVE CInv'
  BY <1>1, TypeStep
<1>2. ASSUME NEW u \in Users, NEW ch \in 1..Len(doc[u].text), Erase(u, ch) PROVE CInv'
  BY <1>2, EraseStep
<1>3. ASSUME NEW u \in Users, Arrive(u) PROVE CInv'
  BY <1>3, ArriveStep
<1>4. ASSUME NEW u \in Users, Process(u) PROVE CInv'
  BY <1>4, ProcessStep
<1>5. ASSUME NEW u \in Users, Broadcast(u) PROVE CInv'
  BY <1>5, BroadcastStep
<1>6. CASE UNCHANGED vars
  BY <1>6 DEF vars, workerVars, CInv, Shape, OnTheWay, IsSent, Delivered, Numbered
<1> QED
  BY <1>1, <1>2, <1>3, <1>4, <1>5, <1>6 DEF Next

LEMMA AlwaysCInv == Spec => []CInv
<1> QED
  BY InitCInv, NextCInv, PTL DEF Spec

\* Types, as the model states them: the pointers and texts of all browsers,
\* everything under way and the worker's list.
THEOREM SpecTypeOK == Spec => []TypeOK
<1>1. CInv => TypeOK
  <2> SUFFICES ASSUME CInv PROVE TypeOK
    OBVIOUS
  <2>1. ASSUME NEW u \in Users
        PROVE  /\ Known(doc[u]) \subseteq Ids
               /\ doc[u].next \in [Known(doc[u]) -> Ids \cup {NIL}]
               /\ doc[u].prev \in [Known(doc[u]) -> Ids \cup {NIL}]
               /\ doc[u].text \in Seq(Known(doc[u]) \ doc[u].dead)
    <3> DEFINE d == doc[u]
               S == Known(d) \ d.dead
    <3>1. DocTypes(d)
      BY DEF CInv, Shape
    <3> HIDE DEF d
    <3>2. d.text \in Seq(Ids) /\ Range(d.text) \subseteq S
      BY <3>1 DEF DocTypes
    <3> HIDE DEF S
    <3>3. \A i \in 1..Len(d.text) : d.text[i] \in S
      BY <3>2 DEF Range
    <3>4. d.text \in Seq(S)
      BY <3>2, <3>3
    <3> QED
      BY <3>1, <3>4 DEF DocTypes, d, S
  <2> QED
    BY <2>1 DEF CInv, Shape, TypeOK
<1> QED
  BY <1>1, AlwaysCInv, PTL

\* No element reaches the worker before the one it was typed behind, whoever
\* types, deletes and connects: the worker lives.
THEOREM SpecNeverPanics == Spec => []NeverPanics
<1>1. CInv => NeverPanics
  BY DEF CInv, NeverPanics
<1> QED
  BY <1>1, AlwaysCInv, PTL

-----------------------------------------------------------------------------
(***************************************************************************)
(* The editors.                                                            *)
(***************************************************************************)
\* No element of the queue is a deletion.
Insertions(q) == \A i \in 1..Len(q) : ~q[i].deleted

\* Nobody has deleted anything if nobody may.
Undeleted == \A u \in Users :
    /\ doc[u].dead = {}
    /\ Insertions(up[u]) /\ Insertions(down[u])
    /\ task[u].to # <<>> => ~task[u].element.deleted

Listed == (\A u \in Users : DocList(doc[u])) /\ (Deleters = {} => Undeleted)

LEMMA InitListed == Init => Listed
<1> SUFFICES ASSUME Init PROVE Listed
  OBVIOUS
<1>1. DocList(Loaded(Opened)) /\ Loaded(Opened).dead = {}
  BY OpenedFacts, LoadedFacts DEF DocList
<1>2. \A u \in Users : doc[u] = Loaded(Opened) /\ up[u] = <<>> /\ down[u] = <<>> /\ task[u].to = <<>>
  BY DEF Init, NoTask
<1> QED
  BY <1>1, <1>2 DEF Listed, Undeleted, Insertions

LEMMA TypeListed ==
    ASSUME Openers = {} \/ Deleters = {}, CInv, Listed,
           NEW u \in Users, NEW ch \in 0..Len(doc[u].text), Type(u, ch)
    PROVE  Listed'
<1> DEFINE id == NewID(doc[u], u)
           prev == Preceding(doc[u], ch)
           d == LocalInput(doc[u], u, ch)
<1>1. /\ id \in Ids /\ doc' = [doc EXCEPT ![u] = d] /\ Send(u, id, prev, FALSE)
      /\ down' = down /\ task' = task /\ (ch = 0 => u \in Openers)
  BY DEF Type, workerVars
<1>2. DocTypes(doc[u]) /\ doc[u].length \in Nat /\ Shape
  BY DEF CInv, Shape, DocTypes
<1>3. id \notin Known(doc[u])
  <2>1. id[1] = doc[u].length /\ id[2] = u
    BY DEF NewID
  <2>2. id \in Known(doc[u]) => id[1] < doc[u].length
    BY <2>1 DEF CInv, Numbered
  <2> QED
    BY <1>2, <2>1, <2>2
<1>4. Grown(doc[u], d, id) /\ prev \in Known(doc[u]) \cup {NIL}
  BY <1>1, <1>2, <1>3, LocalInputTypes
<1>5. DocList(d)
  <2>1. ch # 0 \/ doc[u].dead = {}
    BY <1>1 DEF Listed, Undeleted
  <2>2. DocList(doc[u])
    BY DEF Listed
  <2> QED
    BY <1>1, <1>2, <1>3, <2>1, <2>2, LocalInputList DEF DocList
<1>6. prev \in Ids \cup {NIL} /\ FALSE \in BOOLEAN
  BY <1>2, <1>4 DEF DocTypes
<1> HIDE DEF id, prev, d
<1>7. DocTypes(d) /\ d.dead = doc[u].dead
  BY <1>4 DEF Grown
<1>8. doc'[u] = d /\ \A v \in Users \ {u} : doc'[v] = doc[v]
  BY <1>1, <1>2, <1>7, DocUpdated
<1>9. \A v \in Users : DocList(doc'[v]) /\ doc'[v].dead = doc[v].dead
  BY <1>5, <1>7, <1>8 DEF Listed
<1>10. /\ \A v \in Users \ {u} : up'[v] = up[v]
       /\ Len(up'[u]) = Len(up[u]) + 1 /\ Len(up[u]) \in Nat
       /\ \A i \in 1..Len(up[u]) : up'[u][i] = up[u][i]
       /\ up'[u][Len(up[u]) + 1].deleted = FALSE
  BY <1>1, <1>2, <1>6, SendStep
<1>11. \A v \in Users : Insertions(up[v]) => Insertions(up'[v])
  <2> SUFFICES ASSUME NEW v \in Users, Insertions(up[v]), NEW i \in 1..Len(up'[v])
               PROVE  ~up'[v][i].deleted
    BY DEF Insertions
  <2>1. CASE v # u
    BY <1>10, <2>1 DEF Insertions
  <2>2. CASE v = u /\ i \in 1..Len(up[u])
    BY <1>10, <2>2 DEF Insertions
  <2>3. CASE v = u /\ i \notin 1..Len(up[u])
    <3>1. i = Len(up[u]) + 1
      BY <1>10, <2>3
    <3> QED
      BY <1>10, <2>3, <3>1
  <2> QED
    BY <2>1, <2>2, <2>3
<1> QED
  BY <1>1, <1>9, <1>11 DEF Listed, Undeleted

LEMMA EraseListed ==
    ASSUME CInv, Listed, NEW u \in Users, NEW ch \in 1..Len(doc[u].text), Erase(u, ch)
    PROVE  Listed'
<1> DEFINE id == doc[u].text[ch]
           d == Hide(doc[u], id)
<1>1. doc' = [doc EXCEPT ![u] = d] /\ Deleters # {}
  BY DEF Erase
<1>2. DocTypes(doc[u]) /\ Shape
  BY DEF CInv, Shape
<1>3. id \in Known(doc[u])
  BY <1>2, TextFacts
<1>4. DocTypes(d)
  BY <1>2, <1>3, HideTypes
<1>5. DocList(d)
  BY <1>2, HideList DEF Listed, DocList
<1> HIDE DEF d
<1>6. doc'[u] = d /\ \A v \in Users \ {u} : doc'[v] = doc[v]
  BY <1>1, <1>2, <1>4, DocUpdated
<1> QED
  BY <1>1, <1>5, <1>6 DEF Listed

LEMMA ArriveListed ==
    ASSUME CInv, Listed, NEW u \in Users, Arrive(u)
    PROVE  Listed'
<1> DEFINE m == Head(down[u])
           d == Handled(doc[u], m)
<1>1. /\ down[u] # <<>> /\ doc' = [doc EXCEPT ![u] = d] /\ down' = [down EXCEPT ![u] = Tail(down[u])]
      /\ up' = up /\ task' = task
  BY DEF Arrive, Handled, workerVars
<1>2. down \in [Users -> Seq(Element)] /\ down[u] \in Seq(Element) /\ DocTypes(doc[u]) /\ Shape
  BY DEF CInv, Shape
<1>3. /\ m \in Element /\ m = down[u][1] /\ 1 \in 1..Len(down[u])
      /\ Tail(down[u]) \in Seq(Element) /\ Len(Tail(down[u])) = Len(down[u]) - 1 /\ Len(down[u]) \in Nat
      /\ \A i \in 1..(Len(down[u]) - 1) : Tail(down[u])[i] = down[u][i + 1]
  BY <1>1, <1>2, QueueFacts
<1> HIDE DEF m
<1>4. DocList(doc[u]) /\ m.id \in Ids
  BY <1>3 DEF Listed, Element
<1>5. DocList(d) /\ (~m.deleted => d.dead = doc[u].dead)
  <2>1. CASE m.deleted
    BY <1>2, <1>4, <2>1, RemoteDeleteTypes DEF Handled
  <2>2. CASE ~m.deleted
    <3>1. d = RemoteInput(doc[u], m.id, m.prev)
      BY <2>2 DEF Handled
    <3>2. DocList(RemoteInput(doc[u], m.id, m.prev))
      BY <1>2, <1>4, RemoteInputDocList
    <3>3. Grown(doc[u], RemoteInput(doc[u], m.id, m.prev), m.id)
      BY <1>2, <1>4, RemoteInputTypes
    <3> QED
      BY <3>1, <3>2, <3>3 DEF Grown
  <2> QED
    BY <2>1, <2>2
<1>6. DocTypes(d)
  BY <1>2, <1>3, HandledTypes
<1> HIDE DEF d
<1>7. doc'[u] = d /\ \A v \in Users \ {u} : doc'[v] = doc[v]
  BY <1>1, <1>2, <1>6, DocUpdated
<1>8. \A v \in Users : DocList(doc'[v])
  BY <1>5, <1>7 DEF Listed
<1>9. ASSUME Undeleted PROVE Undeleted'
  <2>1. Insertions(down[u])
    BY <1>9 DEF Undeleted
  <2>2. \A v \in Users : doc'[v].dead = {}
    <3>1. ~m.deleted
      BY <1>3, <2>1 DEF Insertions
    <3> QED
      BY <1>5, <1>7, <1>9, <3>1 DEF Undeleted
  <2>3. down'[u] = Tail(down[u]) /\ \A v \in Users \ {u} : down'[v] = down[v]
    BY <1>1, <1>2
  <2>4. Insertions(Tail(down[u]))
    <3> SUFFICES ASSUME NEW i \in 1..Len(Tail(down[u])) PROVE ~Tail(down[u])[i].deleted
      BY DEF Insertions
    <3>1. i \in 1..(Len(down[u]) - 1) /\ i + 1 \in 1..Len(down[u])
      BY <1>3
    <3>2. Tail(down[u])[i] = down[u][i + 1]
      BY <1>3, <3>1
    <3> QED
      BY <2>1, <3>1, <3>2 DEF Insertions
  <2>5. \A v \in Users : Insertions(down'[v])
    BY <1>9, <2>3, <2>4 DEF Undeleted
  <2> QED
    BY <1>1, <1>9, <2>2, <2>5 DEF Undeleted
<1> QED
  BY <1>8, <1>9 DEF Listed

LEMMA ProcessListed ==
    ASSUME CInv, Listed, NEW u \in Users, Process(u)
    PROVE  Listed'
<1> DEFINE m == Head(up[u])
<1>1. /\ up[u] # <<>> /\ up' = [up EXCEPT ![u] = Tail(up[u])]
      /\ doc' = doc /\ down' = down
  BY DEF Process
<1>2. up \in [Users -> Seq(Element)] /\ up[u] \in Seq(Element) /\ task = [v \in Users |-> task[v]]
  BY DEF CInv, Shape
<1>3. /\ m = up[u][1] /\ 1 \in 1..Len(up[u])
      /\ Tail(up[u]) \in Seq(Element) /\ Len(Tail(up[u])) = Len(up[u]) - 1 /\ Len(up[u]) \in Nat
      /\ \A i \in 1..(Len(up[u]) - 1) : Tail(up[u])[i] = up[u][i + 1]
  BY <1>1, <1>2, QueueFacts
<1>4. task' = task \/ task' = [task EXCEPT ![u] = [element |-> m, to |-> OthersThan(m.client)]]
  BY DEF Process
<1> HIDE DEF m
<1>5. ASSUME Undeleted PROVE Undeleted'
  <2>1. Insertions(up[u]) /\ ~m.deleted
    BY <1>3, <1>5 DEF Undeleted, Insertions
  <2>2. up'[u] = Tail(up[u]) /\ \A v \in Users \ {u} : up'[v] = up[v]
    BY <1>1, <1>2
  <2>3. Insertions(Tail(up[u]))
    <3> SUFFICES ASSUME NEW i \in 1..Len(Tail(up[u])) PROVE ~Tail(up[u])[i].deleted
      BY DEF Insertions
    <3>1. i \in 1..(Len(up[u]) - 1) /\ i + 1 \in 1..Len(up[u])
      BY <1>3
    <3>2. Tail(up[u])[i] = up[u][i + 1]
      BY <1>3, <3>1
    <3> QED
      BY <2>1, <3>1, <3>2 DEF Insertions
  <2>4. \A v \in Users : Insertions(up'[v])
    BY <1>5, <2>2, <2>3 DEF Undeleted
  <2>5. \A v \in Users : task'[v].to # <<>> => ~task'[v].element.deleted
    <3> DEFINE new == [element |-> m, to |-> OthersThan(m.client)]
    <3>1. new.element = m
      OBVIOUS
    <3> HIDE DEF new
    <3>2. CASE task' = [task EXCEPT ![u] = new]
      <4>1. task'[u] = new /\ \A v \in Users \ {u} : task'[v] = task[v]
        BY <1>2, <3>2
      <4> QED
        BY <1>5, <2>1, <3>1, <4>1 DEF Undeleted
    <3>3. CASE task' = task
      BY <1>5, <3>3 DEF Undeleted
    <3> QED
      BY <1>4, <3>2, <3>3 DEF new
  <2> QED
    BY <1>1, <1>5, <2>4, <2>5 DEF Undeleted
<1> QED
  BY <1>1, <1>5 DEF Listed

LEMMA BroadcastListed ==
    ASSUME CInv, Listed, NEW u \in Users, Broadcast(u)
    PROVE  Listed'
<1> DEFINE w == Head(task[u].to)
           m == task[u].element
           rest == IF Tail(task[u].to) = <<>> THEN NoTask ELSE [task[u] EXCEPT !.to = Tail(task[u].to)]
<1>1. /\ task[u].to # <<>> /\ doc' = doc /\ up' = up
      /\ down' = [down EXCEPT ![w] = Append(down[w], m)]
  BY DEF Broadcast
<1>2. task' = [task EXCEPT ![u] = rest]
  BY DEF Broadcast
<1>3. m \in Element /\ task[u] = [element |-> m, to |-> task[u].to] /\ task = [v \in Users |-> task[v]]
  BY <1>1 DEF CInv, Shape, Delivered
<1>4. rest.to # <<>> => rest.element = m
  <2>1. CASE rest = NoTask
    BY <2>1 DEF NoTask
  <2>2. CASE rest = [task[u] EXCEPT !.to = Tail(task[u].to)]
    <3> DEFINE t == task[u].to
               r == task[u]
    <3>1. r = [element |-> m, to |-> t] /\ rest = [r EXCEPT !.to = Tail(t)]
      BY <1>3, <2>2
    <3> HIDE DEF t, r, m, rest
    <3>2. rest = [element |-> m, to |-> Tail(t)]
      BY <3>1, TaskChanged
    <3> QED
      BY <3>2
  <2> QED
    BY <2>1, <2>2
<1> HIDE DEF w, m, rest
<1>5. task'[u] = rest /\ \A v \in Users \ {u} : task'[v] = task[v]
  BY <1>2, <1>3
<1>6. ASSUME Undeleted PROVE Undeleted'
  <2>1. ~m.deleted
    BY <1>1, <1>6 DEF Undeleted, m
  <2>2. \A v \in Users : task'[v].to # <<>> => ~task'[v].element.deleted
    BY <1>4, <1>5, <1>6, <2>1 DEF Undeleted
  <2>3. \A v \in Users : Insertions(down'[v])
    <3>1. down \in [Users -> Seq(Element)] /\ \A v \in Users : Insertions(down[v])
      BY <1>6 DEF CInv, Shape, Undeleted
    <3>2. CASE w \in Users
      <4> DEFINE q == Append(down[w], m)
      <4>1. down[w] \in Seq(Element)
        BY <3>1, <3>2
      <4>2. \A i \in 1..Len(q) : q[i] = m \/ (i \in 1..Len(down[w]) /\ q[i] = down[w][i])
        BY <1>3, <4>1
      <4> HIDE DEF q
      <4>3. Insertions(q)
        BY <2>1, <3>1, <3>2, <4>2 DEF Insertions
      <4>4. down' = [down EXCEPT ![w] = q]
        BY <1>1 DEF q
      <4>5. down'[w] = q /\ \A v \in Users \ {w} : down'[v] = down[v]
        BY <3>1, <3>2, <4>4
      <4> QED
        BY <3>1, <4>3, <4>5
    <3>3. CASE w \notin Users
      <4>1. down' = down
        BY <1>1, <3>1, <3>3
      <4> QED
        BY <3>1, <4>1
    <3> QED
      BY <3>2, <3>3
  <2> QED
    BY <1>1, <1>6, <2>2, <2>3 DEF Undeleted
<1> QED
  BY <1>1, <1>6 DEF Listed

\* An editor shows the visible elements of its browser's list, in the order of
\* the list (SeqCRDT.verify), whatever is typed, deleted and received, as long
\* as nobody deletes or nobody types at the very start of the text: there a
\* new element is put in front of the first visible one, past tombstones.
THEOREM SpecEditorShowsList ==
    ASSUME Openers = {} \/ Deleters = {}
    PROVE  Spec => []EditorShowsList
<1>1. CInv /\ Listed /\ [Next]_vars => Listed'
  <2> SUFFICES ASSUME CInv, Listed, [Next]_vars PROVE Listed'
    OBVIOUS
  <2>1. ASSUME NEW u \in Users, NEW ch \in 0..Len(doc[u].text), Type(u, ch) PROVE Listed'
    BY <2>1, TypeListed
  <2>2. ASSUME NEW u \in Users, NEW ch \in 1..Len(doc[u].text), Erase(u, ch) PROVE Listed'
    BY <2>2, EraseListed
  <2>3. ASSUME NEW u \in Users, Arrive(u) PROVE Listed'
    BY <2>3, ArriveListed
  <2>4. ASSUME NEW u \in Users, Process(u) PROVE Listed'
    BY <2>4, ProcessListed
  <2>5. ASSUME NEW u \in Users, Broadcast(u) PROVE Listed'
    BY <2>5, BroadcastListed
  <2>6. CASE UNCHANGED vars
    BY <2>6 DEF vars, workerVars, Listed, Undeleted, Insertions
  <2> QED
    BY <2>1, <2>2, <2>3, <2>4, <2>5, <2>6 DEF Next
<1>2. CInv /\ Listed => EditorShowsList
  <2> SUFFICES ASSUME CInv, Listed, NEW u \in Users PROVE doc[u].text = ToMapping(doc[u])
    BY DEF EditorShowsList
  <2>1. DocTypes(doc[u]) /\ DocList(doc[u])
    BY DEF CInv, Shape, Listed
  <2> QED
    BY <2>1, ListShown
<1> QED
  BY <1>1, <1>2, InitListed, AlwaysCInv, PTL DEF Spec

-----------------------------------------------------------------------------
(***************************************************************************)
(* Two users end up with the same text.                                    *)
(* What one types and deletes reaches the other in the order it was typed, *)
(* through its websocket, its goroutine in the worker and the websocket of *)
(* the other, so that its element numbers only grow on the way and nothing *)
(* arrives before what it was typed behind.  A list in which every element *)
(* stands behind the one it was typed behind, with nothing but greater     *)
(* elements in between, is determined by its elements (CanonicalUnique);   *)
(* the lists of both browsers and of the worker are of this kind at any    *)
(* time, whichever rule placed the elements.                               *)
(***************************************************************************)

(***************************************************************************)
(* Queues of elements.                                                     *)
(***************************************************************************)
\* What a queue inserts, and what it deletes.
Inserts(q) == { q[j].id : j \in { i \in 1..Len(q) : ~q[i].deleted } }
Deletes(q) == { q[j].id : j \in { i \in 1..Len(q) : q[i].deleted } }

\* The numbers of the elements it inserts grow.
Increasing(q) == \A i, j \in 1..Len(q) :
    i < j /\ ~q[i].deleted /\ ~q[j].deleted => q[i].id[1] < q[j].id[1]

\* The element that a message needs to be there.
Need(m) == IF m.deleted THEN m.id ELSE m.prev

\* It is there, or inserted further ahead.
Ahead(q, K) == \A i \in 1..Len(q) : Need(q[i]) \in K \/ IsSent(q, i - 1, Need(q[i]))

(***************************************************************************)
(* The way from one of two users to the other.                             *)
(***************************************************************************)
Peer(v) == CHOOSE u \in Users : u # v

\* What the goroutine of a user has yet to send to the other.
TaskInserts(v) == IF task[v].to # <<>> /\ ~task[v].element.deleted THEN {task[v].element.id} ELSE {}
TaskDeletes(v) == IF task[v].to # <<>> /\ task[v].element.deleted THEN {task[v].element.id} ELSE {}

By(v, S) == { x \in S : x[2] = v }
Own(v) == By(v, Known(doc[v]))

\* All of S have smaller numbers than all of T.
Before(S, T) == \A x \in S, y \in T : x[1] < y[1]

\* The elements of v have grown from K, where the other browser has them, over
\* D, M and U, which are under way to it, to the worker and to the other; the
\* worker has R.
Chain(v, K, R, D, M, U) ==
    /\ \A x \in D \cup M \cup U : x[2] = v
    /\ Before(By(v, R), U)
    /\ Before(By(v, K), By(v, R) \ K)
    /\ Before(D, M)
    /\ By(v, R) \subseteq K \cup D \cup M

Stream(v) ==
    /\ task[v].to \in {<<>>, <<Peer(v)>>}
    /\ \A i \in 1..Len(up[v]) : up[v][i].client = v
    /\ Increasing(up[v]) /\ Increasing(down[v])
    /\ Chain(v, Known(doc[Peer(v)]), Range(order), Inserts(down[Peer(v)]), TaskInserts(v), Inserts(up[v]))

Flow == \A v \in Users : Stream(v)

\* The elements are counted, and the number of an own element is no greater
\* than the count of what there was when it was typed.
Ranked(S, T) == \A x \in S : x[1] <= Cardinality({ y \in S : y[1] < x[1] }) + Cardinality(T)

Counted == \A v \in Users :
    doc[v].length = Cardinality(Known(doc[v])) /\ Ranked(Own(v), Own(Peer(v)))

(***************************************************************************)
(* Lists that are determined by their elements.                            *)
(***************************************************************************)
\* Every element stands behind the one it was typed behind, its parent, and
\* only greater ones stand between the two.
Canonical(s, par) == \A i \in 1..Len(s) :
    \E p \in 0..(i - 1) : At(s, p) = par[s[i]] /\ \A j \in (p + 1)..(i - 1) : IsLess(s[i], s[j])

SendsParents(q, par) == \A i \in 1..Len(q) : ~q[i].deleted => q[i].prev = par[q[i].id]

Lists(par) ==
    /\ Canonical(order, par)
    /\ \A u \in Users :
           /\ \E s : Shows(doc[u], s) /\ Canonical(s, par)
           /\ SendsParents(up[u], par) /\ SendsParents(down[u], par)
           /\ task[u].to # <<>> => SendsParents(<<task[u].element>>, par)

\* Messages are preceded by what they need.
Prepared == \A v \in Users :
    /\ Ahead(up[v], Range(order))
    /\ task[v].to # <<>> => Need(task[v].element) \in Known(doc[Peer(v)]) \cup Inserts(down[Peer(v)])
    /\ Ahead(down[v], Known(doc[v]))

\* What is deleted here or there is deleted everywhere, or on the way.
Deleted == \A v \in Users :
    /\ Deletes(up[v]) \subseteq doc[v].dead /\ doc[v].dead \subseteq dead \cup Deletes(up[v])
    /\ TaskDeletes(v) \cup Deletes(down[v]) \subseteq dead
    /\ dead \subseteq doc[v].dead \cup TaskDeletes(Peer(v)) \cup Deletes(down[v])

LEMMA QueueSets ==
    ASSUME NEW q, NEW x
    PROVE  /\ x \in Inserts(q) <=> \E j \in 1..Len(q) : q[j].id = x /\ ~q[j].deleted
           /\ x \in Inserts(q) <=> IsSent(q, Len(q), x)
           /\ x \in Deletes(q) <=> \E j \in 1..Len(q) : q[j].id = x /\ q[j].deleted
  BY DEF Inserts, Deletes, IsSent

\* One more message at the end of a queue.
LEMMA QueueAppended ==
    ASSUME NEW q \in Seq(Element), NEW m \in Element
    PROVE  /\ Append(q, m) \in Seq(Element)
           /\ Inserts(Append(q, m)) = Inserts(q) \cup (IF m.deleted THEN {} ELSE {m.id})
           /\ Deletes(Append(q, m)) = Deletes(q) \cup (IF m.deleted THEN {m.id} ELSE {})
           /\ Increasing(q) /\ (~m.deleted => Before(Inserts(q), {m.id})) => Increasing(Append(q, m))
           /\ \A K : Ahead(q, K) /\ Need(m) \in K \cup Inserts(q) => Ahead(Append(q, m), K)
           /\ \A par : SendsParents(q, par) /\ SendsParents(<<m>>, par)
                       => SendsParents(Append(q, m), par)
<1> DEFINE n == Len(q)
           s == Append(q, m)
<1>1. n \in Nat /\ s \in Seq(Element) /\ Len(s) = n + 1 /\ s[n + 1] = m
  OBVIOUS
<1>2. \A i \in 1..n : s[i] = q[i]
  OBVIOUS
<1>3. \A i \in 1..(n + 1) : i \in 1..n \/ i = n + 1
  BY <1>1
<1>4. \A i \in 1..n : i \in 1..(n + 1)
  BY <1>1
<1>5. n + 1 \in 1..(n + 1)
  BY <1>1
<1> HIDE DEF n, s
<1>6. Inserts(s) = Inserts(q) \cup (IF m.deleted THEN {} ELSE {m.id})
  <2>1. ASSUME NEW x PROVE x \in Inserts(s) <=> x \in Inserts(q) \/ (~m.deleted /\ x = m.id)
    <3>1. x \in Inserts(s) <=> \E j \in 1..(n + 1) : s[j].id = x /\ ~s[j].deleted
      BY <1>1, QueueSets
    <3>2. x \in Inserts(q) <=> \E j \in 1..n : q[j].id = x /\ ~q[j].deleted
      BY QueueSets DEF n
    <3> QED
      BY <1>1, <1>2, <1>3, <1>4, <1>5, <3>1, <3>2
  <2> QED
    BY <2>1
<1>7. Deletes(s) = Deletes(q) \cup (IF m.deleted THEN {m.id} ELSE {})
  <2>1. ASSUME NEW x PROVE x \in Deletes(s) <=> x \in Deletes(q) \/ (m.deleted /\ x = m.id)
    <3>1. x \in Deletes(s) <=> \E j \in 1..(n + 1) : s[j].id = x /\ s[j].deleted
      BY <1>1, QueueSets
    <3>2. x \in Deletes(q) <=> \E j \in 1..n : q[j].id = x /\ q[j].deleted
      BY QueueSets DEF n
    <3> QED
      BY <1>1, <1>2, <1>3, <1>4, <1>5, <3>1, <3>2
  <2> QED
    BY <2>1
<1>8. ASSUME Increasing(q), ~m.deleted => Before(Inserts(q), {m.id})
      PROVE  Increasing(s)
  <2>1. \A i, j \in 1..n : i < j /\ ~q[i].deleted /\ ~q[j].deleted => q[i].id[1] < q[j].id[1]
    BY <1>8 DEF Increasing, n
  <2>2. \A i \in 1..n : ~q[i].deleted /\ ~m.deleted => q[i].id[1] < m.id[1]
    <3>1. \A i \in 1..n : ~q[i].deleted => q[i].id \in Inserts(q)
      BY QueueSets DEF n
    <3> QED
      BY <1>8, <3>1 DEF Before
  <2>3. ASSUME NEW i \in 1..(n + 1), NEW j \in 1..(n + 1), i < j, ~s[i].deleted, ~s[j].deleted
        PROVE  s[i].id[1] < s[j].id[1]
    <3>1. i \in 1..n
      BY <1>1, <2>3
    <3> QED
      BY <1>1, <1>2, <1>3, <2>1, <2>2, <2>3, <3>1
  <2> QED
    BY <1>1, <2>3 DEF Increasing
<1>9. ASSUME NEW K, Ahead(q, K), Need(m) \in K \cup Inserts(q)
      PROVE  Ahead(s, K)
  <2>1. ASSUME NEW i \in 1..n PROVE Need(s[i]) \in K \/ IsSent(s, i - 1, Need(s[i]))
    <3>1. Need(q[i]) \in K \/ IsSent(q, i - 1, Need(q[i]))
      BY <1>9 DEF Ahead, n
    <3>2. \A j \in 1..(i - 1) : s[j] = q[j]
      BY <1>1, <1>2
    <3>3. \A x : IsSent(q, i - 1, x) => IsSent(s, i - 1, x)
      BY <3>2 DEF IsSent
    <3> QED
      BY <1>2, <3>1, <3>3
  <2>2. Need(s[n + 1]) \in K \/ IsSent(s, n, Need(s[n + 1]))
    <3>1. \A x : x \in Inserts(q) => IsSent(s, n, x)
      <4>1. \A x : x \in Inserts(q) => IsSent(q, n, x)
        BY QueueSets DEF n
      <4> QED
        BY <1>2, <4>1 DEF IsSent
    <3> QED
      BY <1>1, <1>9, <3>1
  <2>3. (n + 1) - 1 = n
    BY <1>1
  <2> QED
    BY <1>1, <1>3, <2>1, <2>2, <2>3 DEF Ahead
<1>10. ASSUME NEW par, SendsParents(q, par), SendsParents(<<m>>, par)
       PROVE  SendsParents(s, par)
  <2>1. \A i \in 1..n : ~q[i].deleted => q[i].prev = par[q[i].id]
    BY <1>10 DEF SendsParents, n
  <2>2. ~m.deleted => m.prev = par[m.id]
    <3>1. Len(<<m>>) = 1 /\ <<m>>[1] = m
      OBVIOUS
    <3> QED
      BY <1>10, <3>1 DEF SendsParents
  <2> QED
    BY <1>1, <1>2, <1>3, <2>1, <2>2 DEF SendsParents
<1> QED
  BY <1>1, <1>6, <1>7, <1>8, <1>9, <1>10 DEF s

\* The first message of a queue and the others.
LEMMA QueueHead ==
    ASSUME NEW q \in Seq(Element), q # <<>>, NEW m, m = Head(q)
    PROVE  /\ m \in Element /\ Tail(q) \in Seq(Element) /\ m \in Range(q)
           /\ Inserts(q) = Inserts(Tail(q)) \cup (IF m.deleted THEN {} ELSE {m.id})
           /\ Deletes(q) = Deletes(Tail(q)) \cup (IF m.deleted THEN {m.id} ELSE {})
           /\ Increasing(q) => /\ Increasing(Tail(q))
                               /\ ~m.deleted => Before({m.id}, Inserts(Tail(q)))
           /\ \A K, L : Ahead(q, K) => /\ Need(m) \in K
                                       /\ K \subseteq L /\ (~m.deleted => m.id \in L)
                                          => Ahead(Tail(q), L)
           /\ \A par : SendsParents(q, par) => /\ SendsParents(Tail(q), par)
                                               /\ ~m.deleted => m.prev = par[m.id]
<1> DEFINE n == Len(q)
           s == Tail(q)
<1>1. /\ m \in Element /\ m = q[1] /\ 1 \in 1..n /\ s \in Seq(Element) /\ Len(s) = n - 1 /\ n \in Nat
      /\ \A i \in 1..(n - 1) : s[i] = q[i + 1]
  BY QueueFacts
<1>2. \A i \in 1..n : i = 1 \/ (i - 1 \in 1..(n - 1) /\ q[i] = s[i - 1])
  BY <1>1
<1>3. \A i \in 1..(n - 1) : i + 1 \in 1..n
  BY <1>1
<1>4. m \in Range(q)
  BY <1>1 DEF Range
<1> HIDE DEF n, s
<1>6. Inserts(q) = Inserts(s) \cup (IF m.deleted THEN {} ELSE {m.id})
  <2>1. ASSUME NEW x PROVE x \in Inserts(q) <=> x \in Inserts(s) \/ (~m.deleted /\ x = m.id)
    <3>1. x \in Inserts(s) <=> \E j \in 1..(n - 1) : s[j].id = x /\ ~s[j].deleted
      BY <1>1, QueueSets
    <3>2. x \in Inserts(q) <=> \E j \in 1..n : q[j].id = x /\ ~q[j].deleted
      BY QueueSets DEF n
    <3>3. ASSUME NEW j \in 1..n, q[j].id = x, ~q[j].deleted
          PROVE  (\E k \in 1..(n - 1) : s[k].id = x /\ ~s[k].deleted) \/ (~m.deleted /\ x = m.id)
      <4>1. CASE j = 1
        BY <1>1, <3>3, <4>1
      <4>2. CASE j - 1 \in 1..(n - 1) /\ q[j] = s[j - 1]
        BY <3>3, <4>2
      <4> QED
        BY <1>2, <4>1, <4>2
    <3>4. (\E j \in 1..(n - 1) : s[j].id = x /\ ~s[j].deleted) => (\E j \in 1..n : q[j].id = x /\ ~q[j].deleted)
      BY <1>1, <1>3
    <3> QED
      BY <1>1, <3>1, <3>2, <3>3, <3>4
  <2> QED
    BY <2>1
<1>7. Deletes(q) = Deletes(s) \cup (IF m.deleted THEN {m.id} ELSE {})
  <2>1. ASSUME NEW x PROVE x \in Deletes(q) <=> x \in Deletes(s) \/ (m.deleted /\ x = m.id)
    <3>1. x \in Deletes(s) <=> \E j \in 1..(n - 1) : s[j].id = x /\ s[j].deleted
      BY <1>1, QueueSets
    <3>2. x \in Deletes(q) <=> \E j \in 1..n : q[j].id = x /\ q[j].deleted
      BY QueueSets DEF n
    <3>3. ASSUME NEW j \in 1..n, q[j].id = x, q[j].deleted
          PROVE  (\E k \in 1..(n - 1) : s[k].id = x /\ s[k].deleted) \/ (m.deleted /\ x = m.id)
      <4>1. CASE j = 1
        BY <1>1, <3>3, <4>1
      <4>2. CASE j - 1 \in 1..(n - 1) /\ q[j] = s[j - 1]
        BY <3>3, <4>2
      <4> QED
        BY <1>2, <4>1, <4>2
    <3>4. (\E j \in 1..(n - 1) : s[j].id = x /\ s[j].deleted) => (\E j \in 1..n : q[j].id = x /\ q[j].deleted)
      BY <1>1, <1>3
    <3> QED
      BY <1>1, <3>1, <3>2, <3>3, <3>4
  <2> QED
    BY <2>1
<1>8. ASSUME Increasing(q)
      PROVE  Increasing(s) /\ (~m.deleted => Before({m.id}, Inserts(s)))
  <2>1. \A i, j \in 1..n : i < j /\ ~q[i].deleted /\ ~q[j].deleted => q[i].id[1] < q[j].id[1]
    BY <1>8 DEF Increasing, n
  <2>2. ASSUME NEW i \in 1..(n - 1), NEW j \in 1..(n - 1), i < j, ~s[i].deleted, ~s[j].deleted
        PROVE  s[i].id[1] < s[j].id[1]
    <3>1. i + 1 < j + 1 /\ s[i] = q[i + 1] /\ s[j] = q[j + 1] /\ i + 1 \in 1..n /\ j + 1 \in 1..n
      BY <1>1, <2>2
    <3> QED
      BY <2>1, <2>2, <3>1
  <2>3. ASSUME ~m.deleted, NEW y \in Inserts(s) PROVE m.id[1] < y[1]
    <3>1. PICK j \in 1..(n - 1) : s[j].id = y /\ ~s[j].deleted
      BY <1>1, QueueSets
    <3>2. 1 < j + 1 /\ s[j] = q[j + 1] /\ j + 1 \in 1..n
      BY <1>1
    <3> QED
      BY <1>1, <2>1, <2>3, <3>1, <3>2
  <2> QED
    BY <1>1, <2>2, <2>3 DEF Increasing, Before
<1>9. ASSUME NEW K, NEW L, Ahead(q, K)
      PROVE  /\ Need(m) \in K
             /\ K \subseteq L /\ (~m.deleted => m.id \in L) => Ahead(s, L)
  <2>1. \A i \in 1..n : Need(q[i]) \in K \/ IsSent(q, i - 1, Need(q[i]))
    BY <1>9 DEF Ahead, n
  <2>2. Need(m) \in K
    <3>1. ~IsSent(q, 1 - 1, Need(m))
      BY DEF IsSent
    <3> QED
      BY <1>1, <2>1, <3>1
  <2>3. ASSUME K \subseteq L, ~m.deleted => m.id \in L, NEW i \in 1..(n - 1)
        PROVE  Need(s[i]) \in L \/ IsSent(s, i - 1, Need(s[i]))
    <3> DEFINE x == Need(s[i])
    <3>1. s[i] = q[i + 1] /\ i + 1 \in 1..n /\ (i + 1) - 1 = i /\ i \in 1..n /\ i \in Nat
      BY <1>1
    <3>2. x \in K \/ IsSent(q, i, x)
      BY <2>1, <3>1
    <3> HIDE DEF x
    <3>3. CASE IsSent(q, i, x)
      <4>1. PICK j \in 1..i : q[j].id = x /\ ~q[j].deleted
        BY <3>3 DEF IsSent
      <4>2. CASE j = 1
        BY <1>1, <2>3, <4>1, <4>2 DEF x
      <4>3. CASE j # 1
        <5>1. j - 1 \in 1..(i - 1) /\ j - 1 \in 1..(n - 1) /\ (j - 1) + 1 = j
          BY <1>1, <3>1, <4>3
        <5>2. s[j - 1] = q[j]
          BY <1>1, <5>1
        <5> QED
          BY <4>1, <5>1, <5>2 DEF x, IsSent
      <4> QED
        BY <4>2, <4>3
    <3> QED
      BY <2>3, <3>2, <3>3 DEF x
  <2> QED
    BY <1>1, <2>2, <2>3 DEF Ahead
<1>10. ASSUME NEW par, SendsParents(q, par)
       PROVE  SendsParents(s, par) /\ (~m.deleted => m.prev = par[m.id])
  <2>1. \A i \in 1..n : ~q[i].deleted => q[i].prev = par[q[i].id]
    BY <1>10 DEF SendsParents, n
  <2> QED
    BY <1>1, <1>3, <2>1 DEF SendsParents
<1> QED
  BY <1>1, <1>4, <1>6, <1>7, <1>8, <1>9, <1>10 DEF s

-----------------------------------------------------------------------------
(***************************************************************************)
(* Lists that are determined by their elements.                            *)
(***************************************************************************)
\* The order of ids is a total one.
LEMMA IdOrder ==
    ASSUME NEW a \in Ids, NEW b \in Ids, NEW c \in Ids
    PROVE  /\ ~(IsLess(a, b) /\ IsLess(b, a))
           /\ IsLess(a, b) /\ IsLess(b, c) => IsLess(a, c)
           /\ a = b \/ IsLess(a, b) \/ IsLess(b, a)
<1>1. \A x \in Ids : x[1] \in Nat /\ x[2] \in Nat /\ x = <<x[1], x[2]>>
  BY CollabAssumption DEF Ids, Users, Range
<1> QED
  BY <1>1 DEF IsLess

\* An element that goes behind s[q] stands behind its parent, with nothing but
\* greater elements in between, and behind it comes a smaller one.
LEMMA CanonicalInserted ==
    ASSUME NEW s \in Seq(Ids), NEW par, Canonical(s, par), NEW id \in Ids,
           NEW q \in 0..Len(s), NEW p \in 0..q, At(s, p) = par[id],
           \A j \in (p + 1)..q : IsLess(id, s[j]), q < Len(s) => IsLess(s[q + 1], id)
    PROVE  Canonical(InsertAt(s, q + 1, id), par)
<1> DEFINE t == InsertAt(s, q + 1, id)
           n == Len(s)
<1>1. n \in Nat /\ q \in Nat /\ p \in Nat /\ p <= q /\ q <= n /\ q + 1 \in 1..(n + 1)
  OBVIOUS
<1>2. /\ Len(t) = n + 1
      /\ \A j \in 1..(n + 1) : t[j] = IF j < q + 1 THEN s[j] ELSE IF j = q + 1 THEN id ELSE s[j - 1]
  BY <1>1, InsertAtElements DEF IsInsertion
<1>3. \A j \in Int : At(t, j) = IF j < q + 1 THEN At(s, j) ELSE IF j = q + 1 THEN id ELSE At(s, j - 1)
  BY <1>1, AtInserted
<1>4. \A i \in 1..n : \E a \in 0..(i - 1) : At(s, a) = par[s[i]] /\ \A j \in (a + 1)..(i - 1) : IsLess(s[i], s[j])
  BY DEF Canonical
<1>5. \A j \in 1..n : s[j] \in Ids
  OBVIOUS
<1> HIDE DEF t, n
<1>6. ASSUME NEW i \in 1..(n + 1)
      PROVE  \E a \in 0..(i - 1) : At(t, a) = par[t[i]] /\ \A j \in (a + 1)..(i - 1) : IsLess(t[i], t[j])
  <2>1. CASE i < q + 1
    <3>1. i \in 1..n /\ t[i] = s[i]
      BY <1>1, <1>2, <2>1
    <3>2. PICK a \in 0..(i - 1) : At(s, a) = par[s[i]] /\ \A j \in (a + 1)..(i - 1) : IsLess(s[i], s[j])
      BY <1>4, <3>1
    <3>3. At(t, a) = At(s, a)
      BY <1>1, <1>3, <2>1
    <3>4. \A j \in (a + 1)..(i - 1) : t[j] = s[j]
      BY <1>1, <1>2, <2>1
    <3> QED
      BY <3>1, <3>2, <3>3, <3>4
  <2>2. CASE i = q + 1
    <3>1. t[i] = id /\ At(t, p) = At(s, p) /\ p \in 0..(i - 1) /\ i - 1 = q
      BY <1>1, <1>2, <1>3, <2>2
    <3>2. \A j \in (p + 1)..q : t[j] = s[j]
      BY <1>1, <1>2
    <3> QED
      BY <3>1, <3>2
  <2>3. CASE i > q + 1
    <3>1. i - 1 \in 1..n /\ t[i] = s[i - 1] /\ i \in Nat
      BY <1>1, <1>2, <2>3
    <3> DEFINE x == s[i - 1]
    <3>2. PICK a \in 0..(i - 2) : At(s, a) = par[x] /\ \A j \in (a + 1)..(i - 2) : IsLess(x, s[j])
      <4>1. (i - 1) - 1 = i - 2
        BY <3>1
      <4> QED
        BY <1>4, <3>1, <4>1
    <3>3. x \in Ids
      BY <1>5, <3>1
    <3> HIDE DEF x
    <3>4. CASE a > q
      <4>1. a + 1 \in 0..(i - 1) /\ At(t, a + 1) = At(s, a)
        BY <1>1, <1>3, <3>1, <3>4
      <4>2. ASSUME NEW j \in (a + 2)..(i - 1) PROVE IsLess(x, t[j])
        <5>1. t[j] = s[j - 1] /\ j - 1 \in (a + 1)..(i - 2)
          BY <1>1, <1>2, <3>1, <3>4
        <5> QED
          BY <3>2, <5>1
      <4>3. (a + 1) + 1 = a + 2
        OBVIOUS
      <4> QED
        BY <3>1, <3>2, <4>1, <4>2, <4>3 DEF x
    <3>5. CASE a <= q
      <4>1. a \in 0..(i - 1) /\ At(t, a) = At(s, a)
        BY <1>1, <1>3, <3>1, <3>5
      <4>2. q + 1 \in 1..n /\ IsLess(s[q + 1], id)
        BY <1>1, <2>3, <3>1 DEF n
      <4>3. x = s[q + 1] \/ IsLess(x, s[q + 1])
        <5>1. q + 1 = i - 1 \/ q + 1 \in (a + 1)..(i - 2)
          BY <1>1, <2>3, <3>1, <3>5
        <5> QED
          BY <3>2, <5>1 DEF x
      <4>4. IsLess(x, id)
        BY <1>5, <3>3, <4>2, <4>3, IdOrder
      <4>5. ASSUME NEW j \in (a + 1)..(i - 1) PROVE IsLess(x, t[j])
        <5>1. CASE j < q + 1
          <6>1. t[j] = s[j] /\ j \in (a + 1)..(i - 2)
            BY <1>1, <1>2, <2>3, <3>1, <5>1
          <6> QED
            BY <3>2, <6>1
        <5>2. CASE j = q + 1
          BY <1>1, <1>2, <4>4, <5>2
        <5>3. CASE j > q + 1
          <6>1. t[j] = s[j - 1] /\ j - 1 \in (a + 1)..(i - 2)
            BY <1>1, <1>2, <2>3, <3>1, <3>5, <5>3
          <6> QED
            BY <3>2, <6>1
        <5> QED
          BY <5>1, <5>2, <5>3
      <4> QED
        BY <3>1, <3>2, <4>1, <4>5 DEF x
    <3> QED
      BY <1>1, <3>4, <3>5
  <2> QED
    BY <1>1, <2>1, <2>2, <2>3
<1> QED
  BY <1>2, <1>6 DEF Canonical, t

\* Where two such lists of the same elements first differ, each would have the
\* smaller element.
LEMMA CanonicalStep ==
    ASSUME NEW s \in Seq(Ids), IsInjective(s), NEW t \in Seq(Ids), NEW par,
           Canonical(s, par), Canonical(t, par),
           NEW m \in 1..Len(s), m \in 1..Len(t), \A j \in 1..(m - 1) : s[j] = t[j],
           NEW k \in 1..Len(s), m < k, s[k] = t[m]
    PROVE  IsLess(t[m], s[m])
<1>1. PICK p \in 0..(k - 1) : At(s, p) = par[s[k]] /\ \A j \in (p + 1)..(k - 1) : IsLess(s[k], s[j])
  BY DEF Canonical
<1>2. PICK r \in 0..(m - 1) : At(t, r) = par[t[m]]
  BY DEF Canonical
<1>3. At(s, p) = At(s, r)
  BY <1>1, <1>2 DEF At
<1>4. p = r
  <2>1. \A i \in 1..Len(s) : s[i] # NIL
    BY CollabAssumption
  <2>2. \A i, j \in 1..Len(s) : s[i] = s[j] => i = j
    BY SeqFacts
  <2> QED
    BY <1>3, <2>1, <2>2 DEF At
<1>5. m \in (p + 1)..(k - 1)
  BY <1>4
<1> QED
  BY <1>1, <1>5

\* There is only one such list of a set of elements.
LEMMA CanonicalUnique ==
    ASSUME NEW s \in Seq(Ids), IsInjective(s), NEW t \in Seq(Ids), IsInjective(t), Range(s) = Range(t),
           NEW par, Canonical(s, par), Canonical(t, par)
    PROVE  s = t
<1>1. Len(s) = Len(t) /\ Len(s) \in Nat
  BY RangeCounted
<1> DEFINE Differ == {i \in Nat : i \in 1..Len(s) /\ s[i] # t[i]}
<1>2. CASE Differ = {}
  BY <1>1, <1>2
<1>3. CASE Differ # {}
  <2>1. PICK m \in Differ : \A i \in Differ : m <= i
    BY <1>3, LeastNatural
  <2>2. m \in 1..Len(s) /\ m \in 1..Len(t) /\ s[m] # t[m] /\ s[m] \in Ids /\ t[m] \in Ids
    BY <1>1, <2>1
  <2>3. \A j \in 1..(m - 1) : s[j] = t[j]
    BY <1>1, <2>1
  <2>4. /\ \A i, j \in 1..Len(s) : (s[i] = s[j] => i = j) /\ (t[i] = t[j] => i = j)
        /\ \A i \in 1..Len(s) : \E j, l \in 1..Len(s) : s[j] = t[i] /\ t[l] = s[i]
    <3>1. /\ \A i \in 1..Len(s) : s[i] \in Range(s)
          /\ \A i, j \in 1..Len(s) : s[i] = s[j] => i = j
          /\ \A x \in Range(s) : \E i \in 1..Len(s) : s[i] = x
      BY SeqFacts
    <3>2. /\ \A i \in 1..Len(t) : t[i] \in Range(t)
          /\ \A i, j \in 1..Len(t) : t[i] = t[j] => i = j
          /\ \A x \in Range(t) : \E i \in 1..Len(t) : t[i] = x
      BY SeqFacts
    <3>3. \A i, j \in 1..Len(s) : (s[i] = s[j] => i = j) /\ (t[i] = t[j] => i = j)
      BY <1>1, <3>1, <3>2
    <3>4. \A i \in 1..Len(s) : s[i] \in Range(t) /\ t[i] \in Range(s)
      BY <1>1, <3>1, <3>2
    <3>5. \A i \in 1..Len(s) : (\E j \in 1..Len(s) : s[j] = t[i]) /\ (\E l \in 1..Len(s) : t[l] = s[i])
      BY <1>1, <3>1, <3>2, <3>4
    <3> QED
      BY <3>3, <3>5
  <2>5. PICK k \in 1..Len(s) : s[k] = t[m]
    BY <2>2, <2>4
  <2>6. PICK l \in 1..Len(t) : t[l] = s[m]
    BY <1>1, <2>2, <2>4
  <2>7. m < k /\ m < l
    <3>1. k # m /\ l # m
      BY <2>2, <2>5, <2>6
    <3>2. ~(k < m)
      BY <1>1, <2>2, <2>3, <2>4, <2>5
    <3>3. ~(l < m)
      BY <1>1, <2>2, <2>3, <2>4, <2>6
    <3> QED
      BY <2>2, <3>1, <3>2, <3>3
  <2>8. IsLess(t[m], s[m])
    BY <2>2, <2>3, <2>5, <2>7, CanonicalStep
  <2>9. IsLess(s[m], t[m])
    BY <2>2, <2>3, <2>6, <2>7, CanonicalStep
  <2> QED
    BY <2>2, <2>8, <2>9, IdOrder
<1> QED
  BY <1>2, <1>3

\* The parents of other elements do not matter.
LEMMA CanonicalKept ==
    ASSUME NEW s \in Seq(Ids), NEW par, Canonical(s, par), NEW new, \A x \in Range(s) : new[x] = par[x]
    PROVE  Canonical(s, new)
<1>1. \A i \in 1..Len(s) : new[s[i]] = par[s[i]]
  BY DEF Range
<1> QED
  BY <1>1 DEF Canonical

\* The walk of handleRemoteInput from s[p] ends at the last element up to which
\* all are greater than id.
LEMMA RemotePlace ==
    ASSUME NEW d, NEW s, ListOf(d, s), NEW id \in Ids, id \notin Known(d), NEW p \in 1..Len(s)
    PROVE  \E q \in p..Len(s) : /\ ListPlace(d, id, s[p]) = s[q]
                                /\ \A j \in (p + 1)..q : IsLess(id, s[j])
                                /\ q < Len(s) => IsLess(s[q + 1], id)
<1> DEFINE n == Len(s)
           step == [k \in Known(d) |-> IF d.next[k] = NIL \/ IsLess(d.next[k], id) THEN k ELSE d.next[k]]
           at == Path(s[p], step, n)
           Ends(r) == r = n \/ IsLess(s[r + 1], id)
           There(k, r) == /\ at[k] = s[r]
                          /\ \A j \in (p + 1)..r : IsLess(id, s[j])
                          /\ Ends(r) \/ r = p + k
           Bad == {k \in Nat : k <= n /\ ~\E r \in p..n : There(k, r)}
<1>1. /\ n \in Nat /\ p \in 1..n /\ Cardinality(Known(d)) = n
      /\ \A i \in 1..n : s[i] \in Known(d) /\ s[i] \in Ids /\ s[i] # NIL /\ d.next[s[i]] = At(s, i + 1)
  BY ListFacts DEF ListOf
<1>2. ListPlace(d, id, s[p]) = at[n]
  BY <1>1 DEF ListPlace, WalkEnd
<1>3. \A i \in 1..n : step[s[i]] = IF Ends(i) THEN s[i] ELSE s[i + 1]
  <2>1. \A i \in 1..n : At(s, i + 1) = IF i = n THEN NIL ELSE s[i + 1]
    BY <1>1 DEF At
  <2>2. \A i \in 1..n : i # n => s[i + 1] # NIL
    BY <1>1
  <2> QED
    BY <1>1, <2>1, <2>2
<1>4. \A i \in 1..n : s[i] # id
  BY <1>1
<1> HIDE DEF step, n
<1>5. at[0] = s[p] /\ \A k \in 1..n : at[k] = step[at[k - 1]]
  BY <1>1, PathSteps
<1> HIDE DEF at
<1>6. Bad = {}
  <2> SUFFICES ASSUME Bad # {} PROVE FALSE
    OBVIOUS
  <2>1. PICK k \in Bad : \A m \in Bad : k <= m
    BY LeastNatural
  <2>2. k \in Nat /\ k <= n /\ ~\E r \in p..n : There(k, r)
    BY <2>1
  <2>3. CASE k = 0
    <3>1. There(0, p) /\ p \in p..n
      BY <1>1, <1>5
    <3> QED
      BY <3>1, <2>2, <2>3
  <2>4. CASE k # 0
    <3>0. k - 1 \in Nat /\ k - 1 <= n /\ ~(k <= k - 1) /\ k \in 1..n
      BY <1>1, <2>2, <2>4
    <3>1. k - 1 \in Nat /\ k - 1 <= n /\ k - 1 \notin Bad /\ k \in 1..n
      <4> HIDE DEF Bad
      <4> QED
        BY <2>1, <3>0
    <3>2. PICK r \in p..n : There(k - 1, r)
      BY <3>1
    <3>3. at[k] = step[s[r]] /\ r \in 1..n
      <4>1. at[k - 1] = s[r]
        BY <3>2
      <4>2. at[k] = step[at[k - 1]]
        BY <1>5, <3>1
      <4>3. r \in 1..n
        BY <1>1
      <4> QED
        BY <4>1, <4>2, <4>3
    <3>4. CASE Ends(r)
      <4>1. at[k] = s[r]
        BY <1>3, <3>3, <3>4
      <4>2. There(k, r)
        BY <3>2, <3>4, <4>1
      <4> QED
        BY <2>2, <4>2
    <3>5. CASE ~Ends(r)
      <4>1. at[k] = s[r + 1] /\ r + 1 \in p..n /\ r + 1 \in 1..n /\ r = p + (k - 1)
        BY <1>1, <1>3, <3>2, <3>3, <3>5
      <4>2. IsLess(id, s[r + 1])
        BY <1>1, <1>4, <3>5, <4>1, IdOrder
      <4>3. \A j \in (p + 1)..(r + 1) : IsLess(id, s[j])
        <5>1. \A j \in (p + 1)..(r + 1) : j \in (p + 1)..r \/ j = r + 1
          BY <3>3
        <5> QED
          BY <3>2, <4>2, <5>1
      <4>4. r + 1 = p + k
        BY <1>1, <2>2, <4>1
      <4>5. There(k, r + 1)
        BY <4>1, <4>3, <4>4
      <4> QED
        BY <2>2, <4>1, <4>5
    <3> QED
      BY <3>4, <3>5
  <2> QED
    BY <2>3, <2>4
<1>7. PICK r \in p..n : There(n, r)
  <2>1. n \notin Bad
    BY <1>6
  <2> QED
    BY <1>1, <2>1
<1>8. r < n => IsLess(s[r + 1], id)
  BY <1>1, <1>7
<1> QED
  BY <1>2, <1>7, <1>8 DEF n

-----------------------------------------------------------------------------
(***************************************************************************)
(* The steps of two users.                                                 *)
(***************************************************************************)
LEMMA TwoUsers ==
    ASSUME Len(Joined) = 2, NEW v \in Users
    PROVE  /\ Peer(v) \in Users /\ Peer(v) # v /\ Peer(Peer(v)) = v
           /\ Users = {v, Peer(v)}
           /\ OthersThan(v) = <<Peer(v)>>
<1> DEFINE a == Joined[1]
           b == Joined[2]
<1>1. Joined \in Seq(Nat \ {0}) /\ IsInjective(Joined) /\ 1 \in DOMAIN Joined /\ 2 \in DOMAIN Joined
      /\ DOMAIN Joined = 1..2
  BY CollabAssumption
<1>2. a # b
  BY <1>1 DEF IsInjective
<1>3. Users = {a, b}
  BY <1>1 DEF Users, Range
<1>4. \A w \in {a, b} : Peer(w) = IF w = a THEN b ELSE a
  <2>1. ASSUME NEW w \in {a, b} PROVE Peer(w) \in Users /\ Peer(w) # w
    <3>1. \E x \in Users : x # w
      BY <1>2, <1>3
    <3> QED
      BY <3>1 DEF Peer
  <2> QED
    BY <1>2, <1>3, <2>1
<1>5. /\ Peer(v) \in Users /\ Peer(v) # v /\ Peer(Peer(v)) = v /\ Users = {v, Peer(v)}
  BY <1>2, <1>3, <1>4
<1>6. OthersThan(v) = <<Peer(v)>>
  <2> DEFINE i == IndexIn(Joined, v)
             r == RemoveAt(Joined, i)
  <2>1. v \in Range(Joined)
    BY DEF Users
  <2>2. i \in 1..2 /\ Joined[i] = v
    BY <1>1, <2>1, IndexInFacts
  <2> HIDE DEF i
  <2>3. r \in Seq(Nat \ {0}) /\ Len(r) = 1 /\ \A j \in 1..1 : r[j] = IF j < i THEN Joined[j] ELSE Joined[j + 1]
    <3>1. Len(Joined) = 2 /\ i \in 1..Len(Joined) /\ Joined \in Seq(Nat \ {0})
      BY <1>1, <2>2
    <3>2. /\ RemoveAt(Joined, i) \in Seq(Nat \ {0}) /\ Len(RemoveAt(Joined, i)) = Len(Joined) - 1
          /\ \A j \in 1..(Len(Joined) - 1) : RemoveAt(Joined, i)[j] = IF j < i THEN Joined[j] ELSE Joined[j + 1]
      BY <3>1, RemoveAtElements, Zenon
    <3> QED
      BY <3>1, <3>2
  <2>4. r[1] = Peer(v)
    <3>1. r[1] = IF 1 < i THEN Joined[1] ELSE Joined[2]
      BY <2>3
    <3> QED
      BY <1>2, <1>3, <1>4, <2>2, <3>1
  <2>5. r = <<Peer(v)>>
    BY <2>3, <2>4
  <2> QED
    BY <2>5 DEF OthersThan, i
<1> QED
  BY <1>5, <1>6

\* User u has edited its document to d and sends m.
Edited(u, m, d) ==
    /\ m \in Element /\ m.client = u
    /\ DocTypes(d) /\ Known(d) = Known(doc[u]) \cup {m.id}
    /\ doc'[u] = d /\ \A w \in Users \ {u} : doc'[w] = doc[w]
    /\ up'[u] = Append(up[u], m) /\ \A w \in Users \ {u} : up'[w] = up[w]
    /\ down' = down /\ order' = order /\ dead' = dead /\ task' = task

Message(u, id, prev, deleted) == [id |-> id, prev |-> prev, client |-> u, deleted |-> deleted]

LEMMA EditedFacts ==
    ASSUME Shape, NEW u \in Users, NEW d, DocTypes(d), doc'[u] = d, \A w \in Users \ {u} : doc'[w] = doc[w],
           NEW id \in Ids, NEW prev \in Ids \cup {NIL}, NEW deleted \in BOOLEAN,
           Send(u, id, prev, deleted), UNCHANGED <<down, workerVars>>,
           Known(d) = Known(doc[u]) \cup {id}
    PROVE  Edited(u, Message(u, id, prev, deleted), d)
<1> DEFINE m == Message(u, id, prev, deleted)
<1>1. m \in Element /\ m.client = u /\ m.id = id /\ m.prev = prev /\ m.deleted = deleted
  BY DEF Element, Message
<1>2. up' = [up EXCEPT ![u] = Append(up[u], m)] /\ up \in [Users -> Seq(Element)]
  BY DEF Send, Shape, Message
<1> HIDE DEF m
<1>3. up'[u] = Append(up[u], m) /\ \A w \in Users \ {u} : up'[w] = up[w]
  BY <1>2
<1>5. down' = down /\ order' = order /\ dead' = dead /\ task' = task
  BY DEF workerVars
<1>6. Edited(u, m, d)
  BY <1>1, <1>3, <1>5 DEF Edited
<1> QED
  BY <1>6 DEF m

\* Typing, with a number that is new among the user's own.
LEMMA TypeFacts ==
    ASSUME CInv, NEW u \in Users, NEW ch \in 0..Len(doc[u].text), Type(u, ch)
    PROVE  \E m : /\ Edited(u, m, LocalInput(doc[u], u, ch)) /\ ~m.deleted
                  /\ m.id = NewID(doc[u], u) /\ m.prev = Preceding(doc[u], ch)
                  /\ m.id \notin Known(doc[u]) /\ m.id[1] = doc[u].length /\ m.id[2] = u
                  /\ LocalInput(doc[u], u, ch).length = doc[u].length + 1
                  /\ LocalInput(doc[u], u, ch).dead = doc[u].dead
<1> DEFINE id == NewID(doc[u], u)
           prev == Preceding(doc[u], ch)
           d == LocalInput(doc[u], u, ch)
<1>1. /\ id \in Ids /\ doc' = [doc EXCEPT ![u] = d] /\ Send(u, id, prev, FALSE)
      /\ UNCHANGED <<down, workerVars>>
  BY DEF Type
<1>2. Shape /\ DocTypes(doc[u]) /\ doc[u].length \in Nat
  BY DEF CInv, Shape, DocTypes
<1>3. id[1] = doc[u].length /\ id[2] = u
  BY DEF NewID
<1>4. id \notin Known(doc[u])
  <2>1. id \in Known(doc[u]) => id[1] < doc[u].length
    BY <1>3 DEF CInv, Numbered
  <2> QED
    BY <2>1, <1>2, <1>3
<1>5. Grown(doc[u], d, id) /\ d.length = doc[u].length + 1 /\ prev \in Known(doc[u]) \cup {NIL}
  BY <1>1, <1>2, <1>4, LocalInputTypes
<1>6. prev \in Ids \cup {NIL}
  BY <1>2, <1>5 DEF DocTypes
<1> HIDE DEF id, prev, d
<1>7. DocTypes(d) /\ Known(d) = Known(doc[u]) \cup {id} /\ d.dead = doc[u].dead
  BY <1>5 DEF Grown
<1>8. doc'[u] = d /\ \A w \in Users \ {u} : doc'[w] = doc[w]
  BY <1>1, <1>2, <1>7, DocUpdated
<1>9. FALSE \in BOOLEAN
  OBVIOUS
<1> DEFINE m == Message(u, id, prev, FALSE)
<1>10. Edited(u, m, d)
  <2>1. id \in Ids /\ Send(u, id, prev, FALSE) /\ UNCHANGED <<down, workerVars>>
    BY <1>1
  <2> QED
    BY <1>2, <1>6, <1>7, <1>8, <1>9, <2>1, EditedFacts
<1>11. m.id = id /\ m.prev = prev /\ ~m.deleted
  BY DEF Message
<1> QED
  BY <1>3, <1>4, <1>5, <1>7, <1>10, <1>11 DEF id, prev, d

\* Deleting a known element.
LEMMA EraseFacts ==
    ASSUME CInv, NEW u \in Users, NEW ch \in 1..Len(doc[u].text), Erase(u, ch)
    PROVE  \E m : /\ Edited(u, m, Hide(doc[u], m.id)) /\ m.deleted /\ m.id \in Known(doc[u])
                  /\ Hide(doc[u], m.id).length = doc[u].length
                  /\ Hide(doc[u], m.id).dead = doc[u].dead \cup {m.id}
<1> DEFINE id == doc[u].text[ch]
           prev == doc[u].prev[id]
           d == Hide(doc[u], id)
<1>1. /\ doc' = [doc EXCEPT ![u] = d] /\ Send(u, id, prev, TRUE) /\ UNCHANGED <<down, workerVars>>
  BY DEF Erase
<1>2. Shape /\ DocTypes(doc[u])
  BY DEF CInv, Shape
<1>3. id \in Known(doc[u])
  BY <1>2, TextFacts
<1>4. id \in Ids /\ prev \in Ids \cup {NIL}
  BY <1>2, <1>3 DEF DocTypes
<1>5. DocTypes(d)
  BY <1>2, <1>3, HideTypes
<1>6. Known(d) = Known(doc[u]) /\ d.length = doc[u].length /\ d.dead = doc[u].dead \cup {id}
  <2>1. IsDoc(doc[u])
    BY <1>2 DEF DocTypes
  <2> QED
    BY <2>1, HideFields
<1> HIDE DEF id, prev, d
<1>7. Known(d) = Known(doc[u]) \cup {id}
  BY <1>3, <1>6
<1>8. doc'[u] = d /\ \A w \in Users \ {u} : doc'[w] = doc[w]
  BY <1>1, <1>2, <1>5, DocUpdated
<1>9. TRUE \in BOOLEAN
  OBVIOUS
<1> DEFINE m == Message(u, id, prev, TRUE)
<1>10. Edited(u, m, d)
  <2>1. Send(u, id, prev, TRUE) /\ UNCHANGED <<down, workerVars>>
    BY <1>1
  <2> QED
    BY <1>2, <1>4, <1>5, <1>7, <1>8, <1>9, <2>1, EditedFacts
<1>11. m.id = id /\ m.prev = prev /\ m.deleted
  BY DEF Message
<1> QED
  BY <1>3, <1>6, <1>10, <1>11 DEF d

\* The browser of u has handled m, the first message from the worker.
Received(u, m) ==
    /\ m \in Element /\ down[u] # <<>> /\ m = Head(down[u]) /\ m.id \in Range(order)
    /\ DocTypes(Handled(doc[u], m))
    /\ Known(Handled(doc[u], m)) = Known(doc[u]) \cup (IF m.deleted THEN {} ELSE {m.id})
    /\ doc'[u] = Handled(doc[u], m) /\ \A w \in Users \ {u} : doc'[w] = doc[w]
    /\ down'[u] = Tail(down[u]) /\ \A w \in Users \ {u} : down'[w] = down[w]
    /\ up' = up /\ order' = order /\ dead' = dead /\ task' = task

LEMMA ArriveFacts ==
    ASSUME CInv, NEW u \in Users, Arrive(u)
    PROVE  \E m : Received(u, m)
<1> DEFINE m == Head(down[u])
           d == Handled(doc[u], m)
<1>1. /\ down[u] # <<>> /\ doc' = [doc EXCEPT ![u] = d] /\ down' = [down EXCEPT ![u] = Tail(down[u])]
      /\ up' = up /\ order' = order /\ dead' = dead /\ task' = task
  BY DEF Arrive, Handled, workerVars
<1>2. Shape /\ down \in [Users -> Seq(Element)] /\ down[u] \in Seq(Element) /\ DocTypes(doc[u])
  BY DEF CInv, Shape
<1>3. m \in Element /\ m = down[u][1] /\ 1 \in 1..Len(down[u])
  BY <1>1, <1>2, QueueFacts
<1>4. m.id \in Range(order)
  BY <1>3 DEF CInv, Delivered
<1>5. DocTypes(d)
  <2> HIDE DEF m
  <2> QED
    BY <1>2, <1>3, HandledTypes
<1>6. Known(d) = Known(doc[u]) \cup (IF m.deleted THEN {} ELSE {m.id})
  <2> HIDE DEF m
  <2>1. CASE m.deleted
    <3>1. d = RemoteDelete(doc[u], m.id)
      BY <2>1 DEF Handled
    <3> QED
      BY <1>2, <2>1, <3>1, RemoteDeleteTypes
  <2>2. CASE ~m.deleted
    <3>1. d = RemoteInput(doc[u], m.id, m.prev) /\ m.id \in Ids
      BY <1>3, <2>2 DEF Handled, Element
    <3> QED
      BY <1>2, <2>2, <3>1, RemoteInputTypes DEF Grown
  <2> QED
    BY <2>1, <2>2
<1> HIDE DEF d
<1>7. doc'[u] = d /\ \A w \in Users \ {u} : doc'[w] = doc[w]
  BY <1>1, <1>2, <1>5, DocUpdated
<1>8. down'[u] = Tail(down[u]) /\ \A w \in Users \ {u} : down'[w] = down[w]
  BY <1>1, <1>2
<1> QED
  BY <1>1, <1>3, <1>4, <1>5, <1>6, <1>7, <1>8 DEF Received, d

\* The worker has handled m, the first message of v: an insertion is always
\* news to it, a deletion not always.
Processed(v, m) ==
    /\ m \in Element /\ up[v] # <<>> /\ m = Head(up[v]) /\ task[v].to = <<>>
    /\ up'[v] = Tail(up[v]) /\ \A w \in Users \ {v} : up'[w] = up[w] /\ task'[w] = task[w]
    /\ doc' = doc /\ down' = down
    /\ \/ /\ ~m.deleted /\ m.id \notin Range(order) /\ m.prev \in Range(order) \cup {NIL}
          /\ AddToSession(m) /\ Range(order') = Range(order) \cup {m.id} /\ dead' = dead
          /\ task'[v].element = m /\ task'[v].to = <<Peer(v)>>
       \/ /\ m.deleted /\ m.id \in Range(order) \ dead
          /\ order' = order /\ dead' = dead \cup {m.id}
          /\ task'[v].element = m /\ task'[v].to = <<Peer(v)>>
       \/ /\ m.deleted /\ m.id \notin Range(order) \ dead
          /\ order' = order /\ dead' = dead /\ task' = task

LEMMA ProcessFacts ==
    ASSUME Len(Joined) = 2, CInv, Flow, NEW v \in Users, Process(v)
    PROVE  \E m : Processed(v, m)
<1> DEFINE m == Head(up[v])
           t == [element |-> m, to |-> OthersThan(m.client)]
<1>1. /\ task[v].to = <<>> /\ up[v] # <<>> /\ up' = [up EXCEPT ![v] = Tail(up[v])]
      /\ doc' = doc /\ down' = down
  BY DEF Process
<1>2. up \in [Users -> Seq(Element)] /\ up[v] \in Seq(Element) /\ task = [w \in Users |-> task[w]] /\ Shape
  BY DEF CInv, Shape
<1>3. m \in Element /\ m = up[v][1] /\ 1 \in 1..Len(up[v])
  BY <1>1, <1>2, QueueFacts
<1>4. \/ IsNews(m) /\ AddToSession(m) /\ task' = [task EXCEPT ![v] = t]
      \/ ~IsNews(m) /\ order' = order /\ dead' = dead /\ task' = task
  BY DEF Process
<1>5. t.element = m /\ t.to = <<Peer(v)>>
  <2>1. m.client = v
    BY <1>3 DEF Flow, Stream
  <2> HIDE DEF m
  <2> QED
    BY <2>1, TwoUsers
<1>6. ~m.deleted => m.id \notin Range(order) /\ m.prev \in Range(order) \cup {NIL}
  <2> SUFFICES ASSUME ~m.deleted PROVE m.id \notin Range(order) /\ m.prev \in Range(order) \cup {NIL}
    OBVIOUS
  <2>1. up[v][1].prev \in Range(order) \cup {NIL}
    <3>1. up[v][1].prev \in Range(order) \cup {NIL} \/ IsSent(up[v], 1 - 1, up[v][1].prev)
      BY <1>3 DEF CInv, OnTheWay
    <3>2. ~IsSent(up[v], 1 - 1, up[v][1].prev)
      BY DEF IsSent
    <3> QED
      BY <3>1, <3>2
  <2>2. m.id \in Inserts(up[v])
    BY <1>3, QueueSets
  <2> HIDE DEF m
  <2>3. m.id[2] = v /\ \A x \in Range(order) : x[2] = v => x[1] < m.id[1]
    BY <2>2 DEF Flow, Stream, Chain, Before, By
  <2>4. m.id[1] \in Int
    BY <1>3 DEF Element, Ids
  <2> QED
    BY <1>3, <2>1, <2>3, <2>4
<1> HIDE DEF m, t
<1>7. up'[v] = Tail(up[v]) /\ \A w \in Users \ {v} : up'[w] = up[w]
  BY <1>1, <1>2
<1>8. m.deleted \in BOOLEAN
  BY <1>3 DEF Element
<1>9. CASE IsNews(m) /\ AddToSession(m) /\ task' = [task EXCEPT ![v] = t]
  <2>1. task'[v] = t /\ \A w \in Users \ {v} : task'[w] = task[w]
    BY <1>2, <1>9
  <2>2. CASE ~m.deleted
    <3>1. Range(order) \subseteq Range(order') /\ Range(order') \subseteq Range(order) \cup {m.id}
          /\ m.id \in Range(order')
      BY <1>2, <1>3, <1>9, AddedTypes
    <3>2. dead' = dead
      BY <1>9, <2>2 DEF AddToSession, List!InsertHead, List!InsertAfter
    <3> QED
      BY <1>1, <1>3, <1>5, <1>6, <1>7, <1>9, <2>1, <2>2, <3>1, <3>2 DEF Processed, m
  <2>3. CASE m.deleted
    <3>1. List!Bury(m.id)
      BY <1>9, <2>3 DEF AddToSession
    <3>2. m.id \in Range(order) \ dead /\ dead' = dead \cup {m.id} /\ order' = order
      BY <3>1, ListOperators DEF List!Bury
    <3> QED
      BY <1>1, <1>3, <1>5, <1>7, <2>1, <2>3, <3>2 DEF Processed, m
  <2> QED
    BY <1>8, <2>2, <2>3
<1>10. CASE ~IsNews(m) /\ order' = order /\ dead' = dead /\ task' = task
  <2>1. m.deleted /\ m.id \notin Range(order) \ dead
    BY <1>6, <1>8, <1>10, ListOperators DEF IsNews
  <2> QED
    BY <1>1, <1>3, <1>7, <1>10, <2>1 DEF Processed, m
<1> QED
  BY <1>4, <1>9, <1>10

\* The worker has sent m, which it had handled for v, to the other.
Passed(v, m) ==
    /\ m \in Element /\ m.id \in Range(order) /\ task[v].to = <<Peer(v)>> /\ m = task[v].element
    /\ down'[Peer(v)] = Append(down[Peer(v)], m) /\ down'[v] = down[v]
    /\ task'[v].to = <<>> /\ task'[Peer(v)] = task[Peer(v)]
    /\ doc' = doc /\ up' = up /\ order' = order /\ dead' = dead

LEMMA BroadcastFacts ==
    ASSUME Len(Joined) = 2, CInv, Flow, NEW v \in Users, Broadcast(v)
    PROVE  \E m : Passed(v, m)
<1> DEFINE m == task[v].element
           w == Peer(v)
           t == task[v].to
<1>1. w \in Users /\ w # v
  BY TwoUsers
<1>2. t # <<>> /\ t \in {<<>>, <<w>>}
  BY DEF Broadcast, Flow, Stream
<1>3. t = <<w>> /\ Head(t) = w /\ Tail(t) = <<>>
  <2> HIDE DEF t, w
  <2>1. t = <<w>>
    BY <1>2
  <2>2. Head(<<w>>) = w /\ Tail(<<w>>) = <<>>
    OBVIOUS
  <2> QED
    BY <2>1, <2>2
<1>4. down' = [down EXCEPT ![Head(t)] = Append(down[Head(t)], m)]
  BY DEF Broadcast
<1>5. task' = [task EXCEPT ![v] = IF Tail(t) = <<>> THEN NoTask ELSE [task[v] EXCEPT !.to = Tail(t)]]
  BY DEF Broadcast
<1>6. doc' = doc /\ up' = up /\ order' = order /\ dead' = dead
  BY DEF Broadcast
<1>7. m \in Element /\ m.id \in Range(order)
  BY <1>2 DEF CInv, Delivered
<1>8. down \in [Users -> Seq(Element)] /\ task = [u \in Users |-> task[u]]
  BY DEF CInv, Shape
<1> HIDE DEF m, w
<1>9. task' = [task EXCEPT ![v] = NoTask]
  BY <1>3, <1>5
<1>10. task'[v].to = <<>> /\ task'[w] = task[w]
  BY <1>1, <1>8, <1>9 DEF NoTask
<1> HIDE DEF t
<1>11. down' = [down EXCEPT ![w] = Append(down[w], m)]
  BY <1>3, <1>4
<1>12. down'[w] = Append(down[w], m) /\ down'[v] = down[v]
  BY <1>1, <1>8, <1>11
<1> QED
  BY <1>3, <1>6, <1>7, <1>10, <1>12 DEF Passed, m, w, t

-----------------------------------------------------------------------------
(***************************************************************************)
(* What one sends comes to the other in the order of the numbers.          *)
(***************************************************************************)
LEMMA FlowTypes ==
    ASSUME CInv
    PROVE  /\ up \in [Users -> Seq(Element)] /\ down \in [Users -> Seq(Element)]
           /\ \A u \in Users : up[u] \in Seq(Element) /\ down[u] \in Seq(Element) /\ DocTypes(doc[u])
  BY DEF CInv, Shape

LEMMA InitFlow == Len(Joined) = 2 /\ Init => Flow
<1> SUFFICES ASSUME Len(Joined) = 2, Init, NEW v \in Users PROVE Stream(v)
  BY DEF Flow
<1>1. Peer(v) \in Users
  BY TwoUsers
<1>2. Known(Loaded(Opened)) = Range(Opened)
  BY OpenedFacts, LoadedFacts
<1>3. /\ doc[Peer(v)] = Loaded(Opened) /\ order = Opened /\ task[v].to = <<>>
      /\ up[v] = <<>> /\ down[v] = <<>> /\ down[Peer(v)] = <<>>
  BY <1>1 DEF Init, NoTask
<1>4. Inserts(<<>>) = {} /\ Increasing(<<>>) /\ Len(<<>>) = 0
  BY DEF Inserts, Increasing
<1>5. TaskInserts(v) = {}
  BY <1>3 DEF TaskInserts
<1>6. Chain(v, Range(Opened), Range(Opened), {}, {}, {})
  BY DEF Chain, Before, By
<1>7. Chain(v, Known(doc[Peer(v)]), Range(order), Inserts(down[Peer(v)]), TaskInserts(v), Inserts(up[v]))
  BY <1>2, <1>3, <1>4, <1>5, <1>6
<1>8. \A i \in 1..Len(up[v]) : up[v][i].client = v
  BY <1>3, <1>4
<1> QED
  BY <1>3, <1>4, <1>7, <1>8 DEF Stream

\* A user types or deletes.
LEMMA EditFlow ==
    ASSUME Len(Joined) = 2, CInv, Flow, NEW u \in Users, NEW m, NEW d, Edited(u, m, d),
           IF m.deleted THEN m.id \in Known(doc[u]) ELSE m.id[2] = u /\ m.id[1] = doc[u].length
    PROVE  Flow'
<1> DEFINE v == Peer(u)
<1>1. v \in Users /\ v # u /\ Peer(v) = u /\ Users = {u, v}
  BY TwoUsers
<1>2. /\ m \in Element /\ m.client = u /\ Known(d) = Known(doc[u]) \cup {m.id}
      /\ doc'[u] = d /\ doc'[v] = doc[v] /\ up'[u] = Append(up[u], m) /\ up'[v] = up[v]
      /\ down' = down /\ order' = order /\ task' = task
  BY <1>1 DEF Edited
<1>3. Stream(u) /\ Stream(v)
  BY <1>1 DEF Flow
<1>4. up[u] \in Seq(Element)
  BY FlowTypes
<1>5. Inserts(up'[u]) = Inserts(up[u]) \cup (IF m.deleted THEN {} ELSE {m.id})
  BY <1>2, <1>4, QueueAppended
<1>6. ASSUME ~m.deleted, NEW x \in Inserts(up[u]) \cup By(u, Range(order))
      PROVE  x[1] < m.id[1]
  <2>1. x[2] = u
    BY <1>3 DEF Stream, Chain, By
  <2>2. x \in Known(doc[u])
    <3>1. CASE x \in Inserts(up[u])
      BY <3>1, QueueSets DEF CInv, Numbered
    <3>2. CASE x \in By(u, Range(order))
      BY <2>1, <3>2 DEF CInv, Numbered, By
    <3> QED
      BY <3>1, <3>2
  <2> QED
    BY <1>6, <2>1, <2>2 DEF CInv, Numbered
<1>7. Increasing(up'[u])
  <2>1. Increasing(up[u])
    BY <1>3 DEF Stream
  <2>2. ~m.deleted => Before(Inserts(up[u]), {m.id})
    BY <1>6 DEF Before
  <2> QED
    BY <1>2, <1>4, <2>1, <2>2, QueueAppended
<1>8. \A i \in 1..Len(up'[u]) : up'[u][i].client = u
  <2>1. \A i \in 1..Len(up[u]) : up[u][i].client = u
    BY <1>3 DEF Stream
  <2> QED
    BY <1>2, <1>4, <2>1
<1>9. TaskInserts(u)' = TaskInserts(u) /\ TaskInserts(v)' = TaskInserts(v)
  BY <1>2 DEF TaskInserts
<1>10. Stream(u)'
  <2>1. Chain(u, Known(doc[v]), Range(order), Inserts(down[v]), TaskInserts(u), Inserts(up[u]))
    BY <1>3 DEF Stream
  <2>2. Chain(u, Known(doc[v]), Range(order), Inserts(down[v]), TaskInserts(u), Inserts(up'[u]))
    BY <1>5, <1>6, <2>1 DEF Chain, Before
  <2> QED
    BY <1>2, <1>3, <1>7, <1>8, <1>9, <2>2 DEF Stream
<1>11. Stream(v)'
  <2>1. Chain(v, Known(doc[u]), Range(order), Inserts(down[u]), TaskInserts(v), Inserts(up[v]))
    BY <1>1, <1>3 DEF Stream
  <2>2. Chain(v, Known(d), Range(order), Inserts(down[u]), TaskInserts(v), Inserts(up[v]))
    <3>1. By(v, Known(d)) = By(v, Known(doc[u])) /\ By(v, Range(order)) \ Known(d) = By(v, Range(order)) \ Known(doc[u])
      BY <1>1, <1>2 DEF By
    <3>2. Known(doc[u]) \subseteq Known(d)
      BY <1>2
    <3> QED
      BY <2>1, <3>1, <3>2 DEF Chain
  <2> QED
    BY <1>1, <1>2, <1>3, <1>9, <2>2 DEF Stream
<1> QED
  BY <1>1, <1>10, <1>11 DEF Flow

\* A browser handles a message.
LEMMA ReceiveFlow ==
    ASSUME Len(Joined) = 2, CInv, Flow, NEW u \in Users, NEW m, Received(u, m)
    PROVE  Flow'
<1> DEFINE v == Peer(u)
           d == Handled(doc[u], m)
<1>1. v \in Users /\ v # u /\ Peer(v) = u /\ Users = {u, v}
  BY TwoUsers
<1>2. /\ m \in Element /\ down[u] # <<>> /\ m = Head(down[u])
      /\ Known(d) = Known(doc[u]) \cup (IF m.deleted THEN {} ELSE {m.id})
      /\ doc'[u] = d /\ doc'[v] = doc[v] /\ down'[u] = Tail(down[u]) /\ down'[v] = down[v]
      /\ up' = up /\ order' = order /\ task' = task
  BY <1>1 DEF Received
<1> HIDE DEF d
<1>3. Stream(u) /\ Stream(v)
  BY <1>1 DEF Flow
<1>4. down[u] \in Seq(Element)
  BY FlowTypes
<1>5. Inserts(down[u]) = Inserts(down'[u]) \cup (IF m.deleted THEN {} ELSE {m.id})
  BY <1>2, <1>4, QueueHead
<1>6. Increasing(down'[u]) /\ (~m.deleted => Before({m.id}, Inserts(down'[u])))
  BY <1>2, <1>3, <1>4, QueueHead DEF Stream
<1>7. TaskInserts(u)' = TaskInserts(u) /\ TaskInserts(v)' = TaskInserts(v)
  BY <1>2 DEF TaskInserts
<1>8. Stream(u)'
  BY <1>2, <1>3, <1>6, <1>7 DEF Stream
<1>9. Stream(v)'
  <2>1. Chain(v, Known(doc[u]), Range(order), Inserts(down[u]), TaskInserts(v), Inserts(up[v]))
    BY <1>1, <1>3 DEF Stream
  <2>2. Chain(v, Known(d), Range(order), Inserts(down'[u]), TaskInserts(v), Inserts(up[v]))
    <3>1. CASE m.deleted
      BY <1>2, <1>5, <2>1, <3>1
    <3>2. CASE ~m.deleted
      <4>1. Known(d) = Known(doc[u]) \cup {m.id} /\ Inserts(down[u]) = Inserts(down'[u]) \cup {m.id}
        BY <1>2, <1>5, <3>2
      <4>2. Before(By(v, Known(d)), By(v, Range(order)) \ Known(d))
        <5> SUFFICES ASSUME NEW x \in By(v, Known(d)), NEW y \in By(v, Range(order)) \ Known(d)
                     PROVE  x[1] < y[1]
          BY DEF Before
        <5>1. CASE x \in Known(doc[u])
          BY <2>1, <4>1, <5>1 DEF Chain, Before, By
        <5>2. CASE x = m.id
          <6>1. y \in Inserts(down'[u]) \cup TaskInserts(v)
            BY <2>1, <4>1 DEF Chain, By
          <6> QED
            BY <1>6, <2>1, <3>2, <4>1, <5>2, <6>1 DEF Chain, Before
        <5> QED
          BY <4>1, <5>1, <5>2 DEF By
      <4> QED
        BY <2>1, <4>1, <4>2 DEF Chain, Before
    <3> QED
      BY <3>1, <3>2
  <2> QED
    BY <1>1, <1>2, <1>3, <1>7, <2>2 DEF Stream
<1> QED
  BY <1>1, <1>8, <1>9 DEF Flow

\* The other browser has of v's elements only what the worker has.
LEMMA PeerKnows ==
    ASSUME Len(Joined) = 2, CInv, Flow, NEW v \in Users
    PROVE  By(v, Known(doc[Peer(v)])) \subseteq Range(order)
<1>1. Peer(v) \in Users /\ Peer(v) # v
  BY TwoUsers
<1> SUFFICES ASSUME NEW x \in By(v, Known(doc[Peer(v)])), x \notin Range(order) PROVE FALSE
  OBVIOUS
<1>2. x \in Inserts(up[Peer(v)]) /\ x[2] = v
  BY <1>1, QueueSets DEF CInv, OnTheWay, By
<1>3. \A y \in Inserts(up[Peer(v)]) : y[2] = Peer(v)
  BY <1>1 DEF Flow, Stream, Chain
<1> QED
  BY <1>1, <1>2, <1>3

\* The worker handles a message.
LEMMA ProcessFlow ==
    ASSUME Len(Joined) = 2, CInv, Flow, NEW v \in Users, NEW m, Processed(v, m)
    PROVE  Flow'
<1> DEFINE u == Peer(v)
           new == IF m.deleted THEN {} ELSE {m.id}
<1>1. u \in Users /\ v # u /\ Peer(u) = v /\ Users = {v, u}
  BY TwoUsers
<1>2. /\ m \in Element /\ up[v] # <<>> /\ m = Head(up[v]) /\ task[v].to = <<>>
      /\ up'[v] = Tail(up[v]) /\ up'[u] = up[u] /\ task'[u] = task[u]
      /\ doc' = doc /\ down' = down
  BY <1>1 DEF Processed
<1>3. /\ task'[v].to \in {<<>>, <<u>>} /\ Range(order') = Range(order) \cup new
      /\ TaskInserts(v)' = new
  <2>0. <<u>> # <<>>
    OBVIOUS
  <2>1. CASE /\ ~m.deleted /\ Range(order') = Range(order) \cup {m.id}
             /\ task'[v].element = m /\ task'[v].to = <<u>>
    BY <2>0, <2>1 DEF TaskInserts
  <2>2. CASE m.deleted /\ order' = order /\ task'[v].element = m /\ task'[v].to = <<u>>
    BY <2>0, <2>2 DEF TaskInserts
  <2>3. CASE m.deleted /\ order' = order /\ task' = task
    BY <1>2, <2>3 DEF TaskInserts
  <2> QED
    BY <2>1, <2>2, <2>3 DEF Processed
<1>4. Stream(u) /\ Stream(v)
  BY <1>1 DEF Flow
<1>5. up[v] \in Seq(Element)
  BY FlowTypes
<1>6. Inserts(up[v]) = Inserts(up'[v]) \cup new /\ Increasing(up'[v]) /\ Before(new, Inserts(up'[v]))
  <2>1. Increasing(up[v])
    BY <1>4 DEF Stream
  <2>2. ~m.deleted => Before({m.id}, Inserts(up'[v]))
    BY <1>2, <1>5, <2>1, QueueHead
  <2>3. Before({}, Inserts(up'[v]))
    BY DEF Before
  <2>4. Before(new, Inserts(up'[v]))
    BY <2>2, <2>3
  <2> QED
    BY <1>2, <1>5, <2>1, <2>4, QueueHead
<1>7. TaskInserts(u)' = TaskInserts(u)
  BY <1>2 DEF TaskInserts
<1>8. Chain(v, Known(doc[u]), Range(order), Inserts(down[u]), TaskInserts(v), Inserts(up[v]))
  BY <1>4 DEF Stream
<1>9. \A x \in new : x[2] = v
  BY <1>6, <1>8 DEF Chain
<1> HIDE DEF new
<1>10. \A i \in 1..Len(up'[v]) : up'[v][i].client = v
  <2>1. \A i \in 1..Len(up[v]) : up[v][i].client = v
    BY <1>4 DEF Stream
  <2> QED
    BY <1>2, <1>5, <2>1, QueueFacts
<1>11. Stream(v)'
  <2>1. TaskInserts(v) = {}
    BY <1>2 DEF TaskInserts
  <2>2. By(v, Known(doc[u])) \subseteq By(v, Range(order)) /\ Inserts(down[u]) \subseteq By(v, Range(order))
    <3>1. Inserts(down[u]) \subseteq Range(order)
      BY <1>1, QueueSets DEF CInv, Delivered
    <3>2. By(v, Known(doc[u])) \subseteq Range(order)
      BY PeerKnows
    <3> QED
      BY <1>8, <3>1, <3>2 DEF By, Chain
  <2>3. By(v, Range(order) \cup new) = By(v, Range(order)) \cup new
    BY <1>9 DEF By
  <2> DEFINE R == By(v, Range(order))
  <2>4. Before(R, new) /\ Before(R, Inserts(up'[v]))
    BY <1>6, <1>8 DEF Chain, Before
  <2>5. /\ Before(R \cup new, Inserts(up'[v]))
        /\ Before(By(v, Known(doc[u])), (R \cup new) \ Known(doc[u]))
        /\ Before(Inserts(down[u]), new)
    <3>1. Before(By(v, Known(doc[u])), R \ Known(doc[u]))
      BY <1>8 DEF Chain
    <3> HIDE DEF R
    <3>2. By(v, Known(doc[u])) \subseteq R /\ Inserts(down[u]) \subseteq R
      BY <2>2 DEF R
    <3> QED
      BY <1>6, <2>4, <3>1, <3>2 DEF Before
  <2>6. Chain(v, Known(doc[u]), Range(order) \cup new, Inserts(down[u]), new, Inserts(up'[v]))
    BY <1>6, <1>8, <1>9, <2>1, <2>3, <2>5 DEF Chain
  <2> QED
    BY <1>2, <1>3, <1>4, <1>6, <1>10, <2>6 DEF Stream
<1>12. Stream(u)'
  <2>1. Chain(u, Known(doc[v]), Range(order), Inserts(down[v]), TaskInserts(u), Inserts(up[u]))
    BY <1>1, <1>4 DEF Stream
  <2>2. By(u, Range(order) \cup new) = By(u, Range(order))
    BY <1>1, <1>9 DEF By
  <2>3. Chain(u, Known(doc[v]), Range(order) \cup new, Inserts(down[v]), TaskInserts(u), Inserts(up[u]))
    BY <2>1, <2>2 DEF Chain
  <2> QED
    BY <1>1, <1>2, <1>3, <1>4, <1>7, <2>3 DEF Stream
<1> QED
  BY <1>1, <1>11, <1>12 DEF Flow

\* The worker sends it on.
LEMMA PassFlow ==
    ASSUME Len(Joined) = 2, CInv, Flow, NEW v \in Users, NEW m, Passed(v, m)
    PROVE  Flow'
<1> DEFINE u == Peer(v)
           new == IF m.deleted THEN {} ELSE {m.id}
<1>1. u \in Users /\ v # u /\ Peer(u) = v /\ Users = {v, u}
  BY TwoUsers
<1>2. /\ m \in Element /\ task[v].to = <<u>> /\ m = task[v].element
      /\ down'[u] = Append(down[u], m) /\ down'[v] = down[v] /\ task'[v].to = <<>> /\ task'[u] = task[u]
      /\ doc' = doc /\ up' = up /\ order' = order
  BY DEF Passed
<1>3. Stream(u) /\ Stream(v)
  BY <1>1 DEF Flow
<1>4. down[u] \in Seq(Element)
  BY <1>1, FlowTypes
<1>5. TaskInserts(v) = new /\ TaskInserts(v)' = {} /\ TaskInserts(u)' = TaskInserts(u)
  <2>1. <<u>> # <<>>
    OBVIOUS
  <2> QED
    BY <1>2, <2>1 DEF TaskInserts
<1>6. Inserts(down'[u]) = Inserts(down[u]) \cup new
  BY <1>2, <1>4, QueueAppended
<1>7. Chain(v, Known(doc[u]), Range(order), Inserts(down[u]), new, Inserts(up[v]))
  BY <1>3, <1>5 DEF Stream
<1>8. Increasing(down'[u])
  <2>1. ~m.deleted => Before(Inserts(down[u]), {m.id})
    BY <1>7 DEF Chain
  <2>2. Increasing(down[u])
    BY <1>3 DEF Stream
  <2> QED
    BY <1>2, <1>4, <2>1, <2>2, QueueAppended
<1> HIDE DEF new
<1>9. Stream(v)'
  <2>1. Chain(v, Known(doc[u]), Range(order), Inserts(down'[u]), {}, Inserts(up[v]))
    BY <1>6, <1>7 DEF Chain, Before
  <2> QED
    BY <1>2, <1>3, <1>5, <2>1 DEF Stream
<1>10. Stream(u)'
  BY <1>1, <1>2, <1>3, <1>5, <1>8 DEF Stream
<1> QED
  BY <1>1, <1>9, <1>10 DEF Flow

-----------------------------------------------------------------------------
(***************************************************************************)
(* The count of elements as a clock.                                       *)
(***************************************************************************)
LEMMA OwnFinite ==
    ASSUME CInv, NEW u \in Users, NEW v
    PROVE  /\ IsFiniteSet(Known(doc[u])) /\ IsFiniteSet(By(v, Known(doc[u])))
           /\ Cardinality(Known(doc[u])) \in Nat /\ Cardinality(By(v, Known(doc[u]))) \in Nat
           /\ \A x \in Known(doc[u]) : x \in Ids /\ x[1] \in Nat
<1>1. IsFiniteSet(Known(doc[u])) /\ Known(doc[u]) \subseteq Ids
  BY FlowTypes DEF DocTypes
<1>2. By(v, Known(doc[u])) \in SUBSET Known(doc[u])
  BY DEF By
<1>3. IsFiniteSet(By(v, Known(doc[u])))
  BY <1>1, <1>2, FS_Subset
<1>4. \A x \in Ids : x[1] \in Nat
  BY CollabAssumption DEF Ids
<1> QED
  BY <1>1, <1>3, <1>4, FS_CardinalityType

\* A rank is never lost.
LEMMA RankKept ==
    ASSUME NEW S, NEW T, Ranked(S, T), NEW S2, NEW T2, S \subseteq S2, T \subseteq T2,
           IsFiniteSet(S2), IsFiniteSet(T2), NEW x \in S, x[1] \in Nat
    PROVE  x[1] <= Cardinality({ y \in S2 : y[1] < x[1] }) + Cardinality(T2)
<1> DEFINE A == { y \in S : y[1] < x[1] }
           B == { y \in S2 : y[1] < x[1] }
<1>1. A \in SUBSET B /\ B \in SUBSET S2 /\ T \in SUBSET T2
  OBVIOUS
<1>2. x[1] <= Cardinality(A) + Cardinality(T)
  BY DEF Ranked
<1> HIDE DEF A, B
<1>3. IsFiniteSet(B) /\ IsFiniteSet(T)
  BY <1>1, FS_Subset
<1>4. /\ IsFiniteSet(A) /\ Cardinality(A) <= Cardinality(B) /\ Cardinality(T) <= Cardinality(T2)
  BY <1>1, <1>3, FS_Subset
<1>5. /\ Cardinality(A) \in Nat /\ Cardinality(B) \in Nat /\ Cardinality(T) \in Nat /\ Cardinality(T2) \in Nat
  BY <1>3, <1>4, FS_CardinalityType
<1> QED
  BY <1>2, <1>4, <1>5 DEF B

\* Of the elements of v the other browser has the first ones.
LEMMA FirstOnes ==
    ASSUME Len(Joined) = 2, CInv, Flow, NEW v \in Users, NEW x \in By(v, Known(doc[Peer(v)])),
           NEW y \in Own(v), y[1] < x[1]
    PROVE  y \in Known(doc[Peer(v)])
<1>1. Stream(v) /\ Peer(v) \in Users
  BY TwoUsers DEF Flow
<1>2. x \in By(v, Range(order)) /\ x[1] \in Int /\ y[1] \in Int
  <2>1. x \in Range(order) /\ x[2] = v /\ x \in Known(doc[Peer(v)]) /\ y \in Known(doc[v])
    BY PeerKnows DEF By, Own
  <2>2. x[1] \in Nat /\ y[1] \in Nat
    BY <1>1, <2>1, OwnFinite
  <2> QED
    BY <2>1, <2>2 DEF By
<1>3. y[2] = v /\ (y \in Range(order) \/ y \in Inserts(up[v]))
  BY QueueSets DEF Own, By, CInv, OnTheWay
<1>4. y \notin Inserts(up[v])
  BY <1>1, <1>2 DEF Stream, Chain, Before
<1> SUFFICES ASSUME y \notin Known(doc[Peer(v)]) PROVE FALSE
  OBVIOUS
<1>5. y \in By(v, Range(order)) \ Known(doc[Peer(v)])
  BY <1>3, <1>4 DEF By
<1>6. x[1] < y[1]
  BY <1>1, <1>5 DEF Stream, Chain, Before
<1> QED
  BY <1>2, <1>6

\* A browser that has an element counts more than its number.
LEMMA CountedNewest ==
    ASSUME Len(Joined) = 2, CInv, Flow, Counted
    PROVE  NewestNumber
<1> SUFFICES ASSUME NEW u \in Users, NEW x \in Known(doc[u]) PROVE x[1] < doc[u].length
  BY DEF NewestNumber
<1>1. x[2] \in Users /\ x \in Known(doc[x[2]]) /\ (x[2] = u => x[1] < doc[u].length)
  BY DEF CInv, Numbered
<1>2. CASE x[2] # u
  <2> DEFINE v == Peer(u)
             K == Known(doc[u])
             S == { y \in Own(v) : y[1] < x[1] }
             O == Own(u)
             T == S \cup {x}
  <2>1. v \in Users /\ v # u /\ Peer(v) = u /\ Users = {u, v}
    BY TwoUsers
  <2>2. x[2] = v /\ x \in Own(v)
    BY <1>1, <1>2, <2>1 DEF Own, By
  <2>3. x[1] <= Cardinality(S) + Cardinality(O)
    BY <2>1, <2>2 DEF Counted, Ranked
  <2>4. S \subseteq K /\ O \subseteq K /\ x \in K /\ T \subseteq K
    <3>1. x \in By(v, Known(doc[Peer(v)]))
      BY <2>1, <2>2 DEF By
    <3>2. S \subseteq K
      BY <2>1, <3>1, FirstOnes
    <3> QED
      BY <3>2 DEF Own, By
  <2>5. IsFiniteSet(K) /\ IsFiniteSet(O) /\ x[1] \in Nat /\ doc[u].length = Cardinality(K)
    BY <2>4, OwnFinite DEF Own, Counted
  <2>6. x \notin S /\ T \cap O = {}
    <3>1. \A y \in S : y[2] = v
      BY DEF Own, By
    <3>2. \A y \in O : y[2] = u
      BY DEF Own, By
    <3>3. x \notin S
      BY <2>5
    <3> QED
      BY <2>1, <2>2, <3>1, <3>2, <3>3
  <2> HIDE DEF S, O, K
  <2>7. IsFiniteSet(S) /\ S \in SUBSET K
    BY <2>4, <2>5, FS_Subset
  <2>8. IsFiniteSet(T) /\ Cardinality(T) = Cardinality(S) + 1
    BY <2>6, <2>7, FS_AddElement
  <2> HIDE DEF T
  <2>9. IsFiniteSet(T \cup O) /\ Cardinality(T \cup O) = Cardinality(T) + Cardinality(O) - Cardinality(T \cap O)
    BY <2>5, <2>8, FS_Union
  <2>10. Cardinality(T \cup O) <= Cardinality(K)
    <3>1. T \cup O \in SUBSET K
      BY <2>4
    <3> QED
      BY <2>5, <3>1, FS_Subset
  <2>11. Cardinality(T \cap O) = 0 /\ Cardinality(S) \in Nat /\ Cardinality(O) \in Nat /\ Cardinality(K) \in Nat
    BY <2>5, <2>6, <2>7, FS_EmptySet, FS_CardinalityType
  <2> QED
    BY <2>3, <2>5, <2>8, <2>9, <2>10, <2>11
<1> QED
  BY <1>1, <1>2

LEMMA InitCounted == Len(Joined) = 2 /\ Init => Counted
<1> SUFFICES ASSUME Len(Joined) = 2, Init, NEW v \in Users
             PROVE  doc[v].length = Cardinality(Known(doc[v])) /\ Ranked(Own(v), Own(Peer(v)))
  BY DEF Counted
<1>1. Opened \in Seq(Ids) /\ IsInjective(Opened) /\ Len(Opened) = Opening /\ Opening \in Nat
  BY OpenedFacts, CollabAssumption
<1>2. /\ Known(Loaded(Opened)) = Range(Opened) /\ Loaded(Opened).length = Opening
      /\ \A u \in Users : doc[u] = Loaded(Opened)
  BY <1>1, LoadedFacts DEF Init
<1>3. IsFiniteSet(Range(Opened)) /\ Cardinality(Range(Opened)) = Opening
  BY <1>1, RangeCounted
<1>4. Peer(v) \in Users
  BY TwoUsers
<1> DEFINE a == Joined[1]
<1>5. \A i \in 1..Opening : Opened[i] = <<i - 1, a>>
  BY <1>1 DEF Opened
<1> SUFFICES ASSUME NEW x \in Own(v)
             PROVE  x[1] <= Cardinality({ y \in Own(v) : y[1] < x[1] }) + Cardinality(Own(Peer(v)))
  BY <1>2, <1>3 DEF Ranked
<1>6. PICK i \in 1..Opening : x = Opened[i]
  BY <1>1, <1>2 DEF Own, By, Range
<1>7. x[1] = i - 1 /\ x[2] = a /\ a = v
  <2>1. x[2] = v
    BY DEF Own, By
  <2> QED
    BY <1>5, <1>6, <2>1
<1> HIDE DEF a
<1> DEFINE S == { y \in Own(v) : y[1] < x[1] }
           s == SubSeq(Opened, 1, i - 1)
<1>8. s \in Seq(Ids) /\ Len(s) = i - 1 /\ \A j \in 1..(i - 1) : s[j] = Opened[j]
  BY <1>1, <1>6
<1>9. IsInjective(s)
  <2>1. \A j, k \in 1..Len(Opened) : Opened[j] = Opened[k] => j = k
    BY <1>1, SeqFacts
  <2> HIDE DEF s
  <2>2. DOMAIN s = 1..(i - 1) /\ \A j \in 1..(i - 1) : j \in 1..Len(Opened)
    BY <1>1, <1>8
  <2> QED
    BY <1>8, <2>1, <2>2 DEF IsInjective
<1> HIDE DEF s
<1>10. Range(s) \subseteq S
  <2> SUFFICES ASSUME NEW j \in 1..(i - 1) PROVE s[j] \in S
    BY <1>8 DEF Range
  <2>1. j \in 1..Opening /\ s[j] = Opened[j] /\ j - 1 < i - 1
    BY <1>1, <1>8
  <2>2. Opened[j] \in Range(Opened) /\ Opened[j][1] = j - 1 /\ Opened[j][2] = v
    BY <1>1, <1>5, <1>7, <2>1 DEF Range
  <2> QED
    BY <1>2, <1>7, <2>1, <2>2 DEF Own, By
<1>11. IsFiniteSet(S)
  <2>1. S \in SUBSET Range(Opened)
    BY <1>2 DEF Own, By
  <2> QED
    BY <1>3, <2>1, FS_Subset
<1>12. Cardinality(Range(s)) = i - 1
  BY <1>8, <1>9, RangeCounted
<1> HIDE DEF S
<1>13. i - 1 <= Cardinality(S) /\ Cardinality(S) \in Nat
  BY <1>10, <1>11, <1>12, FS_Subset, FS_CardinalityType
<1>14. Cardinality(Own(Peer(v))) \in Nat
  <2>1. Own(Peer(v)) \in SUBSET Range(Opened)
    BY <1>2, <1>4 DEF Own, By
  <2> QED
    BY <1>3, <2>1, FS_Subset, FS_CardinalityType
<1> QED
  BY <1>7, <1>13, <1>14 DEF S

\* A user types or deletes.
LEMMA EditCounted ==
    ASSUME Len(Joined) = 2, CInv, CInv', Counted, NEW u \in Users, NEW m, NEW d, Edited(u, m, d),
           IF m.deleted THEN m.id \in Known(doc[u]) /\ d.length = doc[u].length
           ELSE m.id \notin Known(doc[u]) /\ m.id[2] = u /\ m.id[1] = doc[u].length
                /\ d.length = doc[u].length + 1
    PROVE  Counted'
<1> DEFINE v == Peer(u)
           id == m.id
<1>1. v \in Users /\ v # u /\ Peer(v) = u /\ Users = {u, v}
  BY TwoUsers
<1>2. Known(d) = Known(doc[u]) \cup {id} /\ doc'[u] = d /\ doc'[v] = doc[v]
  BY <1>1 DEF Edited
<1>3. /\ doc[u].length = Cardinality(Known(doc[u])) /\ Ranked(Own(u), Own(v))
      /\ doc[v].length = Cardinality(Known(doc[v])) /\ Ranked(Own(v), Own(u))
  BY <1>1 DEF Counted
<1>4. /\ IsFiniteSet(Known(doc[u])) /\ IsFiniteSet(Own(u)) /\ IsFiniteSet(Own(v))
      /\ IsFiniteSet(Own(u)') /\ IsFiniteSet(Own(v)')
  <2>1. \A w \in Users : IsFiniteSet(Known(doc[w])) /\ IsFiniteSet(Known(doc'[w]))
    BY DEF CInv, Shape, DocTypes
  <2>2. \A w \in Users : Own(w) \in SUBSET Known(doc[w]) /\ Own(w)' \in SUBSET Known(doc'[w])
    BY DEF Own, By
  <2>3. \A w \in Users : IsFiniteSet(Own(w)) /\ IsFiniteSet(Own(w)')
    BY <2>1, <2>2, FS_Subset
  <2> QED
    BY <1>1, <2>1, <2>3
<1>5. CASE m.deleted
  <2>1. Known(d) = Known(doc[u])
    BY <1>2, <1>5
  <2>2. Own(u)' = Own(u) /\ Own(v)' = Own(v)
    BY <1>2, <2>1 DEF Own
  <2> QED
    BY <1>1, <1>2, <1>3, <1>5, <2>1, <2>2 DEF Counted
<1>6. CASE ~m.deleted
  <2>1. id \notin Known(doc[u]) /\ id[2] = u /\ id[1] = Cardinality(Known(doc[u]))
    BY <1>3, <1>6
  <2> HIDE DEF id
  <2>2. d.length = Cardinality(Known(d))
    BY <1>2, <1>3, <1>4, <1>6, <2>1, FS_AddElement
  <2>3. Own(u)' = Own(u) \cup {id} /\ Own(v)' = Own(v)
    BY <1>2, <2>1 DEF Own, By
  <2>4. \A x \in Own(u) \cup Own(v) : x[1] \in Nat
    BY <1>1, OwnFinite DEF Own, By
  <2>5. Ranked(Own(v)', Own(u)')
    <3>1. Own(u) \subseteq Own(u)' /\ Own(v) \subseteq Own(v)'
      BY <2>3
    <3>2. \A x \in Own(v) : x[1] <= Cardinality({ y \in Own(v)' : y[1] < x[1] }) + Cardinality(Own(u)')
      BY <1>3, <1>4, <2>4, <3>1, RankKept
    <3> QED
      BY <2>3, <3>2 DEF Ranked
  <2>6. Ranked(Own(u)', Own(v)')
    <3> DEFINE S == { y \in Own(u)' : y[1] < id[1] }
               B == By(v, Known(doc[u]))
    <3>1. Own(u) \subseteq S
      <4>1. \A y \in Own(u) : y[1] < id[1]
        BY <1>3, <2>1 DEF Own, By, CInv, Numbered
      <4> QED
        BY <2>3, <4>1
    <3>2. B \subseteq Own(v)
      BY <1>1 DEF By, Own, CInv, Numbered
    <3>3. Known(doc[u]) = Own(u) \cup B /\ Own(u) \cap B = {}
      <4>1. \A x \in Known(doc[u]) : x[2] \in Users
        BY DEF CInv, Numbered
      <4> QED
        BY <1>1, <4>1 DEF Own, By
    <3>4. IsFiniteSet(B) /\ IsFiniteSet(S)
      BY <1>4, <3>2, FS_Subset
    <3> HIDE DEF S, B
    <3>5. Cardinality(Known(doc[u])) = Cardinality(Own(u)) + Cardinality(B) - Cardinality(Own(u) \cap B)
      BY <1>4, <3>3, <3>4, FS_Union
    <3>6. Cardinality(Own(u)) <= Cardinality(S) /\ Cardinality(B) <= Cardinality(Own(v))
      BY <1>4, <3>1, <3>2, <3>4, FS_Subset
    <3>7. /\ Cardinality(Own(u) \cap B) = 0 /\ Cardinality(Own(u)) \in Nat /\ Cardinality(B) \in Nat
          /\ Cardinality(S) \in Nat /\ Cardinality(Own(v)) \in Nat
      BY <1>4, <3>3, <3>4, FS_EmptySet, FS_CardinalityType
    <3>8. id[1] <= Cardinality(S) + Cardinality(Own(v)')
      BY <2>1, <2>3, <3>5, <3>6, <3>7
    <3>9. \A x \in Own(u) : x[1] <= Cardinality({ y \in Own(u)' : y[1] < x[1] }) + Cardinality(Own(v)')
      <4>1. Own(u) \subseteq Own(u)' /\ Own(v) \subseteq Own(v)'
        BY <2>3
      <4> QED
        BY <1>3, <1>4, <2>4, <4>1, RankKept
    <3> QED
      BY <2>3, <3>8, <3>9 DEF Ranked, S
  <2> QED
    BY <1>1, <1>2, <1>3, <2>2, <2>5, <2>6 DEF Counted
<1> QED
  BY <1>5, <1>6

\* A handler counts the element it adds.
LEMMA HandledCounted ==
    ASSUME NEW d, DocTypes(d), NEW m \in Element, d.length = Cardinality(Known(d))
    PROVE  Handled(d, m).length = Cardinality(Known(Handled(d, m)))
<1>1. CASE m.deleted
  <2>1. Handled(d, m) = RemoteDelete(d, m.id)
    BY <1>1 DEF Handled
  <2> QED
    BY <2>1, RemoteDeleteTypes
<1>2. CASE ~m.deleted
  <2> DEFINE new == RemoteInput(d, m.id, m.prev)
  <2>1. Handled(d, m) = new /\ m.id \in Ids /\ IsFiniteSet(Known(d))
    BY <1>2 DEF Handled, Element, DocTypes
  <2>2. CASE m.id \in Known(d)
    BY <2>1, <2>2 DEF RemoteInput
  <2>3. CASE m.id \notin Known(d)
    <3>1. new.length = d.length + 1
      BY <2>3 DEF RemoteInput, Insert
    <3>2. Known(new) = Known(d) \cup {m.id}
      BY <2>1, RemoteInputTypes DEF Grown
    <3> HIDE DEF new
    <3> QED
      BY <2>1, <2>3, <3>1, <3>2, FS_AddElement
  <2> QED
    BY <2>2, <2>3
<1> QED
  BY <1>1, <1>2

\* A browser handles a message.
LEMMA ReceiveCounted ==
    ASSUME Len(Joined) = 2, CInv, Flow, Counted, NEW u \in Users, NEW m, Received(u, m)
    PROVE  Counted'
<1> DEFINE v == Peer(u)
           d == Handled(doc[u], m)
<1>1. v \in Users /\ v # u /\ Peer(v) = u /\ Users = {u, v}
  BY TwoUsers
<1>2. /\ m \in Element /\ down[u] # <<>> /\ m = Head(down[u])
      /\ Known(d) = Known(doc[u]) \cup (IF m.deleted THEN {} ELSE {m.id})
      /\ doc'[u] = d /\ doc'[v] = doc[v]
  BY <1>1 DEF Received
<1>3. d.length = Cardinality(Known(d))
  BY <1>2, FlowTypes, HandledCounted DEF Counted
<1> HIDE DEF d
<1>4. ~m.deleted => m.id[2] = v
  <2>1. down[u] \in Seq(Element)
    BY FlowTypes
  <2>2. ~m.deleted => m.id \in Inserts(down[u])
    BY <1>2, <2>1, QueueHead
  <2> QED
    BY <1>1, <2>2 DEF Flow, Stream, Chain
<1>5. Own(u)' = Own(u) /\ Own(v)' = Own(v)
  BY <1>1, <1>2, <1>4 DEF Own, By
<1> QED
  BY <1>1, <1>2, <1>3, <1>5 DEF Counted

\* The worker does not change what browsers have.
LEMMA SameCounted ==
    ASSUME Counted, doc' = doc
    PROVE  Counted'
  BY DEF Counted, Own

-----------------------------------------------------------------------------
(***************************************************************************)
(* Nothing arrives before what it needs, and no deletion is lost.          *)
(***************************************************************************)
LEMMA AheadGrows ==
    ASSUME NEW q, NEW K, NEW L, Ahead(q, K), K \subseteq L
    PROVE  Ahead(q, L)
  BY DEF Ahead

\* A user types behind an element, or deletes one.
LEMMA EditPrepared ==
    ASSUME Len(Joined) = 2, CInv, Prepared, NEW u \in Users, NEW m, NEW d, Edited(u, m, d),
           Need(m) \in Known(doc[u])
    PROVE  Prepared'
<1> DEFINE v == Peer(u)
<1>1. v \in Users /\ v # u /\ Peer(v) = u /\ Users = {u, v}
  BY TwoUsers
<1>2. /\ m \in Element /\ Known(doc[u]) \subseteq Known(d)
      /\ doc'[u] = d /\ doc'[v] = doc[v] /\ up'[u] = Append(up[u], m) /\ up'[v] = up[v]
      /\ down' = down /\ order' = order /\ task' = task
  BY <1>1 DEF Edited
<1>3. Ahead(up'[u], Range(order))
  <2>1. Need(m) \in Range(order) \cup Inserts(up[u])
    BY QueueSets DEF CInv, OnTheWay
  <2>2. up[u] \in Seq(Element) /\ Ahead(up[u], Range(order))
    BY FlowTypes DEF Prepared
  <2> QED
    BY <1>2, <2>1, <2>2, QueueAppended
<1>4. Ahead(down[u], Known(d))
  BY <1>2, AheadGrows DEF Prepared
<1> QED
  BY <1>1, <1>2, <1>3, <1>4 DEF Prepared

\* A browser handles a message.
LEMMA ReceivePrepared ==
    ASSUME Len(Joined) = 2, CInv, Prepared, NEW u \in Users, NEW m, Received(u, m)
    PROVE  Prepared' /\ Need(m) \in Known(doc[u])
<1> DEFINE v == Peer(u)
           d == Handled(doc[u], m)
<1>1. v \in Users /\ v # u /\ Peer(v) = u /\ Users = {u, v}
  BY TwoUsers
<1>2. /\ m \in Element /\ down[u] # <<>> /\ m = Head(down[u])
      /\ Known(d) = Known(doc[u]) \cup (IF m.deleted THEN {} ELSE {m.id})
      /\ doc'[u] = d /\ doc'[v] = doc[v] /\ down'[u] = Tail(down[u]) /\ down'[v] = down[v]
      /\ up' = up /\ order' = order /\ task' = task
  BY <1>1 DEF Received
<1> HIDE DEF d
<1>3. down[u] \in Seq(Element) /\ Ahead(down[u], Known(doc[u]))
  BY FlowTypes DEF Prepared
<1>4. Known(doc[u]) \subseteq Known(d) /\ (~m.deleted => m.id \in Known(d))
  BY <1>2
<1>5. Need(m) \in Known(doc[u]) /\ Ahead(down'[u], Known(d))
  BY <1>2, <1>3, <1>4, QueueHead
<1>6. Inserts(down[u]) \subseteq Inserts(down'[u]) \cup Known(d)
  <2>1. Inserts(down[u]) = Inserts(down'[u]) \cup (IF m.deleted THEN {} ELSE {m.id})
    BY <1>2, <1>3, QueueHead
  <2> QED
    BY <1>4, <2>1
<1>7. task[v].to # <<>> => Need(task[v].element) \in Known(d) \cup Inserts(down'[u])
  BY <1>1, <1>4, <1>6 DEF Prepared
<1> QED
  BY <1>1, <1>2, <1>5, <1>7 DEF Prepared

\* The worker handles a message.
LEMMA ProcessPrepared ==
    ASSUME Len(Joined) = 2, CInv, Flow, Prepared, NEW v \in Users, NEW m, Processed(v, m)
    PROVE  Prepared' /\ Need(m) \in Range(order)
<1> DEFINE u == Peer(v)
<1>1. u \in Users /\ v # u /\ Peer(u) = v /\ Users = {v, u}
  BY TwoUsers
<1>2. /\ m \in Element /\ up[v] # <<>> /\ m = Head(up[v]) /\ task[v].to = <<>>
      /\ up'[v] = Tail(up[v]) /\ up'[u] = up[u] /\ task'[u] = task[u]
      /\ doc' = doc /\ down' = down
  BY <1>1 DEF Processed
<1>3. /\ Range(order) \subseteq Range(order') /\ (~m.deleted => m.id \in Range(order'))
      /\ task'[v].to # <<>> => task'[v].element = m
  BY <1>2 DEF Processed
<1>4. up[v] \in Seq(Element) /\ Ahead(up[v], Range(order))
  BY FlowTypes DEF Prepared
<1>5. Need(m) \in Range(order) /\ Ahead(up'[v], Range(order'))
  BY <1>2, <1>3, <1>4, QueueHead
<1>6. Ahead(up[u], Range(order'))
  BY <1>1, <1>3, AheadGrows DEF Prepared
<1>7. Need(m) \in Known(doc[u]) \cup Inserts(down[u])
  <2> DEFINE x == Need(m)
  <2>1. x \in Range(order)
    BY <1>5
  <2> HIDE DEF x
  <2>2. x[2] \in Users /\ x \in Known(doc[x[2]])
    BY <2>1 DEF CInv, Numbered
  <2>3. TaskInserts(v) = {}
    BY <1>2 DEF TaskInserts
  <2>4. By(v, Range(order)) \subseteq Known(doc[u]) \cup Inserts(down[u]) \cup TaskInserts(v)
    BY DEF Flow, Stream, Chain
  <2>5. CASE x[2] = u
    BY <2>2, <2>5 DEF x
  <2>6. CASE x[2] = v
    <3>1. x \in By(v, Range(order))
      BY <2>1, <2>6 DEF By
    <3> QED
      BY <2>3, <2>4, <3>1 DEF x
  <2> QED
    BY <1>1, <2>2, <2>5, <2>6
<1> QED
  BY <1>1, <1>2, <1>3, <1>5, <1>6, <1>7 DEF Prepared

\* The worker sends it on.
LEMMA PassPrepared ==
    ASSUME Len(Joined) = 2, CInv, Prepared, NEW v \in Users, NEW m, Passed(v, m)
    PROVE  Prepared'
<1> DEFINE u == Peer(v)
<1>1. u \in Users /\ v # u /\ Peer(u) = v /\ Users = {v, u}
  BY TwoUsers
<1>2. /\ m \in Element /\ task[v].to = <<u>> /\ m = task[v].element
      /\ down'[u] = Append(down[u], m) /\ down'[v] = down[v] /\ task'[v].to = <<>> /\ task'[u] = task[u]
      /\ doc' = doc /\ up' = up /\ order' = order
  BY DEF Passed
<1>3. down[u] \in Seq(Element) /\ Ahead(down[u], Known(doc[u]))
  BY <1>1, FlowTypes DEF Prepared
<1>4. Need(m) \in Known(doc[u]) \cup Inserts(down[u])
  <2>1. task[v].to # <<>>
    BY <1>2
  <2> QED
    BY <1>2, <2>1 DEF Prepared
<1>5. Ahead(down'[u], Known(doc[u]))
  BY <1>2, <1>3, <1>4, QueueAppended
<1> QED
  BY <1>1, <1>2, <1>5 DEF Prepared

LEMMA InitPrepared == Len(Joined) = 2 /\ Init => Prepared /\ Deleted
<1> SUFFICES ASSUME Len(Joined) = 2, Init PROVE Prepared /\ Deleted
  OBVIOUS
<1>1. Loaded(Opened).dead = {}
  BY OpenedFacts, LoadedFacts
<1>2. \A v \in Users : /\ up[v] = <<>> /\ down[v] = <<>> /\ task[v].to = <<>> /\ doc[v].dead = {}
                       /\ Peer(v) \in Users
  BY <1>1, TwoUsers DEF Init, NoTask
<1>3. dead = {}
  BY DEF Init
<1>4. Deletes(<<>>) = {} /\ \A K : Ahead(<<>>, K)
  BY DEF Deletes, Ahead
<1>5. \A v \in Users : TaskDeletes(v) = {}
  BY <1>2 DEF TaskDeletes
<1> QED
  BY <1>2, <1>3, <1>4, <1>5 DEF Prepared, Deleted

\* A user types or deletes.
LEMMA EditDeleted ==
    ASSUME Len(Joined) = 2, CInv, Deleted, NEW u \in Users, NEW m, NEW d, Edited(u, m, d),
           d.dead = doc[u].dead \cup (IF m.deleted THEN {m.id} ELSE {})
    PROVE  Deleted'
<1> DEFINE v == Peer(u)
           gone == IF m.deleted THEN {m.id} ELSE {}
<1>1. v \in Users /\ v # u /\ Peer(v) = u /\ Users = {u, v}
  BY TwoUsers
<1>2. /\ m \in Element
      /\ doc'[u] = d /\ doc'[v] = doc[v] /\ up'[u] = Append(up[u], m) /\ up'[v] = up[v]
      /\ down' = down /\ dead' = dead /\ task' = task
  BY <1>1 DEF Edited
<1>3. Deletes(up'[u]) = Deletes(up[u]) \cup gone
  BY <1>2, FlowTypes, QueueAppended
<1>4. TaskDeletes(u)' = TaskDeletes(u) /\ TaskDeletes(v)' = TaskDeletes(v)
  BY <1>2 DEF TaskDeletes
<1>5. d.dead = doc[u].dead \cup gone
  OBVIOUS
<1> DEFINE All(w) ==
             /\ Deletes(up[w]) \subseteq doc[w].dead /\ doc[w].dead \subseteq dead \cup Deletes(up[w])
             /\ TaskDeletes(w) \cup Deletes(down[w]) \subseteq dead
             /\ dead \subseteq doc[w].dead \cup TaskDeletes(Peer(w)) \cup Deletes(down[w])
<1> HIDE DEF gone
<1>6. All(u) /\ All(v)
  BY <1>1 DEF Deleted
<1>7. All(u)'
  BY <1>1, <1>2, <1>3, <1>4, <1>5, <1>6
<1>8. All(v)'
  BY <1>1, <1>2, <1>4, <1>6
<1>9. \A w \in Users : All(w)'
  BY <1>1, <1>7, <1>8
<1> QED
  BY <1>9 DEF Deleted

\* A browser handles a message.
LEMMA ReceiveDeleted ==
    ASSUME Len(Joined) = 2, CInv, Deleted, NEW u \in Users, NEW m, Received(u, m),
           Need(m) \in Known(doc[u])
    PROVE  Deleted'
<1> DEFINE v == Peer(u)
           gone == IF m.deleted THEN {m.id} ELSE {}
           d == Handled(doc[u], m)
<1>1. v \in Users /\ v # u /\ Peer(v) = u /\ Users = {u, v}
  BY TwoUsers
<1>2. /\ m \in Element /\ down[u] # <<>> /\ m = Head(down[u])
      /\ doc'[u] = d /\ doc'[v] = doc[v] /\ down'[u] = Tail(down[u]) /\ down'[v] = down[v]
      /\ up' = up /\ dead' = dead /\ task' = task
  BY <1>1 DEF Received
<1>3. Deletes(down[u]) = Deletes(down'[u]) \cup gone
  BY <1>2, FlowTypes, QueueHead
<1>4. TaskDeletes(u)' = TaskDeletes(u) /\ TaskDeletes(v)' = TaskDeletes(v)
  BY <1>2 DEF TaskDeletes
<1>5. d.dead = doc[u].dead \cup gone
  <2>1. DocTypes(doc[u]) /\ IsDoc(doc[u])
    BY FlowTypes DEF DocTypes
  <2>2. CASE m.deleted
    <3>1. m.id \in Known(doc[u])
      BY <2>2 DEF Need
    <3>2. d = Hide(doc[u], m.id)
      BY <2>2, <3>1 DEF Handled, RemoteDelete
    <3> QED
      BY <2>1, <2>2, <3>2, HideFields
  <2>3. CASE ~m.deleted
    <3>1. d = RemoteInput(doc[u], m.id, m.prev) /\ m.id \in Ids
      BY <1>2, <2>3 DEF Handled, Element
    <3> QED
      BY <2>1, <2>3, <3>1, RemoteInputTypes DEF Grown
  <2> QED
    BY <2>2, <2>3
<1> HIDE DEF gone, d
<1> QED
  BY <1>1, <1>2, <1>3, <1>4, <1>5 DEF Deleted

\* The worker handles a message.
LEMMA ProcessDeleted ==
    ASSUME Len(Joined) = 2, CInv, Deleted, NEW v \in Users, NEW m, Processed(v, m), Need(m) \in Range(order)
    PROVE  Deleted'
<1> DEFINE u == Peer(v)
           gone == IF m.deleted THEN {m.id} ELSE {}
<1>1. u \in Users /\ v # u /\ Peer(u) = v /\ Users = {v, u}
  BY TwoUsers
<1>2. /\ m \in Element /\ up[v] # <<>> /\ m = Head(up[v]) /\ task[v].to = <<>>
      /\ up'[v] = Tail(up[v]) /\ up'[u] = up[u] /\ task'[u] = task[u]
      /\ doc' = doc /\ down' = down
  BY <1>1 DEF Processed
<1>3. Deletes(up[v]) = Deletes(up'[v]) \cup gone
  BY <1>2, FlowTypes, QueueHead
<1>4. TaskDeletes(u)' = TaskDeletes(u) /\ TaskDeletes(v) = {}
  BY <1>2 DEF TaskDeletes
<1>5. dead' = dead \cup gone /\ TaskDeletes(v)' \subseteq gone /\ gone \subseteq dead \cup TaskDeletes(v)'
  <2>0. <<u>> # <<>>
    OBVIOUS
  <2>1. CASE /\ ~m.deleted /\ dead' = dead
             /\ task'[v].element = m /\ task'[v].to = <<u>>
    BY <2>0, <2>1 DEF TaskDeletes
  <2>2. CASE m.deleted /\ dead' = dead \cup {m.id} /\ task'[v].element = m /\ task'[v].to = <<u>>
    BY <2>0, <2>2 DEF TaskDeletes
  <2>3. CASE m.deleted /\ m.id \notin Range(order) \ dead /\ dead' = dead /\ task' = task
    <3>1. m.id \in dead
      BY <2>3 DEF Need
    <3> QED
      BY <1>2, <2>3, <3>1 DEF TaskDeletes
  <2> QED
    BY <2>1, <2>2, <2>3 DEF Processed
<1> HIDE DEF gone
<1> QED
  BY <1>1, <1>2, <1>3, <1>4, <1>5 DEF Deleted

\* The worker sends it on.
LEMMA PassDeleted ==
    ASSUME Len(Joined) = 2, CInv, Deleted, NEW v \in Users, NEW m, Passed(v, m)
    PROVE  Deleted'
<1> DEFINE u == Peer(v)
           gone == IF m.deleted THEN {m.id} ELSE {}
<1>1. u \in Users /\ v # u /\ Peer(u) = v /\ Users = {v, u}
  BY TwoUsers
<1>2. /\ m \in Element /\ task[v].to = <<u>> /\ m = task[v].element
      /\ down'[u] = Append(down[u], m) /\ down'[v] = down[v] /\ task'[v].to = <<>> /\ task'[u] = task[u]
      /\ doc' = doc /\ up' = up /\ dead' = dead
  BY DEF Passed
<1>3. TaskDeletes(v) = gone /\ TaskDeletes(v)' = {} /\ TaskDeletes(u)' = TaskDeletes(u)
  <2>1. <<u>> # <<>>
    OBVIOUS
  <2> QED
    BY <1>2, <2>1 DEF TaskDeletes
<1>4. Deletes(down'[u]) = Deletes(down[u]) \cup gone
  BY <1>1, <1>2, FlowTypes, QueueAppended
<1> HIDE DEF gone
<1> QED
  BY <1>1, <1>2, <1>3, <1>4 DEF Deleted

-----------------------------------------------------------------------------
(***************************************************************************)
(* The lists of the browsers and of the worker are the same.               *)
(***************************************************************************)
\* The worker compares ids as strings, the browsers by number and name.
SameOrder == \A x, y \in Ids : <<x, y>> \in IdGreater <=> IsLess(y, x)

\* handleRemoteInput of an element that is new behind a known one.
LEMMA PlacedRemote ==
    ASSUME NEW d, DocTypes(d), NEW s, Shows(d, s), NEW par, Canonical(s, par),
           NEW id \in Ids, id \notin Known(d), NEW prev \in Known(d), par[id] = prev
    PROVE  \E t : Shows(RemoteInput(d, id, prev), t) /\ Canonical(t, par)
<1>1. ListOf(d, s) /\ s \in Seq(Ids)
  BY DEF Shows, ListOf
<1>2. /\ Len(s) \in Nat
      /\ \A i \in 1..Len(s) : s[i] # NIL
      /\ \A i, j \in 1..Len(s) : s[i] = s[j] => i = j
      /\ \A x \in Known(d) : \E i \in 1..Len(s) : s[i] = x
  BY <1>1, ListFacts
<1>3. PICK p \in 1..Len(s) : s[p] = prev
  BY <1>2
<1>4. PICK q \in p..Len(s) : /\ ListPlace(d, id, s[p]) = s[q]
                             /\ \A j \in (p + 1)..q : IsLess(id, s[j])
                             /\ q < Len(s) => IsLess(s[q + 1], id)
  BY <1>1, RemotePlace
<1>5. PICK r \in 0..Len(s) : /\ ListPlace(d, id, prev) = At(s, r)
                             /\ Shows(RemoteInput(d, id, prev), InsertAt(s, r + 1, id))
  BY RemoteInputList
<1>6. r = q
  <2>1. q \in 1..Len(s) /\ At(s, r) = s[q]
    BY <1>2, <1>3, <1>4, <1>5
  <2> QED
    BY <1>2, <2>1 DEF At
<1>7. p \in 0..q /\ q \in 0..Len(s) /\ At(s, p) = par[id]
  BY <1>2, <1>3 DEF At
<1>8. Canonical(InsertAt(s, q + 1, id), par)
  BY <1>1, <1>4, <1>7, CanonicalInserted
<1> QED
  BY <1>5, <1>6, <1>8

\* handleLocalInput of an element behind a visible one.
LEMMA PlacedLocal ==
    ASSUME NEW d, DocTypes(d), NEW s, Shows(d, s), NEW par, Canonical(s, par),
           NEW user, NEW ch \in 1..Len(d.text), NewID(d, user) \in Ids,
           \A x \in Known(d) : x[1] < d.length,
           par[NewID(d, user)] = Preceding(d, ch)
    PROVE  \E t : Shows(LocalInput(d, user, ch), t) /\ Canonical(t, par)
<1> DEFINE id == NewID(d, user)
<1>1. ListOf(d, s) /\ s \in Seq(Ids)
  BY DEF Shows, ListOf
<1>2. Len(s) \in Nat /\ \A i \in 1..Len(s) : s[i] \in Known(d) /\ s[i] \in Ids
  BY <1>1, ListFacts
<1>3. id[1] = d.length /\ d.length \in Nat
  BY DEF NewID, DocTypes
<1>4. id \notin Known(d)
  BY <1>3
<1>5. ch \in 0..Len(d.text) /\ ch # 0
  BY TextFacts
<1>6. PICK q \in 0..Len(s) : /\ Preceding(d, ch) = At(s, q)
                             /\ Shows(LocalInput(d, user, ch), InsertAt(s, q + 1, id))
  BY <1>4, <1>5, LocalInputList
<1>7. q < Len(s) => IsLess(s[q + 1], id)
  BY <1>2, <1>3 DEF IsLess
<1>8. q \in 0..q /\ At(s, q) = par[id] /\ \A j \in (q + 1)..q : IsLess(id, s[j])
  BY <1>2, <1>6
<1>9. id \in Ids
  OBVIOUS
<1> HIDE DEF id
<1>10. Canonical(InsertAt(s, q + 1, id), par)
  BY <1>1, <1>7, <1>8, <1>9, CanonicalInserted
<1> QED
  BY <1>6, <1>10

\* getPrev of the worker, for an element with the greatest number of its author.
LEMMA PlacedAfter ==
    ASSUME SameOrder, order \in Seq(Ids), NEW par, Canonical(order, par),
           NEW id \in Ids, NEW prev, par[id] = prev,
           Before(By(id[2], Range(order)), {id}), id \notin Range(order),
           List!InsertAfter(id, prev)
    PROVE  Canonical(order', par)
<1>1. PICK p \in 1..Len(order), i \in 1..Len(order) :
         order[p] = prev /\ List!IsPlace(order, p, i, id) /\ order' = InsertAt(order, i + 1, id)
  BY ListOperators DEF List!InsertAfter
<1>2. /\ p <= i
      /\ \A j \in (p + 1)..i : List!Skips(order[j], id)
      /\ i < Len(order) => ~List!Skips(order[i + 1], id)
  BY <1>1 DEF List!IsPlace
<1>3. \A x \in Ids : List!Skips(x, id) <=> IsLess(id, x) /\ x[2] # id[2]
  BY DEF List!Skips, SameOrder, ClientOf
<1>4. Len(order) \in Nat /\ \A j \in 1..Len(order) : order[j] \in Ids /\ order[j] \in Range(order)
  BY DEF Range
<1>5. \A j \in (p + 1)..i : IsLess(id, order[j])
  BY <1>2, <1>3, <1>4
<1>6. i < Len(order) => IsLess(order[i + 1], id)
  <2> SUFFICES ASSUME i < Len(order) PROVE IsLess(order[i + 1], id)
    OBVIOUS
  <2> DEFINE x == order[i + 1]
  <2>1. x \in Ids /\ x \in Range(order) /\ ~List!Skips(x, id)
    BY <1>2, <1>4
  <2> HIDE DEF x
  <2>2. x # id
    BY <2>1
  <2>3. CASE ~IsLess(id, x)
    BY <2>1, <2>2, <2>3, IdOrder DEF x
  <2>4. CASE x[2] = id[2]
    <3>1. x \in By(id[2], Range(order))
      BY <2>1, <2>4 DEF By
    <3>2. x[1] < id[1]
      BY <3>1 DEF Before
    <3> QED
      BY <3>2 DEF IsLess, x
  <2> QED
    BY <1>3, <2>1, <2>3, <2>4
<1>7. p \in 0..i /\ i \in 0..Len(order) /\ At(order, p) = par[id]
  BY <1>1, <1>2, <1>4 DEF At
<1> QED
  BY <1>1, <1>5, <1>6, <1>7, CanonicalInserted

\* The elements of a queue that are sent with their parents.
LEMMA SendsHead ==
    ASSUME NEW q \in Seq(Element), q # <<>>, NEW m, m = Head(q), NEW par, SendsParents(q, par)
    PROVE  SendsParents(Tail(q), par) /\ (~m.deleted => m.prev = par[m.id])
  BY QueueHead, Zenon

LEMMA SendsAppended ==
    ASSUME NEW q \in Seq(Element), NEW m \in Element, NEW par, SendsParents(q, par), SendsParents(<<m>>, par)
    PROVE  SendsParents(Append(q, m), par)
  BY QueueAppended, Zenon

\* An element its author has not typed yet has no parent yet.
LEMMA ParentChosen ==
    ASSUME CInv, NEW par \in [Ids -> Ids \cup {NIL}], Lists(par),
           NEW u \in Users, NEW id \in Ids, id[2] = u, id \notin Known(doc[u]), NEW new, \A x \in Ids : x # id => new[x] = par[x]
    PROVE  Lists(new)
<1>1. \A x \in Ids : x # id => new[x] = par[x]
  OBVIOUS
<1>2. \A w \in Users : \A x \in Known(doc[w]) \cup Range(order) : x # id
  BY DEF CInv, Numbered
<1>3. order \in Seq(Ids) /\ \A x \in Range(order) : x \in Ids
  BY DEF CInv, Shape, Range
<1>4. Canonical(order, new)
  <2>1. \A x \in Range(order) : new[x] = par[x]
    BY <1>1, <1>2, <1>3
  <2> QED
    BY <1>3, <2>1, CanonicalKept DEF Lists
<1>5. ASSUME NEW w \in Users, NEW s, Shows(doc[w], s), Canonical(s, par)
      PROVE  Canonical(s, new)
  <2>1. s \in Seq(Ids) /\ Range(s) = Known(doc[w])
    BY <1>5 DEF Shows, ListOf
  <2>2. \A x \in Range(s) : x \in Ids
    BY <2>1 DEF Range
  <2>3. \A x \in Range(s) : new[x] = par[x]
    BY <1>1, <1>2, <2>1, <2>2
  <2> QED
    BY <1>5, <2>1, <2>3, CanonicalKept
<1>6. ASSUME NEW w \in Users
      PROVE  SendsParents(up[w], new) /\ SendsParents(down[w], new)
  <2>1. up[w] \in Seq(Element) /\ down[w] \in Seq(Element)
    BY FlowTypes
  <2>2. /\ \A i \in 1..Len(up[w]) : up[w][i].id \in Ids /\ up[w][i].id # id
        /\ \A i \in 1..Len(down[w]) : down[w][i].id \in Ids /\ down[w][i].id # id
    <3>1. /\ \A i \in 1..Len(up[w]) : up[w][i] \in Element
          /\ \A i \in 1..Len(down[w]) : down[w][i] \in Element
      BY <2>1
    <3>2. \A i \in 1..Len(up[w]) : up[w][i].id \in Known(doc[w])
      BY DEF CInv, Numbered
    <3>3. \A i \in 1..Len(down[w]) : down[w][i].id \in Range(order)
      BY DEF CInv, Delivered
    <3> QED
      BY <1>2, <3>1, <3>2, <3>3 DEF Element
  <2>3. SendsParents(up[w], par) /\ SendsParents(down[w], par)
    BY DEF Lists
  <2> QED
    BY <1>1, <2>2, <2>3 DEF SendsParents
<1>7. ASSUME NEW w \in Users, task[w].to # <<>>
      PROVE  SendsParents(<<task[w].element>>, new)
  <2> DEFINE m == task[w].element
  <2>1. m \in Element /\ m.id \in Range(order)
    BY <1>7 DEF CInv, Delivered
  <2>2. SendsParents(<<m>>, par)
    BY <1>7 DEF Lists
  <2> HIDE DEF m
  <2>3. m.id \in Ids /\ m.id # id
    BY <1>2, <1>3, <2>1
  <2>4. Len(<<m>>) = 1 /\ <<m>>[1] = m
    OBVIOUS
  <2>5. SendsParents(<<m>>, new)
    BY <1>1, <2>2, <2>3, <2>4 DEF SendsParents
  <2> QED
    BY <2>5 DEF m
<1> QED
  BY <1>1, <1>4, <1>5, <1>6, <1>7 DEF Lists

\* A user types or deletes.
LEMMA EditLists ==
    ASSUME Len(Joined) = 2, CInv, NEW par, Lists(par), NEW u \in Users, NEW m, NEW d, Edited(u, m, d),
           ~m.deleted => m.prev = par[m.id], NEW t, Shows(d, t), Canonical(t, par)
    PROVE  Lists(par)'
<1> DEFINE v == Peer(u)
<1>1. v \in Users /\ v # u /\ Peer(v) = u /\ Users = {u, v}
  BY TwoUsers
<1>2. /\ m \in Element
      /\ doc'[u] = d /\ doc'[v] = doc[v] /\ up'[u] = Append(up[u], m) /\ up'[v] = up[v]
      /\ down' = down /\ order' = order /\ task' = task
  BY <1>1 DEF Edited
<1>3. SendsParents(<<m>>, par)
  <2>1. Len(<<m>>) = 1 /\ <<m>>[1] = m
    OBVIOUS
  <2> QED
    BY <2>1 DEF SendsParents
<1>4. SendsParents(up'[u], par)
  <2>1. up[u] \in Seq(Element) /\ SendsParents(up[u], par)
    BY FlowTypes DEF Lists
  <2> QED
    BY <1>2, <1>3, <2>1, SendsAppended
<1> QED
  BY <1>1, <1>2, <1>4 DEF Lists

\* A browser handles a message.
LEMMA ReceiveLists ==
    ASSUME Len(Joined) = 2, CInv, NEW par, Lists(par), NEW u \in Users, NEW m, Received(u, m),
           Need(m) \in Known(doc[u])
    PROVE  Lists(par)'
<1> DEFINE v == Peer(u)
           d == Handled(doc[u], m)
<1>1. v \in Users /\ v # u /\ Peer(v) = u /\ Users = {u, v}
  BY TwoUsers
<1>2. /\ m \in Element /\ down[u] # <<>> /\ m = Head(down[u])
      /\ doc'[u] = d /\ doc'[v] = doc[v] /\ down'[u] = Tail(down[u]) /\ down'[v] = down[v]
      /\ up' = up /\ order' = order /\ task' = task
  BY <1>1 DEF Received
<1>3. SendsParents(down'[u], par) /\ (~m.deleted => m.prev = par[m.id])
  <2>1. SendsParents(down[u], par) /\ down[u] \in Seq(Element)
    BY FlowTypes DEF Lists
  <2> QED
    BY <1>2, <2>1, SendsHead
<1>4. PICK s : Shows(doc[u], s) /\ Canonical(s, par)
  BY DEF Lists
<1>5. DocTypes(doc[u]) /\ m.id \in Ids
  BY <1>2, FlowTypes DEF Element
<1>6. \E t : Shows(d, t) /\ Canonical(t, par)
  <2>1. CASE m.deleted
    <3>1. d = Hide(doc[u], m.id)
      BY <2>1 DEF Handled, RemoteDelete, Need
    <3> QED
      BY <1>4, <1>5, <3>1, HideList
  <2>2. CASE ~m.deleted /\ m.id \in Known(doc[u])
    <3>1. d = doc[u]
      BY <2>2 DEF Handled, RemoteInput
    <3> QED
      BY <1>4, <3>1
  <2>3. CASE ~m.deleted /\ m.id \notin Known(doc[u])
    <3>1. d = RemoteInput(doc[u], m.id, m.prev) /\ m.prev \in Known(doc[u])
      BY <2>3 DEF Handled, Need
    <3> QED
      BY <1>3, <1>4, <1>5, <2>3, <3>1, PlacedRemote
  <2> QED
    BY <2>1, <2>2, <2>3
<1> HIDE DEF d
<1> QED
  BY <1>1, <1>2, <1>3, <1>6 DEF Lists

\* The worker handles a message.
LEMMA ProcessLists ==
    ASSUME Len(Joined) = 2, SameOrder, CInv, Flow, NEW par, Lists(par), NEW v \in Users, NEW m,
           Processed(v, m), Need(m) \in Range(order)
    PROVE  Lists(par)'
<1> DEFINE u == Peer(v)
<1>1. u \in Users /\ v # u /\ Peer(u) = v /\ Users = {v, u}
  BY TwoUsers
<1>2. /\ m \in Element /\ up[v] # <<>> /\ m = Head(up[v])
      /\ up'[v] = Tail(up[v]) /\ up'[u] = up[u] /\ task'[u] = task[u]
      /\ doc' = doc /\ down' = down
      /\ task'[v].to # <<>> => task'[v].element = m
  BY <1>1 DEF Processed
<1>3. up[v] \in Seq(Element) /\ order \in Seq(Ids)
  BY FlowTypes DEF CInv, Shape
<1>4. SendsParents(up'[v], par) /\ (~m.deleted => m.prev = par[m.id])
  <2>1. SendsParents(up[v], par)
    BY DEF Lists
  <2> QED
    BY <1>2, <1>3, <2>1, SendsHead
<1>5. SendsParents(<<m>>, par)
  <2>1. Len(<<m>>) = 1 /\ <<m>>[1] = m
    OBVIOUS
  <2> QED
    BY <1>4, <2>1 DEF SendsParents
<1>6. Canonical(order', par)
  <2>1. CASE order' = order
    BY <2>1 DEF Lists
  <2>2. CASE ~m.deleted /\ m.id \notin Range(order) /\ AddToSession(m)
    <3>1. m.id \in Ids /\ m.prev = par[m.id] /\ m.prev \in Range(order)
      BY <1>2, <1>4, <2>2 DEF Element, Need
    <3>2. m.prev # NIL
      BY <1>3, <3>1, CollabAssumption DEF Range
    <3>3. List!InsertAfter(m.id, m.prev)
      BY <2>2, <3>2 DEF AddToSession
    <3>4. m.id \in Inserts(up[v])
      <4>1. Inserts(up[v]) = Inserts(Tail(up[v])) \cup (IF m.deleted THEN {} ELSE {m.id})
        BY <1>2, <1>3, QueueHead
      <4> QED
        BY <2>2, <4>1
    <3>5. m.id[2] = v /\ Before(By(v, Range(order)), {m.id})
      <4>1. /\ \A x \in Inserts(up[v]) : x[2] = v
            /\ Before(By(v, Range(order)), Inserts(up[v]))
        BY DEF Flow, Stream, Chain
      <4> QED
        BY <3>4, <4>1 DEF Before
    <3> QED
      BY <1>3, <2>2, <3>1, <3>3, <3>5, PlacedAfter DEF Lists
  <2> QED
    BY <2>1, <2>2 DEF Processed
<1>7. task'[v].to # <<>> => SendsParents(<<task'[v].element>>, par)
  BY <1>2, <1>5
<1> QED
  BY <1>1, <1>2, <1>4, <1>6, <1>7 DEF Lists

\* The worker sends it on.
LEMMA PassLists ==
    ASSUME Len(Joined) = 2, CInv, NEW par, Lists(par), NEW v \in Users, NEW m, Passed(v, m)
    PROVE  Lists(par)'
<1> DEFINE u == Peer(v)
<1>1. u \in Users /\ v # u /\ Peer(u) = v /\ Users = {v, u}
  BY TwoUsers
<1>2. /\ m \in Element /\ task[v].to = <<u>> /\ m = task[v].element
      /\ down'[u] = Append(down[u], m) /\ down'[v] = down[v] /\ task'[v].to = <<>> /\ task'[u] = task[u]
      /\ doc' = doc /\ up' = up /\ order' = order
  BY DEF Passed
<1>3. SendsParents(<<m>>, par)
  <2>1. <<u>> # <<>>
    OBVIOUS
  <2> QED
    BY <1>2, <2>1 DEF Lists
<1>4. SendsParents(down'[u], par)
  <2>1. down[u] \in Seq(Element) /\ SendsParents(down[u], par)
    BY <1>1, FlowTypes DEF Lists
  <2> QED
    BY <1>2, <1>3, <2>1, SendsAppended
<1> QED
  BY <1>1, <1>2, <1>4 DEF Lists

\* The session starts with what the first user typed, each behind the last.
LEMMA InitLists ==
    ASSUME Len(Joined) = 2, Init
    PROVE  \E par \in [Ids -> Ids \cup {NIL}] : Lists(par)
<1> DEFINE a == Joined[1]
           Parent(id) == IF \E x \in Ids : x[1] + 1 = id[1] /\ x[2] = id[2]
                         THEN CHOOSE x \in Ids : x[1] + 1 = id[1] /\ x[2] = id[2] ELSE NIL
           par == [id \in Ids |-> Parent(id)]
<1>1. par \in [Ids -> Ids \cup {NIL}]
  <2>1. ASSUME NEW id \in Ids PROVE Parent(id) \in Ids \cup {NIL}
    OBVIOUS
  <2> HIDE DEF Parent
  <2> QED
    BY <2>1
<1>2. /\ Opened \in Seq(Ids) /\ IsInjective(Opened) /\ Len(Opened) = Opening /\ Opening \in Nat
      /\ \A i \in 1..Opening : Opened[i] = <<i - 1, a>> /\ <<i - 1, a>> \in Ids
  <2>1. Opened \in Seq(Ids) /\ IsInjective(Opened) /\ Len(Opened) = Opening /\ Opening \in Nat
    BY OpenedFacts, CollabAssumption
  <2>2. \A i \in 1..Opening : Opened[i] = <<i - 1, a>>
    BY DEF Opened
  <2>3. \A i \in 1..Opening : Opened[i] \in Ids
    BY <2>1
  <2> QED
    BY <2>1, <2>2, <2>3
<1>3. \A x \in Ids : x = <<x[1], x[2]>> /\ x[1] \in Nat
  BY CollabAssumption DEF Ids
<1>4. ASSUME NEW i \in 1..Opening PROVE At(Opened, i - 1) = par[<<i - 1, a>>]
  <2>0. i \in Nat /\ <<i - 1, a>> \in Ids
    BY <1>2
  <2>1. CASE i = 1
    <3>1. ~\E x \in Ids : x[1] + 1 = <<i - 1, a>>[1] /\ x[2] = <<i - 1, a>>[2]
      BY <1>3, <2>1
    <3>2. Parent(<<i - 1, a>>) = NIL
      BY <3>1
    <3> HIDE DEF Parent
    <3>3. par[<<i - 1, a>>] = NIL
      BY <2>0, <3>2
    <3> HIDE DEF par
    <3> QED
      BY <2>1, <3>3 DEF At
  <2>2. CASE i # 1
    <3>1. i - 1 \in 1..Opening /\ Opened[i - 1] = <<i - 2, a>> /\ <<i - 2, a>> \in Ids
      BY <1>2, <2>0, <2>2
    <3>2. \A x \in Ids : (x[1] + 1 = <<i - 1, a>>[1] /\ x[2] = <<i - 1, a>>[2]) => x = <<i - 2, a>>
      BY <1>3, <2>0
    <3>3. <<i - 2, a>>[1] + 1 = <<i - 1, a>>[1] /\ <<i - 2, a>>[2] = <<i - 1, a>>[2]
      BY <2>0
    <3>4. Parent(<<i - 1, a>>) = <<i - 2, a>>
      BY <3>1, <3>2, <3>3
    <3> HIDE DEF Parent
    <3>5. par[<<i - 1, a>>] = <<i - 2, a>>
      BY <2>0, <3>4
    <3> HIDE DEF par
    <3> QED
      BY <1>2, <3>1, <3>5 DEF At
  <2> QED
    BY <2>1, <2>2
<1> HIDE DEF par
<1>5. Canonical(Opened, par)
  <2>1. ASSUME NEW i \in 1..Opening
        PROVE  \E p \in 0..(i - 1) : At(Opened, p) = par[Opened[i]]
                                     /\ \A j \in (p + 1)..(i - 1) : IsLess(Opened[i], Opened[j])
    <3>0. i - 1 \in 0..(i - 1)
      BY <1>2
    <3>1. Opened[i] = <<i - 1, a>>
      BY <1>2
    <3>2. At(Opened, i - 1) = par[Opened[i]]
      BY <1>4, <3>1
    <3>3. \A j \in ((i - 1) + 1)..(i - 1) : FALSE
      OBVIOUS
    <3> QED
      BY <3>0, <3>2, <3>3
  <2> QED
    BY <1>2, <2>1 DEF Canonical
<1>6. Shows(Loaded(Opened), Opened)
  BY <1>2, LoadedFacts
<1>7. \A w \in Users : /\ up[w] = <<>> /\ down[w] = <<>> /\ task[w].to = <<>> /\ doc[w] = Loaded(Opened)
  BY DEF Init, NoTask
<1>8. SendsParents(<<>>, par) /\ order = Opened
  BY DEF SendsParents, Init
<1>9. Lists(par)
  BY <1>5, <1>6, <1>7, <1>8 DEF Lists
<1> QED
  BY <1>1, <1>9

-----------------------------------------------------------------------------
(***************************************************************************)
(* What one user types reaches the other in its order, and is counted.     *)
(***************************************************************************)
FlowInv == CInv /\ Flow /\ Counted

LEMMA NextFlow == Len(Joined) = 2 /\ FlowInv /\ [Next]_vars => FlowInv'
<1> SUFFICES ASSUME Len(Joined) = 2, CInv, Flow, Counted, [Next]_vars PROVE Flow' /\ Counted'
  BY NextCInv DEF FlowInv
<1>0. CInv'
  BY NextCInv
<1>1. ASSUME NEW u \in Users, NEW ch \in 0..Len(doc[u].text), Type(u, ch) PROVE Flow' /\ Counted'
  <2> DEFINE d == LocalInput(doc[u], u, ch)
  <2>1. PICK m : /\ Edited(u, m, d) /\ ~m.deleted
                 /\ m.id \notin Known(doc[u]) /\ m.id[1] = doc[u].length /\ m.id[2] = u
                 /\ d.length = doc[u].length + 1
    BY <1>1, TypeFacts
  <2> HIDE DEF d
  <2>2. Flow'
    BY <2>1, EditFlow
  <2>3. Counted'
    BY <1>0, <2>1, EditCounted
  <2> QED
    BY <2>2, <2>3
<1>2. ASSUME NEW u \in Users, NEW ch \in 1..Len(doc[u].text), Erase(u, ch) PROVE Flow' /\ Counted'
  <2>1. PICK m : /\ Edited(u, m, Hide(doc[u], m.id)) /\ m.deleted /\ m.id \in Known(doc[u])
                 /\ Hide(doc[u], m.id).length = doc[u].length
    BY <1>2, EraseFacts
  <2> DEFINE d == Hide(doc[u], m.id)
  <2>2. Edited(u, m, d) /\ d.length = doc[u].length
    BY <2>1
  <2> HIDE DEF d
  <2>3. Flow'
    BY <2>1, <2>2, EditFlow
  <2>4. Counted'
    BY <1>0, <2>1, <2>2, EditCounted
  <2> QED
    BY <2>3, <2>4
<1>3. ASSUME NEW u \in Users, Arrive(u) PROVE Flow' /\ Counted'
  BY <1>3, ArriveFacts, ReceiveFlow, ReceiveCounted
<1>4. ASSUME NEW u \in Users, Process(u) PROVE Flow' /\ Counted'
  <2>1. PICK m : Processed(u, m)
    BY <1>4, ProcessFacts
  <2>2. Counted'
    BY <2>1, SameCounted DEF Processed
  <2> QED
    BY <2>1, <2>2, ProcessFlow
<1>5. ASSUME NEW u \in Users, Broadcast(u) PROVE Flow' /\ Counted'
  <2>1. PICK m : Passed(u, m)
    BY <1>5, BroadcastFacts
  <2>2. Counted'
    BY <2>1, SameCounted DEF Passed
  <2> QED
    BY <2>1, <2>2, PassFlow
<1>6. CASE UNCHANGED vars
  <2>1. doc' = doc /\ up' = up /\ down' = down /\ order' = order /\ task' = task
    BY <1>6 DEF vars, workerVars
  <2>2. \A v \in Users : TaskInserts(v)' = TaskInserts(v)
    BY <2>1 DEF TaskInserts
  <2>3. Flow'
    BY <2>1, <2>2 DEF Flow, Stream
  <2> QED
    BY <2>1, <2>3, SameCounted
<1> QED
  BY <1>1, <1>2, <1>3, <1>4, <1>5, <1>6 DEF Next

LEMMA AlwaysFlow ==
    ASSUME Len(Joined) = 2
    PROVE  Spec => []FlowInv
<1>1. Init => FlowInv
  BY InitCInv, InitFlow, InitCounted DEF FlowInv
<1>2. FlowInv /\ [Next]_vars => FlowInv'
  BY NextFlow
<1> QED
  BY <1>1, <1>2, PTL DEF Spec

\* With two users the types are right, the editor shows the list, and the
\* number of a new element is greater than all its author has seen: the count
\* of elements (getNewID) serves as a clock.
THEOREM SpecCollabInv ==
    ASSUME Len(Joined) = 2, Openers = {} \/ Deleters = {}
    PROVE  Spec => []CollabInv
<1>1. FlowInv => NewestNumber
  BY CountedNewest DEF FlowInv
<1>2. TypeOK /\ EditorShowsList /\ NewestNumber => CollabInv
  BY DEF CollabInv
<1>3. Spec => []EditorShowsList
  BY SpecEditorShowsList
<1> QED
  BY <1>1, <1>2, <1>3, AlwaysFlow, SpecTypeOK, PTL

-----------------------------------------------------------------------------
(***************************************************************************)
(* The lists stay the same.                                                *)
(***************************************************************************)
SameLists == \E par \in [Ids -> Ids \cup {NIL}] : Lists(par)

ConvInv == Flow /\ Counted /\ Prepared /\ Deleted /\ SameLists

LEMMA TypeConv ==
    ASSUME Len(Joined) = 2, Openers = {}, CInv, ConvInv,
           NEW u \in Users, NEW ch \in 0..Len(doc[u].text), Type(u, ch)
    PROVE  Prepared' /\ Deleted' /\ SameLists'
<1> DEFINE d == LocalInput(doc[u], u, ch)
<1>1. PICK m : /\ Edited(u, m, d) /\ ~m.deleted
               /\ m.id = NewID(doc[u], u) /\ m.prev = Preceding(doc[u], ch)
               /\ m.id \notin Known(doc[u]) /\ m.id[1] = doc[u].length /\ m.id[2] = u
               /\ d.dead = doc[u].dead
  BY TypeFacts
<1>2. Flow /\ Counted /\ Prepared /\ Deleted /\ m \in Element /\ DocTypes(doc[u])
  BY <1>1, FlowTypes DEF ConvInv, Edited
<1>3. ch # 0
  BY DEF Type
<1>4. ch \in 1..Len(doc[u].text) /\ Preceding(doc[u], ch) = doc[u].text[ch]
  BY <1>2, <1>3, TextFacts DEF Preceding
<1>5. m.prev \in Known(doc[u]) /\ m.id \in Ids /\ m.prev \in Ids \cup {NIL} /\ Need(m) = m.prev
  BY <1>1, <1>2, <1>4, TextFacts DEF Element, Need
<1>6. Prepared'
  <2> HIDE DEF d
  <2> QED
    BY <1>1, <1>2, <1>5, EditPrepared
<1>7. Deleted'
  <2> HIDE DEF d
  <2>1. d.dead = doc[u].dead \cup (IF m.deleted THEN {m.id} ELSE {})
    BY <1>1
  <2> QED
    BY <1>1, <1>2, <2>1, EditDeleted
<1>8. PICK par \in [Ids -> Ids \cup {NIL}] : Lists(par)
  BY DEF ConvInv, SameLists
<1> DEFINE new == [par EXCEPT ![m.id] = m.prev]
<1>9. new \in [Ids -> Ids \cup {NIL}] /\ new[m.id] = m.prev /\ \A x \in Ids : x # m.id => new[x] = par[x]
  BY <1>5
<1> HIDE DEF new
<1>10. Lists(new)
  BY <1>1, <1>5, <1>8, <1>9, ParentChosen
<1>11. PICK s : Shows(doc[u], s) /\ Canonical(s, new)
  BY <1>10 DEF Lists
<1>12. \A x \in Known(doc[u]) : x[1] < doc[u].length
  BY <1>2, CountedNewest DEF NewestNumber
<1>13. PICK t : Shows(d, t) /\ Canonical(t, new)
  <2>1. NewID(doc[u], u) \in Ids /\ new[NewID(doc[u], u)] = Preceding(doc[u], ch)
    BY <1>1, <1>5, <1>9
  <2> QED
    BY <1>2, <1>4, <1>11, <1>12, <2>1, PlacedLocal
<1>14. Lists(new)'
  <2> HIDE DEF d
  <2> QED
    BY <1>1, <1>9, <1>10, <1>13, EditLists
<1> QED
  BY <1>6, <1>7, <1>9, <1>14 DEF SameLists

LEMMA EraseConv ==
    ASSUME Len(Joined) = 2, CInv, ConvInv, NEW u \in Users, NEW ch \in 1..Len(doc[u].text), Erase(u, ch)
    PROVE  Prepared' /\ Deleted' /\ SameLists'
<1>1. PICK m : /\ Edited(u, m, Hide(doc[u], m.id)) /\ m.deleted /\ m.id \in Known(doc[u])
               /\ Hide(doc[u], m.id).dead = doc[u].dead \cup {m.id}
  BY EraseFacts
<1> DEFINE d == Hide(doc[u], m.id)
<1>2. Prepared /\ Deleted /\ DocTypes(doc[u]) /\ Need(m) \in Known(doc[u])
  BY <1>1, FlowTypes DEF ConvInv, Need
<1>3. PICK par \in [Ids -> Ids \cup {NIL}] : Lists(par)
  BY DEF ConvInv, SameLists
<1>4. PICK s : Shows(doc[u], s) /\ Canonical(s, par)
  BY <1>3 DEF Lists
<1>5. Shows(d, s)
  BY <1>2, <1>4, HideList
<1>6. Edited(u, m, d) /\ d.dead = doc[u].dead \cup (IF m.deleted THEN {m.id} ELSE {})
  BY <1>1
<1> HIDE DEF d
<1>7. Prepared'
  BY <1>2, <1>6, EditPrepared
<1>8. Deleted'
  BY <1>2, <1>6, EditDeleted
<1>9. Lists(par)'
  BY <1>1, <1>3, <1>4, <1>5, <1>6, EditLists
<1> QED
  BY <1>3, <1>7, <1>8, <1>9 DEF SameLists

LEMMA ArriveConv ==
    ASSUME Len(Joined) = 2, CInv, ConvInv, NEW u \in Users, Arrive(u)
    PROVE  Prepared' /\ Deleted' /\ SameLists'
<1>1. PICK m : Received(u, m)
  BY ArriveFacts
<1>2. Prepared /\ Deleted
  BY DEF ConvInv
<1>3. Prepared' /\ Need(m) \in Known(doc[u])
  BY <1>1, <1>2, ReceivePrepared
<1>4. Deleted'
  BY <1>1, <1>2, <1>3, ReceiveDeleted
<1>5. PICK par \in [Ids -> Ids \cup {NIL}] : Lists(par)
  BY DEF ConvInv, SameLists
<1>6. Lists(par)'
  BY <1>1, <1>3, <1>5, ReceiveLists
<1> QED
  BY <1>3, <1>4, <1>5, <1>6 DEF SameLists

LEMMA ProcessConv ==
    ASSUME Len(Joined) = 2, SameOrder, CInv, ConvInv, NEW v \in Users, Process(v)
    PROVE  Prepared' /\ Deleted' /\ SameLists'
<1>1. Flow /\ Prepared /\ Deleted
  BY DEF ConvInv
<1>2. PICK m : Processed(v, m)
  BY <1>1, ProcessFacts
<1>3. Prepared' /\ Need(m) \in Range(order)
  BY <1>1, <1>2, ProcessPrepared
<1>4. Deleted'
  BY <1>1, <1>2, <1>3, ProcessDeleted
<1>5. PICK par \in [Ids -> Ids \cup {NIL}] : Lists(par)
  BY DEF ConvInv, SameLists
<1>6. Lists(par)'
  BY <1>1, <1>2, <1>3, <1>5, ProcessLists
<1> QED
  BY <1>3, <1>4, <1>5, <1>6 DEF SameLists

LEMMA BroadcastConv ==
    ASSUME Len(Joined) = 2, CInv, ConvInv, NEW v \in Users, Broadcast(v)
    PROVE  Prepared' /\ Deleted' /\ SameLists'
<1>1. Flow /\ Prepared /\ Deleted
  BY DEF ConvInv
<1>2. PICK m : Passed(v, m)
  BY <1>1, BroadcastFacts
<1>3. Prepared'
  BY <1>1, <1>2, PassPrepared
<1>4. Deleted'
  BY <1>1, <1>2, PassDeleted
<1>5. PICK par \in [Ids -> Ids \cup {NIL}] : Lists(par)
  BY DEF ConvInv, SameLists
<1>6. Lists(par)'
  BY <1>2, <1>5, PassLists
<1> QED
  BY <1>3, <1>4, <1>5, <1>6 DEF SameLists

LEMMA SameConv ==
    ASSUME ConvInv, UNCHANGED vars
    PROVE  Prepared' /\ Deleted' /\ SameLists'
<1>1. doc' = doc /\ up' = up /\ down' = down /\ order' = order /\ task' = task /\ dead' = dead
  BY DEF vars, workerVars
<1>2. \A v \in Users : TaskDeletes(v)' = TaskDeletes(v)
  BY <1>1 DEF TaskDeletes
<1>3. Prepared'
  BY <1>1 DEF ConvInv, Prepared
<1>4. Deleted'
  <2>1. Deleted
    BY DEF ConvInv
  <2>2. \A v \in Users : TaskDeletes(Peer(v))' = TaskDeletes(Peer(v))
    BY <1>1 DEF TaskDeletes
  <2> QED
    BY <1>1, <1>2, <2>1, <2>2 DEF Deleted
<1>5. PICK par \in [Ids -> Ids \cup {NIL}] : Lists(par)
  BY DEF ConvInv, SameLists
<1>6. Lists(par)'
  BY <1>1, <1>5 DEF Lists
<1> QED
  BY <1>3, <1>4, <1>5, <1>6 DEF SameLists

\* Everything has arrived: the lists have the same elements, the same of them
\* are deleted, and so the lists and the texts are the same.
LEMMA QuietSame ==
    ASSUME Len(Joined) = 2, CInv, ConvInv
    PROVE  Converged
<1> SUFFICES ASSUME Quiet, NEW u \in Users PROVE doc[u].text = WorkerText
  BY DEF Converged
<1> DEFINE v == Peer(u)
<1>1. v \in Users /\ v # u /\ Peer(v) = u /\ Users = {u, v}
  BY TwoUsers
<1>2. /\ up[u] = <<>> /\ down[u] = <<>> /\ task[v].to = <<>> /\ order \in Seq(Ids) /\ IsInjective(order)
  BY <1>1 DEF Quiet, CInv, Shape
<1>3. Known(doc[u]) = Range(order)
  <2>1. \A x \in Known(doc[u]) : x \in Range(order)
    <3>1. ~\E j \in 1..Len(<<>>) : TRUE
      OBVIOUS
    <3> QED
      BY <1>2, <3>1 DEF CInv, OnTheWay, IsSent
  <2>2. ASSUME NEW x \in Range(order) PROVE x \in Known(doc[u])
    <3>1. x[2] \in Users /\ x \in Known(doc[x[2]])
      BY DEF CInv, Numbered
    <3>2. CASE x[2] = v
      <4>1. x \in By(v, Range(order))
        BY <3>2 DEF By
      <4>2. By(v, Range(order)) \subseteq Known(doc[u]) \cup Inserts(down[u]) \cup TaskInserts(v)
        BY <1>1 DEF ConvInv, Flow, Stream, Chain
      <4>3. Inserts(down[u]) = {} /\ TaskInserts(v) = {}
        BY <1>2 DEF Inserts, TaskInserts
      <4> QED
        BY <4>1, <4>2, <4>3
    <3> QED
      BY <1>1, <3>1, <3>2
  <2> QED
    BY <2>1, <2>2
<1>4. doc[u].dead = dead
  <2>1. Deletes(up[u]) = {} /\ Deletes(down[u]) = {} /\ TaskDeletes(v) = {}
    BY <1>2 DEF Deletes, TaskDeletes
  <2>2. /\ doc[u].dead \subseteq dead \cup Deletes(up[u])
        /\ dead \subseteq doc[u].dead \cup TaskDeletes(v) \cup Deletes(down[u])
    BY DEF ConvInv, Deleted
  <2> QED
    BY <2>1, <2>2
<1>5. PICK par : Lists(par)
  BY DEF ConvInv, SameLists
<1>6. PICK s : Shows(doc[u], s) /\ Canonical(s, par)
  BY <1>5 DEF Lists
<1>7. s \in Seq(Ids) /\ IsInjective(s) /\ Range(s) = Range(order) /\ Selects(doc[u].text, s, Ids \ dead)
  BY <1>3, <1>4, <1>6 DEF Shows, ListOf
<1>8. s = order
  BY <1>2, <1>5, <1>6, <1>7, CanonicalUnique DEF Lists
<1>9. Selects(WorkerText, order, Ids \ dead)
  BY <1>2, VisibleSelects DEF WorkerText
<1> QED
  BY <1>2, <1>7, <1>8, <1>9, SelectionUnique

\* The text of an id with a number of one digit.
LEMMA OneThenTwo ==
    ASSUME NEW n \in Nat, NEW k \in Nat, NEW t, t = <<n>> \o <<10, k>>
    PROVE  Len(t) = 3 /\ t[1] = n /\ t[2] = 10 /\ t[3] = k
<1> DEFINE a == <<n>>
           b == <<10, k>>
<1>1. a \in Seq(Nat) /\ Len(a) = 1 /\ a[1] = n /\ b \in Seq(Nat) /\ Len(b) = 2 /\ b[1] = 10 /\ b[2] = k
  OBVIOUS
<1>2. t = a \o b
  OBVIOUS
<1> HIDE DEF a, b
<1>3. /\ Len(t) = Len(a) + Len(b)
      /\ \A i \in 1..(Len(a) + Len(b)) : t[i] = IF i <= Len(a) THEN a[i] ELSE b[i - Len(a)]
  <2>1. a \in Seq(Nat)
    BY <1>1
  <2>2. b \in Seq(Nat)
    BY <1>1
  <2>3. /\ Len(a \o b) = Len(a) + Len(b)
        /\ \A i \in 1..(Len(a) + Len(b)) : (a \o b)[i] = IF i <= Len(a) THEN a[i] ELSE b[i - Len(a)]
    BY <2>1, <2>2, ConcatProperties, Zenon
  <2> QED
    BY <1>2, <2>3
<1>4. Len(t) = 3 /\ \A i \in 1..3 : t[i] = IF i <= 1 THEN a[i] ELSE b[i - 1]
  BY <1>1, <1>3
<1>5. 2 - 1 = 1 /\ 3 - 1 = 2 /\ 1 \in 1..3 /\ 2 \in 1..3 /\ 3 \in 1..3
  OBVIOUS
<1> QED
  BY <1>1, <1>4, <1>5

\* Numbers of one digit are in the same order as strings.
LEMMA OneDigit == MaxNumber <= 9 => SameOrder
<1> SUFFICES ASSUME MaxNumber <= 9, NEW x \in Ids, NEW y \in Ids
             PROVE  <<x, y>> \in IdGreater <=> IsLess(y, x)
  BY DEF SameOrder
<1>1. \A z \in Ids : z[1] \in Nat /\ z[2] \in Nat /\ z[1] < 10
  BY CollabAssumption DEF Ids, Users, Range
<1>2. ASSUME NEW z \in Ids
      PROVE  Len(Text(z)) = 3 /\ Text(z)[1] = z[1] /\ Text(z)[2] = 10 /\ Text(z)[3] = 10 + z[2]
  <2>1. Text(z) = <<z[1]>> \o <<10, 10 + z[2]>>
    BY <1>1 DEF Text
  <2>2. z[1] \in Nat /\ 10 + z[2] \in Nat
    BY <1>1
  <2> QED
    BY <2>1, <2>2, OneThenTwo
<1>3. <<x, y>> \in IdGreater <=> StringLess(Text(y), Text(x))
  BY DEF IdGreater
<1> DEFINE s == Text(y)
           t == Text(x)
<1>4. /\ Len(s) = 3 /\ s[1] = y[1] /\ s[2] = 10 /\ s[3] = 10 + y[2]
      /\ Len(t) = 3 /\ t[1] = x[1] /\ t[2] = 10 /\ t[3] = 10 + x[2]
  BY <1>2
<1> HIDE DEF s, t
<1>5. StringLess(s, t) => IsLess(y, x)
  <2> SUFFICES ASSUME StringLess(s, t) PROVE IsLess(y, x)
    OBVIOUS
  <2>1. PICK i \in 1..3 : (\A j \in 1..(i - 1) : s[j] = t[j]) /\ s[i] < t[i]
    BY <1>4 DEF StringLess
  <2>2. CASE i = 1
    BY <1>1, <1>4, <2>1, <2>2 DEF IsLess
  <2>3. CASE i = 2
    BY <1>4, <2>1, <2>3
  <2>4. CASE i = 3
    <3>1. s[1] = t[1]
      BY <2>1, <2>4
    <3> QED
      BY <1>1, <1>4, <2>1, <2>4, <3>1 DEF IsLess
  <2> QED
    BY <2>2, <2>3, <2>4
<1>6. IsLess(y, x) => StringLess(s, t)
  <2>1. CASE y[1] < x[1]
    <3>1. 1 \in 1..Len(t) /\ (\A j \in 1..(1 - 1) : j <= Len(s) /\ s[j] = t[j]) /\ s[1] < t[1]
      BY <1>4, <2>1
    <3> QED
      BY <3>1 DEF StringLess
  <2>2. CASE y[1] = x[1] /\ y[2] < x[2]
    <3>1. 3 \in 1..Len(t) /\ (\A j \in 1..(3 - 1) : j <= Len(s) /\ s[j] = t[j]) /\ s[3] < t[3]
      <4>1. \A j \in 1..(3 - 1) : j = 1 \/ j = 2
        OBVIOUS
      <4> QED
        BY <1>1, <1>4, <2>2, <4>1
    <3> QED
      BY <3>1 DEF StringLess
  <2> QED
    BY <2>1, <2>2 DEF IsLess
<1> QED
  BY <1>3, <1>5, <1>6 DEF s, t

\* Two users who do not type at the very start of the text end up with the
\* same text, the one of the worker, as long as element numbers have one digit:
\* whatever they type behind each other's elements and delete, and however
\* messages overtake each other on their ways through the worker.
THEOREM SpecConverged ==
    ASSUME Len(Joined) = 2, Openers = {}, MaxNumber <= 9
    PROVE  Spec => []Converged
<1>1. Init => ConvInv
  <2> SUFFICES ASSUME Init PROVE ConvInv
    OBVIOUS
  <2>1. Flow /\ Counted
    BY InitFlow, InitCounted
  <2>2. Prepared /\ Deleted
    BY InitPrepared
  <2> QED
    BY <2>1, <2>2, InitLists DEF ConvInv, SameLists
<1>2. CInv /\ ConvInv /\ [Next]_vars => ConvInv'
  <2> SUFFICES ASSUME CInv, ConvInv, [Next]_vars PROVE ConvInv'
    OBVIOUS
  <2>1. Flow' /\ Counted'
    <3>1. FlowInv
      BY DEF ConvInv, FlowInv
    <3> QED
      BY <3>1, NextFlow DEF FlowInv
  <2>2. Prepared' /\ Deleted' /\ SameLists'
    <3>1. ASSUME NEW u \in Users, NEW ch \in 0..Len(doc[u].text), Type(u, ch)
          PROVE  Prepared' /\ Deleted' /\ SameLists'
      BY <3>1, TypeConv
    <3>2. ASSUME NEW u \in Users, NEW ch \in 1..Len(doc[u].text), Erase(u, ch)
          PROVE  Prepared' /\ Deleted' /\ SameLists'
      BY <3>2, EraseConv
    <3>3. ASSUME NEW u \in Users, Arrive(u) PROVE Prepared' /\ Deleted' /\ SameLists'
      BY <3>3, ArriveConv
    <3>4. ASSUME NEW u \in Users, Process(u) PROVE Prepared' /\ Deleted' /\ SameLists'
      BY <3>4, OneDigit, ProcessConv
    <3>5. ASSUME NEW u \in Users, Broadcast(u) PROVE Prepared' /\ Deleted' /\ SameLists'
      BY <3>5, BroadcastConv
    <3>6. CASE UNCHANGED vars
      BY <3>6, SameConv
    <3> QED
      BY <3>1, <3>2, <3>3, <3>4, <3>5, <3>6 DEF Next
  <2> QED
    BY <2>1, <2>2 DEF ConvInv
<1>3. CInv /\ ConvInv => Converged
  BY QuietSame
<1> QED
  BY <1>1, <1>2, <1>3, AlwaysCInv, PTL DEF Spec
=============================================================================
