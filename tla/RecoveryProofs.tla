--------------------------- MODULE RecoveryProofs ---------------------------
(***************************************************************************)
(* Proofs about Recovery, for any workers, any number of elements, broken  *)
(* connections, failed requests and workers that end, and whatever of      *)
(* Unruly happens: what the user has typed is in the cache of the page     *)
(* until two workers have it or one has been told that it is deleted.      *)
(* KeptInv says what may be in every queue between the page and the        *)
(* workers; each action has a lemma that it preserves its parts.           *)
(***************************************************************************)
EXTENDS Recovery, SequenceLemmas, TLAPS

Mine(k) == k[2] = Me

(***************************************************************************)
(* Documents: the list of elements and the text.                           *)
(***************************************************************************)
IsDoc(d) ==
    d = [next |-> d.next, prev |-> d.prev, head |-> d.head, dead |-> d.dead, text |-> d.text,
         length |-> d.length]

DocOK(d) ==
    /\ IsDoc(d) /\ IsFiniteSet(Known(d))
    /\ d.next \in [Known(d) -> Known(d) \cup {NIL}]
    /\ d.head \in Known(d) \cup {NIL}
    /\ d.text \in Seq(Known(d))

LEMMA PathIsWalk ==
    ASSUME NEW start, NEW step, NEW n \in Nat
    PROVE  IsWalk(Path(start, step, n), start, step, n)
<1>1. Path(start, step, n) = CHOOSE f : IsWalk(f, start, step, n)
  BY DEF Path, IsWalk
<1> QED
  BY <1>1, WalkExists, Zenon

\* IndexIn finds an element of a sequence, 0 when it is not there.
LEMMA IndexInFacts ==
    ASSUME NEW S, NEW t \in Seq(S), NEW x
    PROVE  /\ IndexIn(t, x) \in 0..Len(t)
           /\ IndexIn(t, x) # 0 => t[IndexIn(t, x)] = x
           /\ x \in Range(t) <=> IndexIn(t, x) # 0
<1>1. Len(t) \in Nat /\ DOMAIN t = 1..Len(t)
  OBVIOUS
<1>2. CASE x \in Range(t)
  <2>1. \E i \in 1..Len(t) : t[i] = x
    BY <1>1, <1>2 DEF Range
  <2>2. IndexIn(t, x) = CHOOSE i \in 1..Len(t) : t[i] = x
    BY <1>2 DEF IndexIn
  <2>3. IndexIn(t, x) \in 1..Len(t) /\ t[IndexIn(t, x)] = x
    BY <2>1, <2>2
  <2> QED
    BY <1>1, <1>2, <2>3
<1>3. CASE x \notin Range(t)
  BY <1>1, <1>3 DEF IndexIn
<1> QED
  BY <1>2, <1>3

\* handleRemoteInput goes on from element to element of the list.
LEMMA PlaceIsKnown ==
    ASSUME NEW d, DocOK(d), NEW id, NEW prev
    PROVE  ListPlace(d, id, prev) \in Known(d) \cup {NIL}
<1> DEFINE step == [k \in Known(d) |->
                       IF d.next[k] = NIL \/ IsLess(d.next[k], id) THEN k ELSE d.next[k]]
           n == Cardinality(Known(d))
<1>1. n \in Nat /\ n \in 0..n
  BY FS_CardinalityType DEF DocOK
<1>2. \A k \in Known(d) : step[k] \in Known(d)
  BY DEF IsLess, DocOK
<1>3. ListPlace(d, id, prev) = IF prev \in Known(d) THEN Path(prev, step, n)[n] ELSE NIL
  BY DEF ListPlace, WalkEnd
<1> HIDE DEF step, n
<1>4. prev \in Known(d) => Path(prev, step, n)[n] \in Known(d)
  BY <1>1, <1>2, PathIsWalk, WalkStays
<1> QED
  BY <1>3, <1>4

LEMMA TextPlaceRange ==
    ASSUME NEW d, DocOK(d), NEW place
    PROVE  TextPlace(d, place) \in 0..Len(d.text)
  BY IndexInFacts DEF TextPlace, DocOK

\* Inserting an element makes it known.
LEMMA InsertOK ==
    ASSUME NEW d, DocOK(d), NEW id, NEW place \in Known(d) \cup {NIL},
           NEW next \in Known(d) \cup {NIL}, NEW ch \in 0..Len(d.text)
    PROVE  /\ DocOK(Insert(d, id, place, next, ch))
           /\ Known(Insert(d, id, place, next, ch)) = Known(d) \cup {id}
<1> DEFINE new == Insert(d, id, place, next, ch)
<1>1. /\ Known(new) = Known(d) \cup {id}
      /\ new.next = [k \in Known(d) \cup {id} |->
                        IF k = id THEN next ELSE IF k = place THEN id ELSE d.next[k]]
      /\ new.head = IF place = NIL THEN id ELSE d.head
      /\ new.text = InsertAt(d.text, ch + 1, id)
      /\ IsDoc(new)
  BY DEF Insert, Known, IsDoc
<1> HIDE DEF new
<1>2. new.text \in Seq(Known(new))
  <2>1. d.text \in Seq(Known(new)) /\ id \in Known(new) /\ ch + 1 \in 1..(Len(d.text) + 1)
    BY <1>1 DEF DocOK
  <2>2. InsertAt(d.text, ch + 1, id) \in Seq(Known(new))
    BY <2>1, InsertAtElements
  <2> QED
    BY <1>1, <2>2
<1>3. new.next \in [Known(new) -> Known(new) \cup {NIL}] /\ new.head \in Known(new) \cup {NIL}
  BY <1>1 DEF DocOK
<1>4. IsFiniteSet(Known(new))
  BY <1>1, FS_AddElement DEF DocOK
<1>5. DocOK(new)
  BY <1>1, <1>2, <1>3, <1>4 DEF DocOK
<1> QED
  BY <1>1, <1>5 DEF new

\* What an insertion that has come in does to a list.
LEMMA RemoteInputOK ==
    ASSUME NEW d, DocOK(d), NEW id, NEW prev
    PROVE  DocOK(RemoteInput(d, id, prev)) /\ Known(RemoteInput(d, id, prev)) = Known(d) \cup {id}
<1> DEFINE place == ListPlace(d, id, prev)
           next == IF place # NIL THEN d.next[place] ELSE d.head
           ch == TextPlace(d, place)
           new == Insert(d, id, place, next, ch)
<1>1. RemoteInput(d, id, prev) = IF id \in Known(d) THEN d ELSE new
  BY DEF RemoteInput
<1>2. place \in Known(d) \cup {NIL} /\ ch \in 0..Len(d.text)
  BY PlaceIsKnown, TextPlaceRange
<1> HIDE DEF place, ch
<1>3. next \in Known(d) \cup {NIL}
  BY <1>2 DEF DocOK
<1> HIDE DEF next
<1>4. DocOK(new) /\ Known(new) = Known(d) \cup {id}
  BY <1>2, <1>3, InsertOK
<1> HIDE DEF new
<1> QED
  BY <1>1, <1>4

\* What is typed.
LEMMA LocalInputOK ==
    ASSUME NEW d, DocOK(d), NEW user, NEW ch \in 0..Len(d.text)
    PROVE  /\ DocOK(LocalInput(d, user, ch))
           /\ Known(LocalInput(d, user, ch)) = Known(d) \cup {NewID(d, user)}
<1> DEFINE prev == Preceding(d, ch)
           next == IF prev # NIL THEN d.next[prev]
                   ELSE IF d.text # <<>> THEN d.text[1] ELSE NIL
<1>1. LocalInput(d, user, ch) = Insert(d, NewID(d, user), prev, next, ch)
  BY DEF LocalInput
<1>2. prev \in Known(d) \cup {NIL}
  <2>1. ch # 0 => ch \in 1..Len(d.text)
    BY DEF DocOK
  <2> QED
    BY <2>1 DEF Preceding, DocOK
<1> HIDE DEF prev
<1>3. d.text # <<>> => d.text[1] \in Known(d)
  BY DEF DocOK
<1>4. next \in Known(d) \cup {NIL}
  BY <1>2, <1>3 DEF DocOK
<1> HIDE DEF next
<1> QED
  BY <1>1, <1>2, <1>4, InsertOK

\* What Hide changes.
LEMMA HideFields ==
    ASSUME NEW d, IsDoc(d), NEW id, NEW new, new = Hide(d, id)
    PROVE  /\ IsDoc(new) /\ Known(new) = Known(d)
           /\ new.next = d.next /\ new.prev = d.prev /\ new.head = d.head /\ new.length = d.length
           /\ new.dead = d.dead \cup {id}
           /\ new.text = IF id \in Range(d.text) THEN RemoveAt(d.text, IndexIn(d.text, id)) ELSE d.text
<1> DEFINE shorter == IF id \in Range(d.text) THEN RemoveAt(d.text, IndexIn(d.text, id)) ELSE d.text
           deleted == [next |-> d.next, prev |-> d.prev, head |-> d.head, dead |-> d.dead \cup {id},
                       text |-> d.text, length |-> d.length]
           hidden == [next |-> d.next, prev |-> d.prev, head |-> d.head, dead |-> d.dead \cup {id},
                      text |-> shorter, length |-> d.length]
<1>1. new = [[d EXCEPT !.dead = d.dead \cup {id}] EXCEPT !.text = shorter]
  BY DEF Hide
<1> HIDE DEF shorter
<1>2. [d EXCEPT !.dead = d.dead \cup {id}] = deleted
  BY DEF IsDoc
<1>3. [deleted EXCEPT !.text = shorter] = hidden
  OBVIOUS
<1>4. new = hidden
  BY <1>1, <1>2, <1>3
<1> QED
  BY <1>4 DEF IsDoc, Known, shorter

\* What is deleted stays known.
LEMMA HideOK ==
    ASSUME NEW d, DocOK(d), NEW id
    PROVE  DocOK(Hide(d, id)) /\ Known(Hide(d, id)) = Known(d)
<1> DEFINE new == Hide(d, id)
<1>1. /\ IsDoc(new) /\ Known(new) = Known(d) /\ new.next = d.next /\ new.head = d.head
      /\ new.text = IF id \in Range(d.text) THEN RemoveAt(d.text, IndexIn(d.text, id)) ELSE d.text
  BY HideFields DEF DocOK
<1> HIDE DEF new
<1>2. id \in Range(d.text) => RemoveAt(d.text, IndexIn(d.text, id)) \in Seq(Known(d))
  <2> SUFFICES ASSUME id \in Range(d.text) PROVE RemoveAt(d.text, IndexIn(d.text, id)) \in Seq(Known(d))
    OBVIOUS
  <2>1. d.text \in Seq(Known(d)) /\ IndexIn(d.text, id) \in 1..Len(d.text)
    BY IndexInFacts DEF DocOK
  <2> QED
    BY <2>1, RemoveAtElements
<1>3. DocOK(new)
  BY <1>1, <1>2 DEF DocOK
<1> QED
  BY <1>1, <1>3 DEF new

\* handleRemoteInput and handleRemoteDelete
LEMMA AppliedOK ==
    ASSUME NEW d, DocOK(d), NEW e
    PROVE  /\ DocOK(Applied(d, e))
           /\ Known(Applied(d, e)) = IF e.del THEN Known(d) ELSE Known(d) \cup {e.id}
  BY RemoteInputOK, HideOK DEF Applied, RemoteDelete

-----------------------------------------------------------------------------
(***************************************************************************)
(* The page: what it makes of what comes in.                               *)
(***************************************************************************)
\* handleRemoteOperation takes at most one entry of the element that came in
\* out of the cache.
LEMMA EntryRemoved ==
    ASSUME NEW S, NEW c \in Seq(S), NEW e
    PROVE  \/ Acknowledged(c, e) = c
           \/ \E m \in 1..Len(c) : c[m] = e.id /\ Acknowledged(c, e) = RemoveAt(c, m)
<1> DEFINE n == Len(c)
           IsLast(i) == c[i] = e.id /\ \A j \in (i + 1)..n : c[j] # e.id
<1>1. n \in Nat /\ DOMAIN c = 1..n
  OBVIOUS
<1>2. CASE e.id \notin Range(c)
  BY <1>2 DEF Acknowledged
<1>3. CASE e.id \in Range(c)
  <2> DEFINE Back == {k \in Nat : k < n /\ c[n - k] = e.id}
  <2>1. PICK i \in 1..n : c[i] = e.id
    BY <1>1, <1>3 DEF Range
  <2>2. n - i \in Back
    BY <2>1, <1>1
  <2>3. PICK k \in Back : \A l \in Back : k <= l
    <3>1. Back \in SUBSET Nat /\ Back # {}
      BY <2>2
    <3> HIDE DEF Back
    <3> QED
      BY <3>1, LeastNatural
  <2>4. n - k \in 1..n /\ c[n - k] = e.id /\ k \in Nat
    BY <2>3, <1>1
  <2>5. ASSUME NEW j \in (n - k + 1)..n, c[j] = e.id PROVE FALSE
    <3>1. n - j \in Nat /\ n - j < k /\ n - j < n /\ n - (n - j) = j
      BY <2>4, <1>1
    <3>2. n - j \in Back
      BY <3>1, <2>5
    <3> QED
      BY <2>3, <3>1, <3>2
  <2>6. IsLast(n - k) /\ n - k \in DOMAIN c
    BY <2>4, <2>5, <1>1
  <2> DEFINE m == CHOOSE l \in DOMAIN c : IsLast(l)
  <2>7. m \in DOMAIN c /\ IsLast(m)
    BY <2>6
  <2>8. Acknowledged(c, e) = RemoveAt(c, m)
    BY <1>3 DEF Acknowledged, LastPlace
  <2> HIDE DEF m
  <2> QED
    BY <2>7, <2>8, <1>1
<1> QED
  BY <1>2, <1>3

LEMMA AcknowledgedFacts ==
    ASSUME NEW S, NEW c \in Seq(S), NEW e
    PROVE  Acknowledged(c, e) \in Seq(S) /\ Range(c) \subseteq Range(Acknowledged(c, e)) \cup {e.id}
<1>1. CASE Acknowledged(c, e) = c
  BY <1>1
<1>2. ASSUME NEW m \in 1..Len(c), c[m] = e.id, Acknowledged(c, e) = RemoveAt(c, m)
      PROVE  Acknowledged(c, e) \in Seq(S) /\ Range(c) \subseteq Range(Acknowledged(c, e)) \cup {e.id}
  <2> DEFINE t == RemoveAt(c, m)
  <2>1. /\ t \in Seq(S) /\ Len(t) = Len(c) - 1
        /\ \A j \in 1..(Len(c) - 1) : t[j] = IF j < m THEN c[j] ELSE c[j + 1]
    BY RemoveAtElements
  <2>2. Len(c) \in Nat /\ DOMAIN c = 1..Len(c) /\ m \in Nat
    OBVIOUS
  <2> HIDE DEF t
  <2>3. DOMAIN t = 1..(Len(c) - 1)
    BY <2>1, <2>2
  <2>4. ASSUME NEW j \in 1..Len(c), j # m PROVE c[j] \in Range(t)
    <3>1. CASE j < m
      BY <3>1, <2>1, <2>2, <2>3 DEF Range
    <3>2. CASE j > m
      <4>1. j - 1 \in 1..(Len(c) - 1) /\ ~(j - 1 < m) /\ (j - 1) + 1 = j
        BY <3>2, <2>2
      <4>2. t[j - 1] = c[j]
        BY <4>1, <2>1
      <4> QED
        BY <4>1, <4>2, <2>3 DEF Range
    <3> QED
      BY <3>1, <3>2, <2>2, <2>4
  <2>5. Range(c) \subseteq Range(t) \cup {e.id}
    BY <2>2, <2>4, <1>2 DEF Range
  <2> QED
    BY <1>2, <2>1, <2>5 DEF t
<1> QED
  BY <1>1, <1>2, EntryRemoved

\* The documents and the caches of the page while it goes through a reply.
IsDocuments(f, d, es, n) == f = [i \in 0..n |-> IF i = 0 THEN d ELSE Applied(f[i - 1], es[i])]
IsCaches(f, c, es, n) == f = [i \in 0..n |-> IF i = 0 THEN c ELSE Acknowledged(f[i - 1], es[i])]

LEMMA DocumentsExist ==
    ASSUME NEW d, NEW es, NEW n \in Nat
    PROVE  \E f : IsDocuments(f, d, es, n)
<1> DEFINE Along(g, i) == IF i = 0 THEN d ELSE Applied(g[i - 1], es[i])
           Bad == {k \in Nat : ~\E f : IsDocuments(f, d, es, k)}
<1>0. \A f, k : IsDocuments(f, d, es, k) <=> f = [i \in 0..k |-> Along(f, i)]
  BY DEF IsDocuments
<1>1. SUFFICES ASSUME Bad # {} PROVE FALSE
  OBVIOUS
<1>2. PICK k \in Bad : \A m \in Bad : k <= m
  BY <1>1, LeastNatural
<1>3. CASE k = 0
  <2> DEFINE f == [i \in 0..0 |-> d]
  <2>1. f = [i \in 0..0 |-> Along(f, i)]
    OBVIOUS
  <2> QED
    BY <2>1, <1>0, <1>2, <1>3
<1>4. CASE k # 0
  <2>1. k \in Nat /\ k - 1 \in Nat /\ k - 1 \notin Bad
    BY <1>2, <1>4
  <2>2. PICK f : f = [i \in 0..(k - 1) |-> Along(f, i)]
    BY <2>1, <1>0
  <2> DEFINE g == [i \in 0..k |-> IF i = k THEN Applied(f[k - 1], es[k]) ELSE f[i]]
  <2>3. \A i \in 0..(k - 1) : f[i] = Along(f, i)
    BY <2>2, Zenon
  <2>4. \A i \in 0..k : g[i] = IF i = k THEN Applied(f[k - 1], es[k]) ELSE f[i]
    OBVIOUS
  <2> HIDE DEF g
  <2>5. ASSUME NEW i \in 0..k PROVE g[i] = Along(g, i)
    <3>1. CASE i = k
      <4>1. g[i - 1] = f[k - 1]
        BY <3>1, <2>1, <2>4, <1>4
      <4> QED
        BY <4>1, <3>1, <1>4, <2>4
    <3>2. CASE i # k
      <4>1. i \in 0..(k - 1) /\ g[i] = f[i] /\ (i # 0 => g[i - 1] = f[i - 1])
        BY <3>2, <2>1, <2>4
      <4> QED
        BY <4>1, <2>3
    <3> QED
      BY <3>1, <3>2
  <2>6. g = [i \in 0..k |-> Along(g, i)]
    BY <2>5, Zenon DEF g
  <2> QED
    BY <2>1, <2>6, <1>0, <1>2
<1> QED
  BY <1>3, <1>4

LEMMA CachesExist ==
    ASSUME NEW c, NEW es, NEW n \in Nat
    PROVE  \E f : IsCaches(f, c, es, n)
<1> DEFINE Along(g, i) == IF i = 0 THEN c ELSE Acknowledged(g[i - 1], es[i])
           Bad == {k \in Nat : ~\E f : IsCaches(f, c, es, k)}
<1>0. \A f, k : IsCaches(f, c, es, k) <=> f = [i \in 0..k |-> Along(f, i)]
  BY DEF IsCaches
<1>1. SUFFICES ASSUME Bad # {} PROVE FALSE
  OBVIOUS
<1>2. PICK k \in Bad : \A m \in Bad : k <= m
  BY <1>1, LeastNatural
<1>3. CASE k = 0
  <2> DEFINE f == [i \in 0..0 |-> c]
  <2>1. f = [i \in 0..0 |-> Along(f, i)]
    OBVIOUS
  <2> QED
    BY <2>1, <1>0, <1>2, <1>3
<1>4. CASE k # 0
  <2>1. k \in Nat /\ k - 1 \in Nat /\ k - 1 \notin Bad
    BY <1>2, <1>4
  <2>2. PICK f : f = [i \in 0..(k - 1) |-> Along(f, i)]
    BY <2>1, <1>0
  <2> DEFINE g == [i \in 0..k |-> IF i = k THEN Acknowledged(f[k - 1], es[k]) ELSE f[i]]
  <2>3. \A i \in 0..(k - 1) : f[i] = Along(f, i)
    BY <2>2, Zenon
  <2>4. \A i \in 0..k : g[i] = IF i = k THEN Acknowledged(f[k - 1], es[k]) ELSE f[i]
    OBVIOUS
  <2> HIDE DEF g
  <2>5. ASSUME NEW i \in 0..k PROVE g[i] = Along(g, i)
    <3>1. CASE i = k
      <4>1. g[i - 1] = f[k - 1]
        BY <3>1, <2>1, <2>4, <1>4
      <4> QED
        BY <4>1, <3>1, <1>4, <2>4
    <3>2. CASE i # k
      <4>1. i \in 0..(k - 1) /\ g[i] = f[i] /\ (i # 0 => g[i - 1] = f[i - 1])
        BY <3>2, <2>1, <2>4
      <4> QED
        BY <4>1, <2>3
    <3> QED
      BY <3>1, <3>2
  <2>6. g = [i \in 0..k |-> Along(g, i)]
    BY <2>5, Zenon DEF g
  <2> QED
    BY <2>1, <2>6, <1>0, <1>2
<1> QED
  BY <1>3, <1>4

\* The ids of the first n elements of a reply.
IdsOf(es, n) == { es[i].id : i \in 1..n }

\* What d and c may become when elements with these ids come in.
Handled(d, c, d2, c2, ids) ==
    /\ DocOK(d2) /\ Known(d) \subseteq Known(d2) /\ Known(d2) \subseteq Known(d) \cup ids
    /\ c2 \in Seq(Known(d2)) /\ Range(c) \subseteq Range(c2) \cup ids

LEMMA ElementHandled ==
    ASSUME NEW d, NEW c, DocOK(d), c \in Seq(Known(d)), NEW e
    PROVE  Handled(d, c, Applied(d, e), Acknowledged(c, e), {e.id})
<1>1. DocOK(Applied(d, e)) /\ Known(Applied(d, e)) = IF e.del THEN Known(d) ELSE Known(d) \cup {e.id}
  BY AppliedOK
<1>2. Known(d) \subseteq Known(Applied(d, e)) /\ Known(Applied(d, e)) \subseteq Known(d) \cup {e.id}
  BY <1>1
<1>3. c \in Seq(Known(Applied(d, e)))
  BY <1>2
<1>4. /\ Acknowledged(c, e) \in Seq(Known(Applied(d, e)))
      /\ Range(c) \subseteq Range(Acknowledged(c, e)) \cup {e.id}
  BY <1>3, AcknowledgedFacts
<1> QED
  BY <1>1, <1>2, <1>4 DEF Handled

\* handleRemoteOperation for one element after the other.
LEMMA ElementsHandled ==
    ASSUME NEW es, Len(es) \in Nat, DocOK(doc), cache \in Seq(Known(doc)), RemoteOperations(es)
    PROVE  Handled(doc, cache, doc', cache', IdsOf(es, Len(es)))
<1> DEFINE n == Len(es)
           f == CHOOSE g : IsDocuments(g, doc, es, n)
           h == CHOOSE g : IsCaches(g, cache, es, n)
           Good(k) == Handled(doc, cache, f[k], h[k], IdsOf(es, k))
           Bad == {k \in Nat : k <= n /\ ~Good(k)}
<1>1. doc' = f[n] /\ cache' = h[n]
  BY DEF RemoteOperations, IsDocuments, IsCaches
<1>2. IsDocuments(f, doc, es, n) /\ IsCaches(h, cache, es, n)
  BY DocumentsExist, CachesExist, Zenon
<1> HIDE DEF f, h
<1>3. \A k \in 0..n : f[k] = IF k = 0 THEN doc ELSE Applied(f[k - 1], es[k])
  BY <1>2, Zenon DEF IsDocuments
<1>4. \A k \in 0..n : h[k] = IF k = 0 THEN cache ELSE Acknowledged(h[k - 1], es[k])
  BY <1>2, Zenon DEF IsCaches
<1>5. Good(0)
  <2>1. f[0] = doc /\ h[0] = cache /\ IdsOf(es, 0) = {}
    BY <1>3, <1>4 DEF IdsOf
  <2>2. Handled(doc, cache, doc, cache, {})
    BY DEF Handled
  <2> QED
    BY <2>1, <2>2
<1>6. ASSUME NEW k \in 1..n, Good(k - 1) PROVE Good(k)
  <2> DEFINE d1 == f[k - 1]
             c1 == h[k - 1]
             d2 == f[k]
             c2 == h[k]
             e == es[k]
  <2>1. Handled(doc, cache, d1, c1, IdsOf(es, k - 1))
    BY <1>6
  <2>2. d2 = Applied(d1, e) /\ c2 = Acknowledged(c1, e)
    BY <1>3, <1>4
  <2> HIDE DEF d1, c1, d2, c2, e
  <2>3. Handled(d1, c1, d2, c2, {e.id})
    BY <2>1, <2>2, ElementHandled DEF Handled
  <2>4. IdsOf(es, k) = IdsOf(es, k - 1) \cup {e.id}
    BY DEF IdsOf, e
  <2>5. Handled(doc, cache, d2, c2, IdsOf(es, k))
    BY <2>1, <2>3, <2>4 DEF Handled
  <2> QED
    BY <2>5 DEF d2, c2
<1>7. Bad = {}
  <2> SUFFICES ASSUME Bad # {} PROVE FALSE
    OBVIOUS
  <2> HIDE DEF Good
  <2>1. PICK k \in Bad : \A m \in Bad : k <= m
    BY LeastNatural
  <2>2. k # 0 /\ k \in 1..n /\ k - 1 \in Nat /\ k - 1 \notin Bad /\ k - 1 <= n
    BY <1>5, <2>1
  <2> QED
    BY <1>6, <2>1, <2>2
<1>8. Good(n)
  BY <1>7
<1> QED
  BY <1>1, <1>8

\* What a receiver shows of a list: elements that are not skipped.
LEMMA VisibleElements ==
    ASSUME NEW S, NEW list, NEW n \in Nat, NEW gone, \A i \in 1..n : list[i] \in S \cup {NIL}
    PROVE  Visible(list, n, gone) \in Seq(S)
<1> DEFINE skipped == gone \cup {NIL}
           shown == CHOOSE f : IsShown(f, list, skipped, n)
           Bad == {k \in Nat : k <= n /\ shown[k] \notin Seq(S)}
<1>1. Visible(list, n, gone) = shown[n]
  BY DEF Visible, IsShown
<1>2. IsShown(shown, list, skipped, n)
  BY ShownExists, Zenon
<1> HIDE DEF shown
<1>3. \A i \in 0..n : shown[i] = IF i = 0 THEN <<>>
                                 ELSE IF list[i] \in skipped THEN shown[i - 1]
                                 ELSE Append(shown[i - 1], list[i])
  BY <1>2, Zenon DEF IsShown
<1>4. \A i \in 1..n : list[i] \notin skipped => list[i] \in S
  OBVIOUS
<1> HIDE DEF skipped
<1>6. /\ shown[0] = <<>>
      /\ \A i \in 1..n : shown[i] = IF list[i] \in skipped THEN shown[i - 1] ELSE Append(shown[i - 1], list[i])
  BY <1>3
<1>5. Bad = {}
  <2> SUFFICES ASSUME Bad # {} PROVE FALSE
    OBVIOUS
  <2>1. PICK k \in Bad : \A m \in Bad : k <= m
    BY LeastNatural
  <2>2. CASE k = 0
    <3>1. <<>> \in Seq(S)
      OBVIOUS
    <3> QED
      BY <3>1, <2>1, <2>2, <1>6
  <2>3. CASE k # 0
    <3>1. k \in 1..n /\ k - 1 \in Nat /\ k - 1 \notin Bad /\ k - 1 <= n
      BY <2>1, <2>3
    <3>2. shown[k - 1] \in Seq(S)
      BY <3>1
    <3>3. list[k] \notin skipped => Append(shown[k - 1], list[k]) \in Seq(S)
      BY <3>1, <3>2, <1>4
    <3>4. shown[k] \in Seq(S)
      BY <3>1, <3>2, <3>3, <1>6
    <3> QED
      BY <3>4, <2>1
  <2> QED
    BY <2>2, <2>3
<1> QED
  BY <1>1, <1>5

\* initSession, whatever the page knows by then.
LEMMA OverwrittenOK ==
    ASSUME NEW d, DocOK(d), NEW r, DocOK(r), NEW new \in Overwritten(d, r)
    PROVE  DocOK(new) /\ Known(new) = Known(d) \cup Known(r)
<1> DEFINE all  == Known(d) \cup Known(r)
           next == [k \in all |-> IF k \in Known(r) THEN r.next[k] ELSE d.next[k]]
           prev == [k \in all |-> IF k \in Known(r) THEN r.prev[k] ELSE d.prev[k]]
           dead == { k \in all : IF k \in Known(r) THEN k \in r.dead ELSE k \in d.dead }
           with(h) == [next |-> next, prev |-> prev, head |-> h, dead |-> dead,
                       text |-> <<>>, length |-> Cardinality(Known(r))]
           heads == { k \in all : prev[k] = NIL }
           some == IF heads = {} THEN {NIL} ELSE heads
<1>1. PICK h \in some : new = [with(h) EXCEPT !.text = ToMapping(with(h))]
  BY DEF Overwritten
<1>2. IsFiniteSet(all) /\ Cardinality(all) \in Nat
  BY FS_Union, FS_CardinalityType DEF DocOK
<1>3. next \in [all -> all \cup {NIL}] /\ DOMAIN next = all
  BY DEF DocOK
<1>4. h \in all \cup {NIL}
  OBVIOUS
<1> HIDE DEF next, prev, dead, some, all
<1> DEFINE shown == ToMapping(with(h))
           base == with(h)
           n == Cardinality(Known(base))
           onward == [k \in Known(base) \cup {NIL} |-> IF k = NIL THEN NIL ELSE base.next[k]]
           at == Path(h, onward, n)
           list == [i \in 1..n |-> at[i - 1]]
<1>5. /\ new = [next |-> next, prev |-> prev, head |-> h, dead |-> dead, text |-> shown,
                length |-> Cardinality(Known(r))]
      /\ Known(base) = all /\ base.head = h /\ base.next = next /\ base.dead = dead
  <2> HIDE DEF shown
  <2> QED
    BY <1>1, <1>3 DEF Known, shown
<1> HIDE DEF base
<1>6. shown = Visible(list, n, dead)
  BY <1>5 DEF ToMapping, base
<1> HIDE DEF shown
<1>7. \A x \in all \cup {NIL} : onward[x] \in all \cup {NIL}
  BY <1>3, <1>5
<1> HIDE DEF onward
<1>8. n \in Nat
  BY <1>2, <1>5
<1> HIDE DEF n
<1>9. \A i \in 0..n : at[i] \in all \cup {NIL}
  <2> DEFINE S == all \cup {NIL}
  <2>1. IsWalk(at, h, onward, n)
    BY <1>8, PathIsWalk
  <2>2. h \in S /\ \A x \in S : onward[x] \in S
    BY <1>4, <1>7
  <2> HIDE DEF at, S, list
  <2>3. \A w : IsWalk(w, h, onward, n) => \A i \in 0..n : w[i] \in S
    BY <2>2, <1>8, WalkStays
  <2>4. \A i \in 0..n : at[i] \in S
    BY <2>1, <2>3
  <2> QED
    BY <2>4 DEF S
<1> HIDE DEF at
<1>10. \A i \in 1..n : list[i] \in all \cup {NIL}
  BY <1>8, <1>9
<1> HIDE DEF list
<1>11. shown \in Seq(all)
  BY <1>6, <1>8, <1>10, VisibleElements
<1>12. IsDoc(new) /\ Known(new) = all /\ new.text = shown /\ new.next = next /\ new.head = h
  BY <1>3, <1>5 DEF IsDoc, Known
<1>13. DocOK(new)
  BY <1>2, <1>3, <1>4, <1>11, <1>12 DEF DocOK
<1> QED
  BY <1>12, <1>13 DEF all

-----------------------------------------------------------------------------
(***************************************************************************)
(* Requests and websockets.                                                *)
(***************************************************************************)
IsSeq(s) == s \in Seq(Range(s))
IsAsk(a) == a = [kind |-> a.kind, worker |-> a.worker, reply |-> a.reply]
IsAsks(s) == IsSeq(s) /\ \A i \in DOMAIN s : IsAsk(s[i])

ConnAs(k, state, served, broken, taken, due) ==
    [worker |-> k.worker, state |-> state, served |-> served, broken |-> broken, up |-> taken, down |-> due]
IsConn(k) == k = ConnAs(k, k.state, k.served, k.broken, k.up, k.down)
IsConns(cs) == IsSeq(cs) /\ \A c \in DOMAIN cs : IsConn(cs[c])

LEMMA IsSeqFacts ==
    ASSUME NEW s, IsSeq(s)
    PROVE  Len(s) \in Nat /\ DOMAIN s = 1..Len(s)
  BY DEF IsSeq

\* A request more.
Longer(t, s, a) ==
    /\ DOMAIN t = 1..(Len(s) + 1) /\ Len(t) = Len(s) + 1 /\ t[Len(s) + 1] = a
    /\ \A i \in DOMAIN s : i \in DOMAIN t /\ t[i] = s[i]
    /\ \A i \in DOMAIN t : i = Len(s) + 1 \/ i \in DOMAIN s

LEMMA Appended ==
    ASSUME NEW s, IsSeq(s), NEW a
    PROVE  IsSeq(Append(s, a)) /\ Longer(Append(s, a), s, a)
<1> DEFINE S == Range(s) \cup {a}
           t == Append(s, a)
<1>1. s \in Seq(S) /\ a \in S
  BY DEF IsSeq
<1>2. Len(s) \in Nat /\ DOMAIN s = 1..Len(s)
  BY DEF IsSeq
<1>3. t \in Seq(S) /\ Len(t) = Len(s) + 1 /\ t[Len(s) + 1] = a /\ \A i \in 1..Len(s) : t[i] = s[i]
  BY <1>1
<1> HIDE DEF t
<1>4. DOMAIN t = 1..(Len(s) + 1)
  BY <1>3, <1>2
<1>5. \A i \in 1..Len(t) : t[i] \in Range(t)
  BY <1>2, <1>3, <1>4 DEF Range
<1>6. IsSeq(t)
  <2> HIDE DEF S
  <2> QED
    BY <1>3, <1>5, SeqDef DEF IsSeq
<1>7. Longer(t, s, a)
  BY <1>2, <1>3, <1>4 DEF Longer
<1> QED
  BY <1>6, <1>7 DEF t

\* One less.
After(j, p) == IF j < p THEN j ELSE j + 1
Shorter(t, s, i) ==
    /\ \A j \in DOMAIN t : After(j, i) \in DOMAIN s /\ After(j, i) # i /\ t[j] = s[After(j, i)]
    /\ \A j, k \in DOMAIN t : After(j, i) = After(k, i) => j = k

LEMMA Removed ==
    ASSUME NEW s, IsSeq(s), NEW i \in DOMAIN s
    PROVE  IsSeq(RemoveAt(s, i)) /\ Shorter(RemoveAt(s, i), s, i)
<1> DEFINE t == RemoveAt(s, i)
<1>1. Len(s) \in Nat /\ DOMAIN s = 1..Len(s) /\ s \in Seq(Range(s))
  BY DEF IsSeq
<1>2. i \in 1..Len(s)
  BY <1>1
<1>3. /\ t \in Seq(Range(s)) /\ Len(t) = Len(s) - 1
      /\ \A j \in 1..(Len(s) - 1) : t[j] = IF j < i THEN s[j] ELSE s[j + 1]
  BY <1>1, <1>2, RemoveAtElements
<1> HIDE DEF t
<1>4. DOMAIN t = 1..(Len(s) - 1) /\ Len(t) \in Nat
  BY <1>1, <1>2, <1>3
<1>5. \A j \in 1..Len(t) : t[j] \in Range(t)
  BY <1>3, <1>4 DEF Range
<1>6. IsSeq(t)
  BY <1>3, <1>4, <1>5, SeqDef DEF IsSeq
<1>7. \A j \in DOMAIN t : After(j, i) \in DOMAIN s /\ After(j, i) # i /\ t[j] = s[After(j, i)]
  BY <1>1, <1>2, <1>3, <1>4 DEF After
<1>8. \A j, k \in DOMAIN t : After(j, i) = After(k, i) => j = k
  BY <1>1, <1>2, <1>4 DEF After
<1> QED
  BY <1>6, <1>7, <1>8 DEF Shorter, t

\* One of them changed.
Changed(t, s, c, new) ==
    /\ DOMAIN t = DOMAIN s /\ Len(t) = Len(s) /\ t[c] = new
    /\ \A k \in DOMAIN s : k # c => t[k] = s[k]

LEMMA ChangedSeq ==
    ASSUME NEW s, IsSeq(s), NEW c \in DOMAIN s, NEW new
    PROVE  IsSeq([s EXCEPT ![c] = new]) /\ Changed([s EXCEPT ![c] = new], s, c, new)
<1> DEFINE t == [s EXCEPT ![c] = new]
           S == Range(s) \cup {new}
<1>1. Len(s) \in Nat /\ DOMAIN s = 1..Len(s) /\ s \in Seq(S)
  BY DEF IsSeq
<1>2. t \in Seq(S) /\ DOMAIN t = DOMAIN s /\ Len(t) = Len(s) /\ t[c] = new /\ \A k \in DOMAIN s : k # c => t[k] = s[k]
  <2> HIDE DEF S
  <2>1. DOMAIN t = DOMAIN s /\ t[c] = new /\ \A k \in DOMAIN s : k # c => t[k] = s[k]
    OBVIOUS
  <2>2. new \in S
    BY DEF S
  <2>3. t \in Seq(S) /\ Len(t) = Len(s)
    BY <1>1, <2>2
  <2> QED
    BY <2>1, <2>3
<1> HIDE DEF t
<1>3. \A k \in 1..Len(t) : t[k] \in Range(t)
  BY <1>1, <1>2 DEF Range
<1>4. IsSeq(t)
  <2> HIDE DEF S
  <2> QED
    BY <1>2, <1>3, SeqDef DEF IsSeq
<1> QED
  BY <1>2, <1>4 DEF Changed, t

Replied(s, i, r) == [s EXCEPT ![i].reply = r]

LEMMA ReplyGiven ==
    ASSUME NEW s, IsAsks(s), NEW i \in DOMAIN s, NEW r
    PROVE  /\ IsAsks(Replied(s, i, r))
           /\ Changed(Replied(s, i, r), s, i, [kind |-> s[i].kind, worker |-> s[i].worker, reply |-> r])
<1> DEFINE new == [kind |-> s[i].kind, worker |-> s[i].worker, reply |-> r]
           t == Replied(s, i, r)
<1>1. [s[i] EXCEPT !.reply = r] = new
  BY DEF IsAsks, IsAsk
<1>2. t = [s EXCEPT ![i] = [s[i] EXCEPT !.reply = r]]
  BY DEF Replied
<1>3. t = [s EXCEPT ![i] = new]
  BY <1>1, <1>2
<1>4. IsAsk(new)
  BY DEF IsAsk
<1> HIDE DEF t, new
<1>5. IsSeq([s EXCEPT ![i] = new]) /\ Changed([s EXCEPT ![i] = new], s, i, new)
  BY ChangedSeq DEF IsAsks
<1>6. IsSeq(t) /\ Changed(t, s, i, new)
  BY <1>3, <1>5
<1>7. IsAsks(t)
  BY <1>4, <1>6 DEF Changed, IsAsks
<1> QED
  BY <1>6, <1>7 DEF t, new

LEMMA ConnReplaced ==
    ASSUME NEW cs, IsConns(cs), NEW c \in DOMAIN cs, NEW new, IsConn(new)
    PROVE  IsConns([cs EXCEPT ![c] = new]) /\ Changed([cs EXCEPT ![c] = new], cs, c, new)
<1> DEFINE t == [cs EXCEPT ![c] = new]
<1>1. IsSeq(t) /\ Changed(t, cs, c, new)
  BY ChangedSeq DEF IsConns
<1> HIDE DEF t
<1>2. IsConns(t)
  BY <1>1 DEF Changed, IsConns
<1> QED
  BY <1>1, <1>2 DEF t

\* The updates of a websocket in the model.
LEMMA ConnFields ==
    ASSUME NEW k, IsConn(k), NEW x
    PROVE  /\ [k EXCEPT !.state = x] = ConnAs(k, x, k.served, k.broken, k.up, k.down)
           /\ [k EXCEPT !.served = x] = ConnAs(k, k.state, x, k.broken, k.up, k.down)
           /\ [k EXCEPT !.broken = x] = ConnAs(k, k.state, k.served, x, k.up, k.down)
           /\ [k EXCEPT !.up = x] = ConnAs(k, k.state, k.served, k.broken, x, k.down)
           /\ [k EXCEPT !.down = x] = ConnAs(k, k.state, k.served, k.broken, k.up, x)
<1> DEFINE keys == {"worker", "state", "served", "broken", "up", "down"}
<1>1. k = [worker |-> k.worker, state |-> k.state, served |-> k.served, broken |-> k.broken, up |-> k.up, down |-> k.down]
  BY DEF IsConn, ConnAs
<1>2. [k EXCEPT !.state = x] = ConnAs(k, x, k.served, k.broken, k.up, k.down)
  BY <1>1 DEF ConnAs
<1>3. [k EXCEPT !.served = x] = ConnAs(k, k.state, x, k.broken, k.up, k.down)
  BY <1>1 DEF ConnAs
<1>4. [k EXCEPT !.broken = x] = ConnAs(k, k.state, k.served, x, k.up, k.down)
  BY <1>1 DEF ConnAs
<1>5. [k EXCEPT !.up = x] = ConnAs(k, k.state, k.served, k.broken, x, k.down)
  BY <1>1 DEF ConnAs
<1>6. [k EXCEPT !.down = x] = ConnAs(k, k.state, k.served, k.broken, k.up, x)
  BY <1>1 DEF ConnAs
<1> QED
  BY <1>2, <1>3, <1>4, <1>5, <1>6

LEMMA ConnAsFields ==
    ASSUME NEW k, NEW s, NEW v, NEW b, NEW u, NEW n
    PROVE  /\ IsConn(ConnAs(k, s, v, b, u, n))
           /\ ConnAs(k, s, v, b, u, n).worker = k.worker
           /\ ConnAs(k, s, v, b, u, n).state = s
           /\ ConnAs(k, s, v, b, u, n).served = v
           /\ ConnAs(k, s, v, b, u, n).broken = b
           /\ ConnAs(k, s, v, b, u, n).up = u
           /\ ConnAs(k, s, v, b, u, n).down = n
  BY DEF ConnAs, IsConn

WithState(cs, c, s) == [cs EXCEPT ![c].state = s]
WithServed(cs, c) == [cs EXCEPT ![c].served = TRUE]
WithUp(cs, c, u) == [cs EXCEPT ![c].up = u]
WithDown(cs, c, u) == [cs EXCEPT ![c].down = u]
Forgotten(cs, c) == [cs EXCEPT ![c].served = FALSE, ![c].broken = TRUE]
Broken(cs, c) == [cs EXCEPT ![c].broken = TRUE, ![c].up = <<>>, ![c].down = <<>>]
Gone(cs, c) == [cs EXCEPT ![c].state = "closed", ![c].broken = TRUE, ![c].down = <<>>]

\* cs with the websocket c as k.
Updated(t, cs, c, k) == IsConns(t) /\ Changed(t, cs, c, k)

LEMMA ConnSteps ==
    ASSUME NEW cs, IsConns(cs), NEW c \in DOMAIN cs
    PROVE  LET k == cs[c] IN
           /\ \A s : Updated(WithState(cs, c, s), cs, c, ConnAs(k, s, k.served, k.broken, k.up, k.down))
           /\ Updated(WithServed(cs, c), cs, c, ConnAs(k, k.state, TRUE, k.broken, k.up, k.down))
           /\ \A u : Updated(WithUp(cs, c, u), cs, c, ConnAs(k, k.state, k.served, k.broken, u, k.down))
           /\ \A u : Updated(WithDown(cs, c, u), cs, c, ConnAs(k, k.state, k.served, k.broken, k.up, u))
           /\ Updated(Forgotten(cs, c), cs, c, ConnAs(k, k.state, FALSE, TRUE, k.up, k.down))
           /\ Updated(Broken(cs, c), cs, c, ConnAs(k, k.state, k.served, TRUE, <<>>, <<>>))
           /\ Updated(Gone(cs, c), cs, c, ConnAs(k, "closed", k.served, TRUE, k.up, <<>>))
<1> DEFINE k == cs[c]
<1>0. IsConn(k)
  BY DEF IsConns
<1> HIDE DEF k
<1>2. [k EXCEPT !.served = TRUE] = ConnAs(k, k.state, TRUE, k.broken, k.up, k.down)
  BY <1>0, ConnFields
<1>5. [k EXCEPT !.served = FALSE, !.broken = TRUE] = ConnAs(k, k.state, FALSE, TRUE, k.up, k.down)
  <2>1. PICK m : m = ConnAs(k, k.state, FALSE, k.broken, k.up, k.down)
    OBVIOUS
  <2>2. [k EXCEPT !.served = FALSE] = m
    BY <1>0, <2>1, ConnFields
  <2>3. IsConn(m) /\ m.worker = k.worker /\ m.state = k.state /\ m.served = FALSE
       /\ m.broken = k.broken /\ m.up = k.up /\ m.down = k.down
    BY <2>1 DEF ConnAs, IsConn
  <2>4. [m EXCEPT !.broken = TRUE] = ConnAs(m, m.state, m.served, TRUE, m.up, m.down)
    BY <2>3, ConnFields
  <2>5. ConnAs(m, m.state, m.served, TRUE, m.up, m.down)
        = ConnAs(k, k.state, FALSE, TRUE, k.up, k.down)
    BY <2>3 DEF ConnAs
  <2>6. [k EXCEPT !.served = FALSE, !.broken = TRUE]
        = [[k EXCEPT !.served = FALSE] EXCEPT !.broken = TRUE]
    OBVIOUS
  <2> QED
    BY <2>2, <2>4, <2>5, <2>6, Zenon
<1>6. [k EXCEPT !.broken = TRUE, !.up = <<>>, !.down = <<>>] = ConnAs(k, k.state, k.served, TRUE, <<>>, <<>>)
  <2>1. PICK m : m = ConnAs(k, k.state, k.served, TRUE, k.up, k.down)
    OBVIOUS
  <2>2. [k EXCEPT !.broken = TRUE] = m
    BY <1>0, <2>1, ConnFields
  <2>3. IsConn(m) /\ m.worker = k.worker /\ m.state = k.state /\ m.served = k.served
       /\ m.broken = TRUE /\ m.up = k.up /\ m.down = k.down
    BY <2>1 DEF ConnAs, IsConn
  <2>4. [m EXCEPT !.up = <<>>] = ConnAs(m, m.state, m.served, m.broken, <<>>, m.down)
    BY <2>3, ConnFields
  <2>5. ConnAs(m, m.state, m.served, m.broken, <<>>, m.down)
        = ConnAs(k, k.state, k.served, TRUE, <<>>, k.down)
    BY <2>3 DEF ConnAs
  <2>6. PICK n : n = ConnAs(k, k.state, k.served, TRUE, <<>>, k.down)
    OBVIOUS
  <2>7. [m EXCEPT !.up = <<>>] = n
    BY <2>4, <2>5, <2>6, Zenon
  <2>8. IsConn(n) /\ n.worker = k.worker /\ n.state = k.state /\ n.served = k.served
       /\ n.broken = TRUE /\ n.up = <<>> /\ n.down = k.down
    BY <2>6 DEF ConnAs, IsConn
  <2>9. [n EXCEPT !.down = <<>>] = ConnAs(n, n.state, n.served, n.broken, n.up, <<>>)
    <3>1. IsConn(n)
      BY <2>8
    <3>2. n = [worker |-> n.worker, state |-> n.state, served |-> n.served, broken |-> n.broken,
               up |-> n.up, down |-> n.down]
      BY <3>1 DEF IsConn, ConnAs
    <3> QED
      BY <3>2 DEF ConnAs
  <2>10. ConnAs(n, n.state, n.served, n.broken, n.up, <<>>)
        = ConnAs(k, k.state, k.served, TRUE, <<>>, <<>>)
    BY <2>8 DEF ConnAs
  <2>11. [k EXCEPT !.broken = TRUE, !.up = <<>>, !.down = <<>>]
        = [[[k EXCEPT !.broken = TRUE] EXCEPT !.up = <<>>] EXCEPT !.down = <<>>]
    OBVIOUS
  <2> QED
    BY <2>2, <2>7, <2>9, <2>10, <2>11, Zenon
<1>7. [k EXCEPT !.state = "closed", !.broken = TRUE, !.down = <<>>] = ConnAs(k, "closed", k.served, TRUE, k.up, <<>>)
  <2>1. PICK m : m = ConnAs(k, "closed", k.served, k.broken, k.up, k.down)
    OBVIOUS
  <2>2. [k EXCEPT !.state = "closed"] = m
    BY <1>0, <2>1, ConnFields
  <2>3. IsConn(m) /\ m.worker = k.worker /\ m.state = "closed" /\ m.served = k.served
       /\ m.broken = k.broken /\ m.up = k.up /\ m.down = k.down
    BY <2>1 DEF ConnAs, IsConn
  <2>4. [m EXCEPT !.broken = TRUE] = ConnAs(m, m.state, m.served, TRUE, m.up, m.down)
    BY <2>3, ConnFields
  <2>5. ConnAs(m, m.state, m.served, TRUE, m.up, m.down)
        = ConnAs(k, "closed", k.served, TRUE, k.up, k.down)
    BY <2>3 DEF ConnAs
  <2>6. PICK n : n = ConnAs(k, "closed", k.served, TRUE, k.up, k.down)
    OBVIOUS
  <2>7. [m EXCEPT !.broken = TRUE] = n
    BY <2>4, <2>5, <2>6, Zenon
  <2>8. IsConn(n) /\ n.worker = k.worker /\ n.state = "closed" /\ n.served = k.served
       /\ n.broken = TRUE /\ n.up = k.up /\ n.down = k.down
    BY <2>6 DEF ConnAs, IsConn
  <2>9. [n EXCEPT !.down = <<>>] = ConnAs(n, n.state, n.served, n.broken, n.up, <<>>)
    <3>1. IsConn(n)
      BY <2>8
    <3>2. n = [worker |-> n.worker, state |-> n.state, served |-> n.served, broken |-> n.broken,
               up |-> n.up, down |-> n.down]
      BY <3>1 DEF IsConn, ConnAs
    <3> QED
      BY <3>2 DEF ConnAs
  <2>10. ConnAs(n, n.state, n.served, n.broken, n.up, <<>>)
        = ConnAs(k, "closed", k.served, TRUE, k.up, <<>>)
    BY <2>8 DEF ConnAs
  <2>11. [k EXCEPT !.state = "closed", !.broken = TRUE, !.down = <<>>]
        = [[[k EXCEPT !.state = "closed"] EXCEPT !.broken = TRUE] EXCEPT !.down = <<>>]
    OBVIOUS
  <2> QED
    BY <2>2, <2>7, <2>9, <2>10, <2>11, Zenon
<1>8. /\ WithServed(cs, c) = [cs EXCEPT ![c] = [k EXCEPT !.served = TRUE]]
      /\ Forgotten(cs, c) = [cs EXCEPT ![c] = [k EXCEPT !.served = FALSE, !.broken = TRUE]]
      /\ Broken(cs, c) = [cs EXCEPT ![c] = [k EXCEPT !.broken = TRUE, !.up = <<>>, !.down = <<>>]]
      /\ Gone(cs, c) = [cs EXCEPT ![c] = [k EXCEPT !.state = "closed", !.broken = TRUE, !.down = <<>>]]
  BY DEF k, WithServed, Forgotten, Broken, Gone
<1> DEFINE With(n) == [cs EXCEPT ![c] = n]
<1>9. ASSUME NEW n, IsConn(n) PROVE Updated(With(n), cs, c, n)
  BY <1>9, ConnReplaced DEF Updated
<1>10. \A s, v, b, u, n : IsConn(ConnAs(k, s, v, b, u, n))
  BY ConnAsFields
<1>11. \A s, v, b, u, n : Updated(With(ConnAs(k, s, v, b, u, n)), cs, c, ConnAs(k, s, v, b, u, n))
  <2> HIDE DEF With
  <2> QED
    BY <1>9, <1>10, Zenon
<1>12. /\ \A s : WithState(cs, c, s) = With(ConnAs(k, s, k.served, k.broken, k.up, k.down))
       /\ WithServed(cs, c) = With(ConnAs(k, k.state, TRUE, k.broken, k.up, k.down))
       /\ \A u : WithUp(cs, c, u) = With(ConnAs(k, k.state, k.served, k.broken, u, k.down))
       /\ \A u : WithDown(cs, c, u) = With(ConnAs(k, k.state, k.served, k.broken, k.up, u))
       /\ Forgotten(cs, c) = With(ConnAs(k, k.state, FALSE, TRUE, k.up, k.down))
       /\ Broken(cs, c) = With(ConnAs(k, k.state, k.served, TRUE, <<>>, <<>>))
       /\ Gone(cs, c) = With(ConnAs(k, "closed", k.served, TRUE, k.up, <<>>))
  <2>1. ASSUME NEW s PROVE WithState(cs, c, s) = With(ConnAs(k, s, k.served, k.broken, k.up, k.down))
    <3>1. [k EXCEPT !.state = s] = ConnAs(k, s, k.served, k.broken, k.up, k.down)
      BY <1>0, ConnFields
    <3>2. WithState(cs, c, s) = [cs EXCEPT ![c] = [k EXCEPT !.state = s]]
      BY DEF k, WithState
    <3> QED
      BY <3>1, <3>2, Zenon
  <2>2. WithServed(cs, c) = With(ConnAs(k, k.state, TRUE, k.broken, k.up, k.down))
    BY <1>2, <1>8, Zenon
  <2>3. ASSUME NEW u PROVE WithUp(cs, c, u) = With(ConnAs(k, k.state, k.served, k.broken, u, k.down))
    <3>1. [k EXCEPT !.up = u] = ConnAs(k, k.state, k.served, k.broken, u, k.down)
      BY <1>0, ConnFields
    <3>2. WithUp(cs, c, u) = [cs EXCEPT ![c] = [k EXCEPT !.up = u]]
      BY DEF k, WithUp
    <3> QED
      BY <3>1, <3>2, Zenon
  <2>4. ASSUME NEW u PROVE WithDown(cs, c, u) = With(ConnAs(k, k.state, k.served, k.broken, k.up, u))
    <3>1. k = [worker |-> k.worker, state |-> k.state, served |-> k.served, broken |-> k.broken,
               up |-> k.up, down |-> k.down]
      BY <1>0 DEF IsConn, ConnAs
    <3>2. [k EXCEPT !.down = u] = ConnAs(k, k.state, k.served, k.broken, k.up, u)
      BY <3>1 DEF ConnAs
    <3>3. WithDown(cs, c, u) = [cs EXCEPT ![c] = [k EXCEPT !.down = u]]
      BY DEF k, WithDown
    <3> QED
      BY <3>2, <3>3, Zenon
  <2>5. Forgotten(cs, c) = With(ConnAs(k, k.state, FALSE, TRUE, k.up, k.down))
    BY <1>5, <1>8, Zenon
  <2>6. Broken(cs, c) = With(ConnAs(k, k.state, k.served, TRUE, <<>>, <<>>))
    BY <1>6, <1>8, Zenon
  <2>7. Gone(cs, c) = With(ConnAs(k, "closed", k.served, TRUE, k.up, <<>>))
    BY <1>7, <1>8, Zenon
  <2> QED
    BY <2>1, <2>2, <2>3, <2>4, <2>5, <2>6, <2>7
<1> HIDE DEF With
<1> QED
  BY <1>11, <1>12, Zenon DEF k

\* sendElement and sendToClient
LEMMA SentFacts ==
    ASSUME NEW cs, IsConns(cs), NEW s \in 0..Len(cs), NEW es
    PROVE  IF s # 0 /\ cs[s].state = "open" /\ ~cs[s].broken
           THEN Updated(Sent(cs, s, es), cs, s,
                        ConnAs(cs[s], cs[s].state, cs[s].served, cs[s].broken, cs[s].up \o es, cs[s].down))
           ELSE Sent(cs, s, es) = cs
<1>1. CASE s # 0 /\ cs[s].state = "open" /\ ~cs[s].broken
  <2>1. s \in DOMAIN cs
    BY <1>1, IsSeqFacts DEF IsConns
  <2>2. Sent(cs, s, es) = WithUp(cs, s, cs[s].up \o es)
    BY <1>1 DEF Sent, WithUp
  <2> QED
    BY <1>1, <2>1, <2>2, ConnSteps
<1> QED
  BY <1>1 DEF Sent

LEMMA PushedFacts ==
    ASSUME NEW cs, IsConns(cs), NEW c \in 0..Len(cs), NEW e
    PROVE  IF c # 0 /\ ~cs[c].broken
           THEN Updated(Pushed(cs, c, e), cs, c,
                        ConnAs(cs[c], cs[c].state, cs[c].served, cs[c].broken, cs[c].up, Append(cs[c].down, e)))
           ELSE Pushed(cs, c, e) = cs
<1>1. CASE c # 0 /\ ~cs[c].broken
  <2>1. c \in DOMAIN cs
    BY <1>1, IsSeqFacts DEF IsConns
  <2>2. Pushed(cs, c, e) = WithDown(cs, c, Append(cs[c].down, e))
    BY <1>1 DEF Pushed, WithDown
  <2> QED
    BY <1>1, <2>1, <2>2, ConnSteps
<1> QED
  BY <1>1 DEF Pushed


-----------------------------------------------------------------------------
(***************************************************************************)
(* What queues hold: elements of others, and of the user only those in S.  *)
(***************************************************************************)
Only(es, S) == IsSeq(es) /\ \A x \in Range(es) : Mine(x.id) => x.id \in S

LEMMA SeqIsSeq ==
    ASSUME NEW S, NEW s \in Seq(S)
    PROVE  IsSeq(s) /\ Range(s) \subseteq S
<1>1. Len(s) \in Nat /\ DOMAIN s = 1..Len(s) /\ \A i \in 1..Len(s) : s[i] \in S /\ s[i] \in Range(s)
  BY DEF Range
<1>2. IsSeq(s)
  BY <1>1, SeqDef DEF IsSeq
<1> QED
  BY <1>1, <1>2 DEF Range

LEMMA OnlyGrows ==
    ASSUME NEW es, NEW S, NEW T, Only(es, S), S \subseteq T
    PROVE  Only(es, T)
  BY DEF Only

LEMMA OnlyEmpty == ASSUME NEW S PROVE Only(<<>>, S)
<1>1. <<>> \in Seq({}) /\ Range(<<>>) = {}
  BY DEF Range
<1> QED
  BY <1>1 DEF Only, IsSeq

LEMMA OnlyAppended ==
    ASSUME NEW es, NEW S, Only(es, S), NEW x, Mine(x.id) => x.id \in S
    PROVE  Only(Append(es, x), S)
<1> DEFINE t == Append(es, x)
<1>1. IsSeq(t) /\ Longer(t, es, x)
  BY Appended DEF Only
<1> HIDE DEF t
<1>2. Range(t) \subseteq Range(es) \cup {x}
  BY <1>1 DEF Longer, Range
<1>3. Only(t, S)
  BY <1>1, <1>2 DEF Only
<1> QED
  BY <1>3 DEF t

LEMMA OnlyTail ==
    ASSUME NEW es, NEW S, Only(es, S), es # <<>>
    PROVE  /\ Only(Tail(es), S) /\ Head(es) \in Range(es)
           /\ Mine(Head(es).id) => Head(es).id \in S
<1>1. es \in Seq(Range(es))
  BY DEF Only, IsSeq
<1>2. Tail(es) \in Seq(Range(es)) /\ Head(es) \in Range(es)
  <2> DEFINE R == Range(es)
  <2>1. es \in Seq(R)
    BY <1>1
  <2> HIDE DEF R
  <2>2. Tail(es) \in Seq(R) /\ Head(es) \in R
    BY <2>1
  <2> QED
    BY <2>2 DEF R
<1>3. IsSeq(Tail(es)) /\ Range(Tail(es)) \subseteq Range(es)
  BY <1>2, SeqIsSeq
<1> QED
  BY <1>2, <1>3 DEF Only

LEMMA OnlySuffix ==
    ASSUME NEW es, NEW S, Only(es, S), NEW n \in 0..Len(es)
    PROVE  Only(SubSeq(es, n + 1, Len(es)), S)
<1> DEFINE R == Range(es)
           t == SubSeq(es, n + 1, Len(es))
<1>1. es \in Seq(R)
  BY DEF Only, IsSeq
<1> HIDE DEF R
<1>2. Len(es) \in Nat /\ \A i \in (n + 1)..Len(es) : es[i] \in R
  BY <1>1
<1>3. t \in Seq(R)
  BY <1>1, <1>2
<1> HIDE DEF t
<1>4. IsSeq(t) /\ Range(t) \subseteq R
  BY <1>3, SeqIsSeq
<1>5. Only(t, S)
  BY <1>4 DEF Only, R
<1> QED
  BY <1>5 DEF t

LEMMA OnlyConcatenated ==
    ASSUME NEW es, NEW xs, NEW S, Only(es, S), Only(xs, S)
    PROVE  Only(es \o xs, S)
<1> DEFINE R == Range(es) \cup Range(xs)
<1>1. es \in Seq(R) /\ xs \in Seq(R)
  BY DEF Only, IsSeq
<1>2. \A x \in R : Mine(x.id) => x.id \in S
  BY DEF Only
<1> HIDE DEF R
<1>3. es \o xs \in Seq(R)
  BY <1>1
<1>4. IsSeq(es \o xs) /\ Range(es \o xs) \subseteq R
  BY <1>3, SeqIsSeq
<1> QED
  BY <1>2, <1>4 DEF Only

LEMMA OnlyOne ==
    ASSUME NEW S, NEW x, Mine(x.id) => x.id \in S
    PROVE  Only(<<x>>, S)
<1>1. IsSeq(<<x>>) /\ Range(<<x>>) = {x}
  <2>1. <<x>> \in Seq({x}) /\ DOMAIN <<x>> = {1} /\ <<x>>[1] = x
    OBVIOUS
  <2> QED
    BY <2>1 DEF IsSeq, Range
<1> QED
  BY <1>1 DEF Only

(***************************************************************************)
(* Websockets: K is what the page knows, S what is kept.                   *)
(***************************************************************************)
ConnOK(k, K, S) == Only(k.up, K) /\ Only(k.down, S)
AllConns(cs, K, S) == IsConns(cs) /\ \A c \in DOMAIN cs : ConnOK(cs[c], K, S)

LEMMA ConnsGrow ==
    ASSUME NEW cs, NEW K, NEW S, NEW L, NEW T, AllConns(cs, K, S), K \subseteq L, S \subseteq T
    PROVE  AllConns(cs, L, T)
  BY OnlyGrows DEF AllConns, ConnOK

LEMMA ConnChanged ==
    ASSUME NEW cs, NEW K, NEW S, AllConns(cs, K, S), NEW c \in DOMAIN cs, NEW k, ConnOK(k, K, S),
           NEW t, Updated(t, cs, c, k)
    PROVE  AllConns(t, K, S) /\ Len(t) = Len(cs) /\ DOMAIN t = DOMAIN cs
  BY DEF AllConns, Updated, Changed

LEMMA ConnsStay ==
    ASSUME NEW cs, NEW K, NEW S, AllConns(cs, K, S), NEW c \in DOMAIN cs,
           NEW t, t \in { WithState(cs, c, "open"), WithState(cs, c, "closing"), WithState(cs, c, "aborted"),
                          WithServed(cs, c), Forgotten(cs, c), Broken(cs, c), Gone(cs, c) }
    PROVE  AllConns(t, K, S) /\ Len(t) = Len(cs) /\ DOMAIN t = DOMAIN cs
<1> DEFINE k == cs[c]
<1>1. Only(k.up, K) /\ Only(k.down, S) /\ Only(<<>>, K) /\ Only(<<>>, S) /\ IsConns(cs)
  BY OnlyEmpty DEF AllConns, ConnOK
<1>2. \A s, v, b : /\ ConnOK(ConnAs(k, s, v, b, k.up, k.down), K, S)
                   /\ ConnOK(ConnAs(k, s, v, b, k.up, <<>>), K, S)
                   /\ ConnOK(ConnAs(k, s, v, b, <<>>, <<>>), K, S)
  BY <1>1 DEF ConnOK, ConnAs
<1>3. \E s, v, b : \/ Updated(t, cs, c, ConnAs(k, s, v, b, k.up, k.down))
                   \/ Updated(t, cs, c, ConnAs(k, s, v, b, k.up, <<>>))
                   \/ Updated(t, cs, c, ConnAs(k, s, v, b, <<>>, <<>>))
  <2>1. \A s : Updated(WithState(cs, c, s), cs, c, ConnAs(k, s, k.served, k.broken, k.up, k.down))
    BY <1>1, ConnSteps
  <2>2. /\ Updated(WithServed(cs, c), cs, c, ConnAs(k, k.state, TRUE, k.broken, k.up, k.down))
        /\ Updated(Forgotten(cs, c), cs, c, ConnAs(k, k.state, FALSE, TRUE, k.up, k.down))
        /\ Updated(Broken(cs, c), cs, c, ConnAs(k, k.state, k.served, TRUE, <<>>, <<>>))
        /\ Updated(Gone(cs, c), cs, c, ConnAs(k, "closed", k.served, TRUE, k.up, <<>>))
    BY <1>1, ConnSteps
  <2> HIDE DEF k
  <2> QED
    BY <2>1, <2>2
<1> HIDE DEF k
<1> QED
  BY <1>2, <1>3, ConnChanged

LEMMA UpTaken ==
    ASSUME NEW cs, NEW K, NEW S, AllConns(cs, K, S), NEW c \in DOMAIN cs, cs[c].up # <<>>
    PROVE  /\ AllConns(WithUp(cs, c, Tail(cs[c].up)), K, S)
           /\ Len(WithUp(cs, c, Tail(cs[c].up))) = Len(cs)
           /\ Mine(Head(cs[c].up).id) => Head(cs[c].up).id \in K
<1> DEFINE k == cs[c]
           m == ConnAs(k, k.state, k.served, k.broken, Tail(k.up), k.down)
<1>1. Only(k.up, K) /\ Only(k.down, S) /\ IsConns(cs)
  BY DEF AllConns, ConnOK
<1>2. Only(Tail(k.up), K) /\ (Mine(Head(k.up).id) => Head(k.up).id \in K)
  BY <1>1, OnlyTail
<1>3. ConnOK(m, K, S)
  BY <1>1, <1>2 DEF ConnOK, ConnAs
<1>4. Updated(WithUp(cs, c, Tail(k.up)), cs, c, m)
  BY <1>1, ConnSteps
<1> HIDE DEF m
<1> QED
  BY <1>2, <1>3, <1>4, ConnChanged

LEMMA DownTaken ==
    ASSUME NEW cs, NEW K, NEW S, AllConns(cs, K, S), NEW c \in DOMAIN cs, cs[c].down # <<>>
    PROVE  /\ AllConns(WithDown(cs, c, Tail(cs[c].down)), K, S)
           /\ Len(WithDown(cs, c, Tail(cs[c].down))) = Len(cs)
           /\ Mine(Head(cs[c].down).id) => Head(cs[c].down).id \in S
<1> DEFINE k == cs[c]
           m == ConnAs(k, k.state, k.served, k.broken, k.up, Tail(k.down))
<1>1. Only(k.up, K) /\ Only(k.down, S) /\ IsConns(cs)
  BY DEF AllConns, ConnOK
<1>2. Only(Tail(k.down), S) /\ (Mine(Head(k.down).id) => Head(k.down).id \in S)
  BY <1>1, OnlyTail
<1>3. ConnOK(m, K, S)
  BY <1>1, <1>2 DEF ConnOK, ConnAs
<1>4. Updated(WithDown(cs, c, Tail(k.down)), cs, c, m)
  BY <1>1, ConnSteps
<1> HIDE DEF m
<1> QED
  BY <1>2, <1>3, <1>4, ConnChanged

LEMMA SentOK ==
    ASSUME NEW cs, NEW K, NEW S, AllConns(cs, K, S), NEW s \in 0..Len(cs), NEW es, Only(es, K)
    PROVE  AllConns(Sent(cs, s, es), K, S) /\ Len(Sent(cs, s, es)) = Len(cs)
<1>1. IsConns(cs)
  BY DEF AllConns
<1>2. CASE s # 0 /\ cs[s].state = "open" /\ ~cs[s].broken
  <2> DEFINE m == ConnAs(cs[s], cs[s].state, cs[s].served, cs[s].broken, cs[s].up \o es, cs[s].down)
  <2>1. Updated(Sent(cs, s, es), cs, s, m)
    BY <1>1, <1>2, SentFacts
  <2>2. s \in DOMAIN cs
    BY <1>1, <1>2, IsSeqFacts DEF IsConns
  <2>3. Only(cs[s].up \o es, K) /\ Only(cs[s].down, S)
    BY <2>2, OnlyConcatenated DEF AllConns, ConnOK
  <2>4. ConnOK(m, K, S)
    BY <2>3 DEF ConnOK, ConnAs
  <2> HIDE DEF m
  <2> QED
    BY <2>1, <2>2, <2>4, ConnChanged
<1>3. CASE ~(s # 0 /\ cs[s].state = "open" /\ ~cs[s].broken)
  BY <1>3 DEF Sent
<1> QED
  BY <1>2, <1>3

LEMMA PushedOK ==
    ASSUME NEW cs, NEW K, NEW S, AllConns(cs, K, S), NEW c \in 0..Len(cs), NEW e,
           c # 0 /\ Mine(e.id) => e.id \in S
    PROVE  AllConns(Pushed(cs, c, e), K, S) /\ Len(Pushed(cs, c, e)) = Len(cs)
<1>1. IsConns(cs)
  BY DEF AllConns
<1>2. CASE c # 0 /\ ~cs[c].broken
  <2> DEFINE m == ConnAs(cs[c], cs[c].state, cs[c].served, cs[c].broken, cs[c].up, Append(cs[c].down, e))
  <2>1. Updated(Pushed(cs, c, e), cs, c, m)
    BY <1>1, <1>2, PushedFacts
  <2>2. c \in DOMAIN cs
    BY <1>1, <1>2, IsSeqFacts DEF IsConns
  <2>3. Only(Append(cs[c].down, e), S) /\ Only(cs[c].up, K)
    BY <1>2, <2>2, OnlyAppended DEF AllConns, ConnOK
  <2>4. ConnOK(m, K, S)
    BY <2>3 DEF ConnOK, ConnAs
  <2> HIDE DEF m
  <2> QED
    BY <2>1, <2>2, <2>4, ConnChanged
<1>3. CASE ~(c # 0 /\ ~cs[c].broken)
  BY <1>3 DEF Pushed
<1> QED
  BY <1>2, <1>3

\* initWS
NewConn(w) == [worker |-> w, state |-> "connecting", served |-> FALSE,
               broken |-> FALSE, up |-> <<>>, down |-> <<>>]

LEMMA ConnAdded ==
    ASSUME NEW cs, NEW K, NEW S, AllConns(cs, K, S), NEW w
    PROVE  AllConns(Append(cs, NewConn(w)), K, S) /\ Len(Append(cs, NewConn(w))) = Len(cs) + 1
<1> DEFINE k == NewConn(w)
           t == Append(cs, k)
<1>1. IsConn(k) /\ ConnOK(k, K, S)
  BY OnlyEmpty DEF NewConn, IsConn, ConnAs, ConnOK
<1> HIDE DEF k
<1>2. IsSeq(t) /\ Longer(t, cs, k)
  BY Appended DEF AllConns, IsConns
<1> HIDE DEF t
<1>3. AllConns(t, K, S) /\ Len(t) = Len(cs) + 1
  BY <1>1, <1>2 DEF AllConns, IsConns, Longer
<1> QED
  BY <1>3 DEF t, k

LEMMA SocketAdded ==
    ASSUME NEW K, NEW S, AllConns(conns, K, S), NEW w, InitWS(w)
    PROVE  AllConns(conns', K, S) /\ Len(conns') = Len(conns) + 1 /\ socket' = Len(conns')
<1>1. conns' = Append(conns, NewConn(w)) /\ socket' = Len(conns) + 1
  BY DEF InitWS, NewConn
<1>2. AllConns(Append(conns, NewConn(w)), K, S) /\ Len(Append(conns, NewConn(w))) = Len(conns) + 1
  BY ConnAdded, Zenon
<1> QED
  BY <1>1, <1>2

(***************************************************************************)
(* Requests: the replies name workers, or have what the page may get.      *)
(***************************************************************************)
AskOK(a, K, S) ==
    /\ a.kind \in {"register", "again"} /\ a.reply # <<>> => a.reply[1] \in Workers \cup {NONE}
    /\ a.kind = "session" /\ a.reply # <<>> =>
          DocOK(a.reply[1]) /\ \A k \in Known(a.reply[1]) : Mine(k) => k \in K
    /\ a.kind = "recover" /\ a.reply # <<>> /\ a.reply # <<NONE>> => Only(a.reply[1], S)
AllAsks(s, K, S) == IsAsks(s) /\ \A i \in DOMAIN s : AskOK(s[i], K, S)

LEMMA AsksGrow ==
    ASSUME NEW s, NEW K, NEW S, NEW L, NEW T, AllAsks(s, K, S), K \subseteq L, S \subseteq T
    PROVE  AllAsks(s, L, T)
<1>1. ASSUME NEW i \in DOMAIN s PROVE AskOK(s[i], L, T)
  <2>1. AskOK(s[i], K, S)
    BY DEF AllAsks
  <2> QED
    BY <2>1, OnlyGrows DEF AskOK
<1> QED
  BY <1>1 DEF AllAsks

LEMMA AskAdded ==
    ASSUME NEW s, NEW K, NEW S, AllAsks(s, K, S), NEW kind, NEW w
    PROVE  AllAsks(Append(s, Ask(kind, w)), K, S)
<1> DEFINE a == Ask(kind, w)
           t == Append(s, a)
<1>1. IsAsk(a) /\ AskOK(a, K, S)
  BY DEF Ask, IsAsk, AskOK
<1>2. IsSeq(t) /\ Longer(t, s, a)
  BY Appended DEF AllAsks, IsAsks
<1> HIDE DEF t, a
<1>3. AllAsks(t, K, S)
  BY <1>1, <1>2 DEF AllAsks, IsAsks, Longer
<1> QED
  BY <1>3 DEF t, a

LEMMA AskRemoved ==
    ASSUME NEW s, NEW K, NEW S, AllAsks(s, K, S), NEW i \in DOMAIN s
    PROVE  AllAsks(RemoveAt(s, i), K, S)
<1> DEFINE t == RemoveAt(s, i)
<1>1. IsSeq(t) /\ Shorter(t, s, i)
  BY Removed DEF AllAsks, IsAsks
<1> HIDE DEF t
<1>2. AllAsks(t, K, S)
  BY <1>1 DEF AllAsks, IsAsks, Shorter
<1> QED
  BY <1>2 DEF t

LEMMA AskAnswered ==
    ASSUME NEW s, NEW K, NEW S, AllAsks(s, K, S), NEW i \in DOMAIN s, NEW r,
           AskOK([kind |-> s[i].kind, worker |-> s[i].worker, reply |-> r], K, S)
    PROVE  AllAsks([s EXCEPT ![i].reply = r], K, S)
<1> DEFINE t == Replied(s, i, r)
           a == [kind |-> s[i].kind, worker |-> s[i].worker, reply |-> r]
<1>1. IsAsks(t) /\ Changed(t, s, i, a)
  BY ReplyGiven DEF AllAsks
<1>2. AskOK(a, K, S)
  OBVIOUS
<1> HIDE DEF t, a
<1>3. AllAsks(t, K, S)
  BY <1>1, <1>2 DEF AllAsks, Changed
<1> QED
  BY <1>3 DEF t, Replied

\* closeSession
LEMMA CloseAsked ==
    ASSUME NEW s, NEW K, NEW S, AllAsks(s, K, S), NEW n \in Nat, NEW w
    PROVE  AllAsks(s \o [i \in 1..n |-> Ask("close", w)], K, S)
<1> DEFINE a == Ask("close", w)
           xs == [i \in 1..n |-> a]
           R == Range(s) \cup {a}
           t == s \o xs
<1>1. IsAsk(a) /\ AskOK(a, K, S)
  BY DEF Ask, IsAsk, AskOK
<1> HIDE DEF a
<1>2. s \in Seq(R) /\ xs \in Seq(R)
  BY DEF AllAsks, IsAsks, IsSeq
<1>3. \A x \in R : IsAsk(x) /\ AskOK(x, K, S)
  BY <1>1 DEF AllAsks, IsAsks, Range
<1> HIDE DEF xs, R
<1>4. t \in Seq(R)
  BY <1>2
<1> HIDE DEF t
<1>5. IsSeq(t) /\ Range(t) \subseteq R
  BY <1>4, SeqIsSeq
<1>6. \A i \in DOMAIN t : t[i] \in R
  BY <1>5 DEF Range
<1>7. AllAsks(t, K, S)
  BY <1>3, <1>5, <1>6 DEF AllAsks, IsAsks
<1> QED
  BY <1>7 DEF t, xs, a

-----------------------------------------------------------------------------
(***************************************************************************)
(* The invariant.                                                          *)
(***************************************************************************)
KeptIds == { k \in Known(doc) : IsKept(k) }

PageOK ==
    /\ DocOK(doc) /\ cache \in Seq(Known(doc))
    /\ \A k \in Known(doc) : Mine(k) => k \in Range(cache) \/ IsKept(k)

FlagsOK ==
    /\ {loaded, recovering, unload, gaveUp} \subseteq BOOLEAN
    /\ workerIP \in Workers \cup {NONE} /\ socket = Len(conns) /\ timers \in Nat
    /\ up \subseteq Workers
    /\ clients \in [Workers -> 0..Len(conns)]

\* A session knows of the user only what the page knows.
SessionOK(w) ==
    /\ DocOK(wdoc[w])
    /\ \A k \in Known(wdoc[w]) : Mine(k) => k \in Known(doc)

\* What a worker has for the others it has got itself.
OutOK(w) ==
    /\ Only(out[w], Known(doc))
    /\ \A i \in DOMAIN out[w] : ~out[w][i].del => out[w][i].id \in Known(wdoc[w])

\* What it has sent to another one, that one has got.
SentToOK(w) ==
    \A v \in Workers :
        /\ sent[w][v] \in 0..Len(out[w])
        /\ v # w => \A i \in 1..sent[w][v] : ~out[w][i].del => out[w][i].id \in Known(wdoc[v])

CacheOK(w) == w \in up => Only(wcache[w], KeptIds)
AckOK(w) == toAck[w] \in Seq(1..Len(out[w]))

Functions ==
    /\ DOMAIN wdoc = Workers /\ DOMAIN out = Workers /\ DOMAIN wcache = Workers
    /\ DOMAIN toAck = Workers /\ DOMAIN sent = Workers
    /\ \A w \in Workers : DOMAIN sent[w] = Workers

WorkersOK ==
    /\ Functions
    /\ \A w \in Workers : SessionOK(w) /\ OutOK(w) /\ SentToOK(w) /\ CacheOK(w) /\ AckOK(w)

KeptInv ==
    /\ PageOK /\ FlagsOK /\ WorkersOK
    /\ AllConns(conns, Known(doc), KeptIds)
    /\ AllAsks(asks, Known(doc), KeptIds)

\* Nothing that is known or has been sent is taken back.
Growing ==
    /\ Known(doc) \subseteq Known(doc')
    /\ \A w \in Workers :
          /\ Known(wdoc[w]) \subseteq Known(wdoc'[w])
          /\ \A i \in DOMAIN out[w] : i \in DOMAIN out'[w] /\ out'[w][i] = out[w][i]

LEMMA KeptGrows ==
    ASSUME Growing
    PROVE  KeptIds \subseteq KeptIds' /\ \A k : IsKept(k) => IsKept(k)'
<1>1. ASSUME NEW k, IsKept(k) PROVE IsKept(k)'
  <2>1. ASSUME NEW v \in Workers, NEW w \in Workers, v # w, k \in Known(wdoc[v]), k \in Known(wdoc[w])
        PROVE  IsKept(k)'
    BY <2>1 DEF Growing, IsKept
  <2>2. ASSUME NEW w \in Workers, NEW i \in DOMAIN out[w], out[w][i].id = k, out[w][i].del
        PROVE  IsKept(k)'
    <3>1. i \in DOMAIN out'[w] /\ out'[w][i] = out[w][i]
      BY DEF Growing
    <3>2. out'[w][i].id = k /\ out'[w][i].del
      BY <2>2, <3>1
    <3> QED
      BY <3>1, <3>2 DEF IsKept
  <2> QED
    BY <1>1, <2>1, <2>2 DEF IsKept
<1>2. KeptIds \subseteq KeptIds'
  BY <1>1 DEF KeptIds, Growing
<1> QED
  BY <1>1, <1>2

\* A step of the page leaves the workers alone.
LEMMA PageGrows ==
    ASSUME KeptInv, Known(doc) \subseteq Known(doc'), UNCHANGED <<up, session, toAck>>
    PROVE  /\ KeptIds \subseteq KeptIds' /\ (\A k : IsKept(k) => IsKept(k)')
           /\ WorkersOK'
           /\ AllConns(conns, Known(doc'), KeptIds') /\ AllAsks(asks, Known(doc'), KeptIds')
<1>1. Growing
  BY DEF Growing, session
<1>2. KeptIds \subseteq KeptIds' /\ \A k : IsKept(k) => IsKept(k)'
  BY <1>1, KeptGrows
<1>3. AllConns(conns, Known(doc'), KeptIds') /\ AllAsks(asks, Known(doc'), KeptIds')
  BY <1>2, ConnsGrow, AsksGrow DEF KeptInv
<1>4. ASSUME NEW w \in Workers
      PROVE  SessionOK(w)' /\ OutOK(w)' /\ SentToOK(w)' /\ CacheOK(w)' /\ AckOK(w)'
  <2>1. SessionOK(w) /\ OutOK(w) /\ SentToOK(w) /\ CacheOK(w) /\ AckOK(w)
    BY DEF KeptInv, WorkersOK
  <2>2. SessionOK(w)' /\ SentToOK(w)' /\ AckOK(w)'
    BY <2>1 DEF SessionOK, SentToOK, AckOK, session
  <2>3. OutOK(w)'
    BY <2>1, OnlyGrows DEF OutOK, session
  <2>4. CacheOK(w)'
    BY <1>2, <2>1, OnlyGrows DEF CacheOK, session
  <2> QED
    BY <2>2, <2>3, <2>4
<1>5. Functions'
  BY DEF KeptInv, WorkersOK, Functions, session
<1> QED
  BY <1>2, <1>3, <1>4, <1>5 DEF WorkersOK

-----------------------------------------------------------------------------
(***************************************************************************)
(* Steps that leave the documents of the page and of the workers alone.    *)
(***************************************************************************)
LEMMA TextStays ==
    ASSUME KeptInv, UNCHANGED <<text, up, session, toAck>>, FlagsOK',
           AllConns(conns', Known(doc), KeptIds), AllAsks(asks', Known(doc), KeptIds)
    PROVE  KeptInv'
<1>1. doc' = doc /\ cache' = cache /\ Known(doc)' = Known(doc) /\ wdoc' = wdoc /\ out' = out
  BY DEF text, session
<1>2. KeptIds' = KeptIds /\ \A k : IsKept(k)' <=> IsKept(k)
  BY <1>1 DEF KeptIds, IsKept
<1>3. WorkersOK'
  BY PageGrows DEF text
<1>4. PageOK'
  BY <1>1, <1>2 DEF KeptInv, PageOK
<1>5. AllConns(conns, Known(doc), KeptIds)' /\ AllAsks(asks, Known(doc), KeptIds)'
  BY <1>1, <1>2
<1> QED
  BY <1>3, <1>4, <1>5 DEF KeptInv

\* What the invariant says of the variables the page and the net have.
LEMMA LinkFacts ==
    ASSUME KeptInv
    PROVE  /\ FlagsOK /\ AllConns(conns, Known(doc), KeptIds) /\ AllAsks(asks, Known(doc), KeptIds)
           /\ Len(conns) \in Nat /\ DOMAIN conns = 1..Len(conns)
           /\ socket = Len(conns) /\ timers \in Nat
<1>1. Len(conns) \in Nat /\ DOMAIN conns = 1..Len(conns)
  BY IsSeqFacts DEF KeptInv, AllConns, IsConns
<1> QED
  BY <1>1 DEF KeptInv, FlagsOK

\* What closeSession does to the websockets cs.
LEMMA SessionCloses ==
    ASSUME KeptInv, NEW cs, AllConns(cs, Known(doc), KeptIds), Len(cs) = Len(conns), NEW n \in Nat,
           CloseSession(cs, n)
    PROVE  /\ AllConns(conns', Known(doc), KeptIds) /\ Len(conns') = Len(conns)
           /\ AllAsks(asks', Known(doc), KeptIds)
<1>1. AllAsks(asks', Known(doc), KeptIds)
  <2>1. asks' = asks \o [i \in 1..n |-> Ask("close", workerIP)]
    BY DEF CloseSession
  <2>2. AllAsks(asks \o [i \in 1..n |-> Ask("close", workerIP)], Known(doc), KeptIds)
    <3>1. AllAsks(asks, Known(doc), KeptIds)
      BY LinkFacts
    <3> QED
      BY <3>1, CloseAsked, Zenon
  <2> QED
    BY <2>1, <2>2
<1>2. Len(cs) \in Nat /\ DOMAIN cs = 1..Len(cs)
  BY IsSeqFacts DEF AllConns, IsConns
<1>3. CASE socket # 0 /\ cs[socket].state \in {"connecting", "open"}
  <2>1. socket \in DOMAIN cs
    BY <1>2, <1>3, LinkFacts
  <2>2. conns' = [cs EXCEPT ![socket].state = IF cs[socket].state = "open" THEN "closing" ELSE "aborted"]
    BY <1>3 DEF CloseSession
  <2>3. conns' = WithState(cs, socket, "closing") \/ conns' = WithState(cs, socket, "aborted")
    BY <2>2 DEF WithState
  <2> QED
    BY <1>1, <2>1, <2>3, ConnsStay
<1>4. CASE ~(socket # 0 /\ cs[socket].state \in {"connecting", "open"})
  BY <1>1, <1>4 DEF CloseSession
<1> QED
  BY <1>3, <1>4

LEMMA RegisteredKeeps ==
    ASSUME KeptInv, NEW i \in DOMAIN asks, Registered(i)
    PROVE  KeptInv'
<1> DEFINE w == asks[i].reply[1]
<1>1. AllAsks(asks', Known(doc), KeptIds)
  BY LinkFacts, AskRemoved DEF Registered, Without
<1>2. w \in Workers \cup {NONE}
  BY LinkFacts DEF Registered, AllAsks, AskOK
<1>3. UNCHANGED <<text, up, session, toAck>>
  BY DEF Registered, worker
<1>4. CASE w = NONE
  <2>1. UNCHANGED <<loaded, recovering, unload, timers, up, clients, conns, socket, workerIP>> /\ gaveUp' = TRUE
    BY <1>4 DEF Registered, worker
  <2>2. FlagsOK'
    BY <2>1, LinkFacts DEF FlagsOK
  <2> QED
    BY <1>1, <1>3, <2>1, <2>2, LinkFacts, TextStays
<1>5. CASE w # NONE
  <2>1. /\ UNCHANGED <<loaded, recovering, unload, timers, up, clients, gaveUp>>
        /\ workerIP' = w /\ InitWS(w)
    BY <1>5 DEF Registered, worker
  <2>2. AllConns(conns', Known(doc), KeptIds) /\ Len(conns') = Len(conns) + 1
    BY <2>1, LinkFacts, SocketAdded
  <2>3. socket' = Len(conns')
    BY <2>1, <2>2 DEF InitWS
  <2>4. FlagsOK'
    BY <1>2, <2>1, <2>2, <2>3, LinkFacts DEF FlagsOK
  <2> QED
    BY <1>1, <1>3, <2>2, <2>4, TextStays
<1> QED
  BY <1>4, <1>5

LEMMA ReassignedKeeps ==
    ASSUME KeptInv, NEW i \in DOMAIN asks, Reassigned(i)
    PROVE  KeptInv'
<1> DEFINE w == asks[i].reply[1]
<1>1. AllAsks(Without(i), Known(doc), KeptIds)
  BY LinkFacts, AskRemoved DEF Without
<1>2. AllAsks(asks', Known(doc), KeptIds)
  BY <1>1, AskAdded DEF Reassigned
<1>3. w \in Workers \cup {NONE}
  BY LinkFacts DEF Reassigned, AllAsks, AskOK
<1>4. UNCHANGED <<text, up, session, toAck, loaded, socket, unload, timers, gaveUp, conns, clients>>
  BY DEF Reassigned, worker
<1>5. workerIP' \in {w, workerIP} /\ (workerIP' = w => w # NONE \/ workerIP = w) /\ recovering' \in BOOLEAN
  BY DEF Reassigned
<1>6. FlagsOK'
  BY <1>3, <1>4, <1>5, LinkFacts DEF FlagsOK
<1> QED
  BY <1>2, <1>4, <1>6, LinkFacts, TextStays

LEMMA RecoveryFailsKeeps ==
    ASSUME KeptInv, NEW i \in DOMAIN asks, RecoveryFails(i)
    PROVE  KeptInv'
<1>1. AllAsks(asks', Known(doc), KeptIds)
  BY LinkFacts, AskRemoved DEF RecoveryFails, Without
<1>2. UNCHANGED <<text, up, session, toAck, loaded, workerIP, socket, recovering, unload, timers, conns, clients>>
      /\ gaveUp' = TRUE
  BY DEF RecoveryFails, worker
<1>3. FlagsOK'
  BY <1>2, LinkFacts DEF FlagsOK
<1> QED
  BY <1>1, <1>2, <1>3, LinkFacts, TextStays

\* What sendCachedElements sends is known to the page.
LEMMA CachedKnown == ASSUME KeptInv PROVE Only(CachedElements, Known(doc))
<1> DEFINE es == [k \in DOMAIN cache |-> Element(doc, cache[k])]
           R == { Element(doc, x) : x \in Known(doc) }
<1>1. cache \in Seq(Known(doc))
  BY DEF KeptInv, PageOK
<1>2. \A k \in DOMAIN cache : Element(doc, cache[k]) \in R
  BY <1>1
<1>3. es \in Seq(R)
  <2> DEFINE n == Len(cache)
  <2>1. n \in Nat /\ DOMAIN cache = 1..n
    BY <1>1
  <2>2. es = [k \in 1..n |-> Element(doc, cache[k])] /\ \A k \in 1..n : Element(doc, cache[k]) \in R
    BY <1>2, <2>1
  <2> HIDE DEF es, R, n
  <2>3. es \in [1..n -> R]
    BY <2>2
  <2> QED
    BY <2>1, <2>3, SeqDef
<1>4. \A x \in R : x.id \in Known(doc)
  BY DEF Element, Elem
<1> HIDE DEF es, R
<1>5. IsSeq(es) /\ Range(es) \subseteq R
  BY <1>3, SeqIsSeq
<1>6. Only(es, Known(doc))
  BY <1>4, <1>5 DEF Only
<1> QED
  BY <1>6 DEF CachedElements, es

LEMMA OpenedKeeps ==
    ASSUME KeptInv, NEW c \in DOMAIN conns, Opened(c)
    PROVE  KeptInv'
<1> DEFINE open == [conns EXCEPT ![c].state = "open"]
<1>1. AllConns(open, Known(doc), KeptIds) /\ Len(open) = Len(conns)
  BY LinkFacts, ConnsStay DEF WithState
<1>2. UNCHANGED <<text, up, session, toAck, loaded, workerIP, socket, unload, timers, gaveUp, clients>>
  BY DEF Opened, worker
<1>3. CASE recovering
  <2>1. conns' = Sent(open, socket, CachedElements) /\ recovering' = FALSE /\ asks' = asks
    BY <1>3 DEF Opened
  <2>2. socket \in 0..Len(open)
    BY <1>1, LinkFacts
  <2> HIDE DEF open
  <2>3. AllConns(conns', Known(doc), KeptIds) /\ Len(conns') = Len(conns)
    BY <1>1, <2>1, <2>2, CachedKnown, SentOK
  <2>4. FlagsOK'
    BY <1>2, <2>1, <2>3, LinkFacts DEF FlagsOK
  <2> QED
    BY <1>2, <2>1, <2>3, <2>4, LinkFacts, TextStays
<1>4. CASE ~recovering
  <2>1. conns' = open /\ asks' = Append(asks, Ask("session", workerIP)) /\ recovering' = recovering
    BY <1>4 DEF Opened
  <2>2. AllAsks(asks', Known(doc), KeptIds)
    BY <2>1, LinkFacts, AskAdded
  <2> HIDE DEF open
  <2>3. FlagsOK'
    BY <1>1, <1>2, <2>1, LinkFacts DEF FlagsOK
  <2> QED
    BY <1>1, <1>2, <2>1, <2>2, <2>3, TextStays
<1> QED
  BY <1>3, <1>4

LEMMA ClosedKeeps ==
    ASSUME KeptInv, NEW c \in DOMAIN conns, Closed(c)
    PROVE  KeptInv'
<1> DEFINE cs == [conns EXCEPT ![c].state = "closed", ![c].broken = TRUE, ![c].down = <<>>]
<1>1. AllConns(cs, Known(doc), KeptIds) /\ Len(cs) = Len(conns)
  BY LinkFacts, ConnsStay DEF Gone
<1>2. PICK n \in Ends(c) : CloseSession(cs, n) /\ timers' = timers + n
  BY DEF Closed
<1>3. n \in Nat
  BY DEF Ends
<1> HIDE DEF cs
<1>4. /\ AllConns(conns', Known(doc), KeptIds) /\ Len(conns') = Len(conns)
      /\ AllAsks(asks', Known(doc), KeptIds)
  BY <1>1, <1>2, <1>3, SessionCloses
<1>5. UNCHANGED <<text, up, session, toAck, loaded, workerIP, socket, recovering, unload, gaveUp, clients>>
  BY DEF Closed, worker
<1>6. FlagsOK'
  BY <1>2, <1>3, <1>4, <1>5, LinkFacts DEF FlagsOK
<1> QED
  BY <1>4, <1>5, <1>6, TextStays

LEMMA TimerFiresKeeps == ASSUME KeptInv, TimerFires PROVE KeptInv'
<1>1. AllAsks(asks', Known(doc), KeptIds)
  BY LinkFacts, AskAdded DEF TimerFires
<1>2. /\ UNCHANGED <<text, up, session, toAck, loaded, workerIP, socket, unload, gaveUp, conns, clients>>
      /\ timers > 0 /\ timers' = timers - 1 /\ recovering' = TRUE
  BY DEF TimerFires, worker
<1>3. FlagsOK'
  BY <1>2, LinkFacts DEF FlagsOK
<1> QED
  BY <1>1, <1>2, <1>3, LinkFacts, TextStays

LEMMA LeaveKeeps == ASSUME KeptInv, Leave PROVE KeptInv'
<1>1. /\ AllConns(conns', Known(doc), KeptIds) /\ Len(conns') = Len(conns)
      /\ AllAsks(asks', Known(doc), KeptIds)
  BY LinkFacts, SessionCloses DEF Leave
<1>2. /\ UNCHANGED <<text, up, session, toAck, loaded, workerIP, socket, recovering, gaveUp, clients>>
      /\ unload' = TRUE /\ timers' = 0
  BY DEF Leave, worker
<1>3. FlagsOK'
  BY <1>1, <1>2, LinkFacts DEF FlagsOK
<1> QED
  BY <1>1, <1>2, <1>3, TextStays

-----------------------------------------------------------------------------
(***************************************************************************)
(* Steps of the page that change its document.                             *)
(***************************************************************************)
LEMMA PageHandles ==
    ASSUME KeptInv, NEW ids, Handled(doc, cache, doc', cache', ids),
           \A x \in ids : Mine(x) => x \in KeptIds, UNCHANGED <<up, session, toAck>>
    PROVE  /\ PageOK' /\ WorkersOK'
           /\ AllConns(conns, Known(doc'), KeptIds') /\ AllAsks(asks, Known(doc'), KeptIds')
<1>1. /\ DocOK(doc') /\ Known(doc) \subseteq Known(doc') /\ Known(doc') \subseteq Known(doc) \cup ids
      /\ cache' \in Seq(Known(doc')) /\ Range(cache) \subseteq Range(cache') \cup ids
  BY DEF Handled
<1>2. /\ \A k : IsKept(k) => IsKept(k)'
      /\ WorkersOK'
      /\ AllConns(conns, Known(doc'), KeptIds') /\ AllAsks(asks, Known(doc'), KeptIds')
  BY <1>1, PageGrows
<1>3. ASSUME NEW k \in Known(doc'), Mine(k) PROVE k \in Range(cache') \/ IsKept(k)'
  <2>1. CASE k \in ids
    <3>1. IsKept(k)
      BY <2>1, <1>3 DEF KeptIds
    <3> QED
      BY <3>1, <1>2
  <2>2. CASE k \notin ids
    <3>1. k \in Known(doc)
      BY <2>2, <1>1
    <3>2. k \in Range(cache) \/ IsKept(k)
      BY <3>1, <1>3 DEF KeptInv, PageOK
    <3> QED
      BY <3>2, <2>2, <1>1, <1>2
  <2> QED
    BY <2>1, <2>2
<1>4. PageOK'
  BY <1>1, <1>3 DEF PageOK
<1> QED
  BY <1>2, <1>4

LEMMA SessionLoadedKeeps ==
    ASSUME KeptInv, NEW i \in DOMAIN asks, SessionLoaded(i)
    PROVE  KeptInv'
<1> DEFINE r == asks[i].reply[1]
<1>1. DocOK(r) /\ \A k \in Known(r) : Mine(k) => k \in Known(doc)
  BY LinkFacts DEF SessionLoaded, AllAsks, AskOK
<1>2. /\ UNCHANGED <<cache, workerIP, socket, recovering, unload, timers, gaveUp, conns, up, session,
                     toAck, clients>>
      /\ doc' \in Overwritten(doc, r) /\ asks' = Without(i) /\ loaded' = TRUE
  BY DEF SessionLoaded, worker
<1> HIDE DEF r
<1>3. DocOK(doc') /\ Known(doc') = Known(doc) \cup Known(r)
  BY <1>1, <1>2, OverwrittenOK DEF KeptInv, PageOK
<1>4. /\ \A k : IsKept(k) => IsKept(k)'
      /\ WorkersOK'
      /\ AllConns(conns, Known(doc'), KeptIds') /\ AllAsks(asks, Known(doc'), KeptIds')
  BY <1>2, <1>3, PageGrows
<1>5. PageOK'
  <2>1. cache \in Seq(Known(doc)) /\ Known(doc) \subseteq Known(doc')
    BY <1>3 DEF KeptInv, PageOK
  <2>2. cache' \in Seq(Known(doc'))
    BY <2>1, <1>2
  <2>3. \A k \in Known(doc') : Mine(k) => k \in Range(cache') \/ IsKept(k)'
    BY <1>1, <1>2, <1>3, <1>4 DEF KeptInv, PageOK
  <2> QED
    BY <2>2, <2>3, <1>3 DEF PageOK
<1>6. AllAsks(asks', Known(doc'), KeptIds')
  BY <1>2, <1>4, AskRemoved DEF Without
<1>7. FlagsOK'
  BY <1>2, LinkFacts DEF FlagsOK
<1> QED
  BY <1>2, <1>4, <1>5, <1>6, <1>7 DEF KeptInv

LEMMA ReceiveKeeps ==
    ASSUME KeptInv, NEW c \in DOMAIN conns, Receive(c)
    PROVE  KeptInv'
<1> DEFINE e == Head(conns[c].down)
<1>1. /\ UNCHANGED <<loaded, workerIP, socket, recovering, unload, timers, gaveUp, asks, up, session,
                     toAck, clients>>
      /\ RemoteOperations(<<e>>) /\ conns[c].down # <<>>
      /\ conns' = WithDown(conns, c, Tail(conns[c].down))
  BY DEF Receive, worker, WithDown
<1>2. Mine(e.id) => e.id \in KeptIds
  BY <1>1, LinkFacts, DownTaken
<1> HIDE DEF e
<1>3. Handled(doc, cache, doc', cache', {e.id})
  <2>1. Handled(doc, cache, doc', cache', IdsOf(<<e>>, Len(<<e>>)))
    BY <1>1, ElementsHandled DEF KeptInv, PageOK
  <2>2. IdsOf(<<e>>, Len(<<e>>)) = {e.id}
    BY DEF IdsOf
  <2> QED
    BY <2>1, <2>2
<1>4. /\ PageOK' /\ WorkersOK'
      /\ AllConns(conns, Known(doc'), KeptIds') /\ AllAsks(asks, Known(doc'), KeptIds')
  BY <1>1, <1>2, <1>3, PageHandles
<1>5. AllConns(conns', Known(doc'), KeptIds') /\ Len(conns') = Len(conns)
  BY <1>1, <1>4, DownTaken
<1>6. FlagsOK'
  BY <1>1, <1>5, LinkFacts DEF FlagsOK
<1> QED
  BY <1>1, <1>4, <1>5, <1>6 DEF KeptInv

LEMMA RecoveredKeeps ==
    ASSUME KeptInv, NEW i \in DOMAIN asks, Recovered(i)
    PROVE  KeptInv'
<1> DEFINE es == asks[i].reply[1]
<1>1. /\ UNCHANGED <<workerIP, recovering, unload, timers, gaveUp, up, session, toAck, clients>>
      /\ RemoteOperations(es) /\ InitWS(workerIP) /\ loaded' = TRUE /\ asks' = Without(i)
  BY DEF Recovered, worker
<1>2. Only(es, KeptIds)
  BY LinkFacts DEF Recovered, AllAsks, AskOK
<1> HIDE DEF es
<1>3. Len(es) \in Nat /\ \A x \in IdsOf(es, Len(es)) : Mine(x) => x \in KeptIds
  <2>1. Len(es) \in Nat /\ DOMAIN es = 1..Len(es)
    BY <1>2, IsSeqFacts DEF Only
  <2> QED
    BY <2>1, <1>2 DEF Only, IdsOf, Range
<1>4. Handled(doc, cache, doc', cache', IdsOf(es, Len(es)))
  BY <1>1, <1>3, ElementsHandled DEF KeptInv, PageOK
<1>5. /\ PageOK' /\ WorkersOK'
      /\ AllConns(conns, Known(doc'), KeptIds') /\ AllAsks(asks, Known(doc'), KeptIds')
  BY <1>1, <1>3, <1>4, PageHandles
<1>6. AllConns(conns', Known(doc'), KeptIds') /\ Len(conns') = Len(conns) + 1 /\ socket' = Len(conns')
  BY <1>1, <1>5, SocketAdded
<1>7. AllAsks(asks', Known(doc'), KeptIds')
  BY <1>1, <1>5, AskRemoved DEF Without
<1>8. FlagsOK'
  BY <1>1, <1>6, LinkFacts DEF FlagsOK
<1> QED
  BY <1>5, <1>6, <1>7, <1>8 DEF KeptInv

\* handleLocalInput and handleLocalDelete: what is edited goes into the cache.
LEMMA EditedKeeps ==
    ASSUME KeptInv, NEW d, NEW id, DocOK(d), Known(d) = Known(doc) \cup {id}, Edited(d, id)
    PROVE  KeptInv'
<1>1. /\ UNCHANGED <<loaded, workerIP, socket, recovering, unload, timers, gaveUp, asks, up, session,
                     toAck, clients>>
      /\ doc' = d /\ cache' = Append(cache, id) /\ conns' = Sent(conns, socket, <<Element(d, id)>>)
  BY DEF Edited, worker
<1>2. /\ \A k : IsKept(k) => IsKept(k)'
      /\ WorkersOK'
      /\ AllConns(conns, Known(doc'), KeptIds') /\ AllAsks(asks, Known(doc'), KeptIds')
  BY <1>1, PageGrows
<1>3. PageOK'
  <2>1. cache \in Seq(Known(doc'))
    BY <1>1 DEF KeptInv, PageOK
  <2>2. id \in Known(doc')
    BY <1>1
  <2>3. /\ cache' \in Seq(Known(doc'))
        /\ Range(cache) \cup {id} \subseteq Range(cache')
    <3> DEFINE K == Known(doc')
    <3>1. cache \in Seq(K) /\ id \in K
      BY <2>1, <2>2
    <3> HIDE DEF K
    <3>2. /\ Append(cache, id) \in Seq(K) /\ Len(Append(cache, id)) = Len(cache) + 1 /\ Len(cache) \in Nat
          /\ Append(cache, id)[Len(cache) + 1] = id
          /\ \A j \in 1..Len(cache) : Append(cache, id)[j] = cache[j]
      BY <3>1
    <3>3. DOMAIN Append(cache, id) = 1..(Len(cache) + 1) /\ DOMAIN cache = 1..Len(cache)
      BY <3>1, <3>2
    <3>4. Range(cache) \cup {id} \subseteq Range(Append(cache, id))
      BY <3>2, <3>3 DEF Range
    <3> QED
      BY <3>2, <3>4, <1>1 DEF K
  <2>4. \A k \in Known(doc') : Mine(k) => k \in Range(cache') \/ IsKept(k)'
    BY <2>3, <1>1, <1>2 DEF KeptInv, PageOK
  <2> QED
    BY <2>3, <2>4, <1>1 DEF PageOK
<1>4. Only(<<Element(d, id)>>, Known(doc'))
  <2>1. Element(d, id).id = id
    BY DEF Element, Elem
  <2> QED
    BY <2>1, <1>1, OnlyOne
<1>5. AllConns(conns', Known(doc'), KeptIds') /\ Len(conns') = Len(conns)
  <2>1. socket \in 0..Len(conns)
    BY LinkFacts
  <2> QED
    BY <2>1, <1>1, <1>2, <1>4, SentOK
<1>6. FlagsOK'
  BY <1>1, <1>5, LinkFacts DEF FlagsOK
<1> QED
  BY <1>1, <1>2, <1>3, <1>5, <1>6 DEF KeptInv

LEMMA TypeKeeps == ASSUME KeptInv, Type PROVE KeptInv'
<1>1. PICK ch \in 0..Len(doc.text) : Edited(LocalInput(doc, Me, ch), NewID(doc, Me))
  BY DEF Type
<1>2. /\ DocOK(LocalInput(doc, Me, ch))
      /\ Known(LocalInput(doc, Me, ch)) = Known(doc) \cup {NewID(doc, Me)}
  BY LocalInputOK DEF KeptInv, PageOK
<1> QED
  BY <1>1, <1>2, EditedKeeps

LEMMA EraseKeeps == ASSUME KeptInv, Erase PROVE KeptInv'
<1>1. PICK id \in Range(doc.text) : Edited(Hide(doc, id), id)
  BY DEF Erase
<1>2. DocOK(Hide(doc, id)) /\ Known(Hide(doc, id)) = Known(doc)
  BY HideOK DEF KeptInv, PageOK
<1>3. id \in Known(doc)
  BY SeqIsSeq DEF KeptInv, PageOK, DocOK
<1>4. Known(Hide(doc, id)) = Known(doc) \cup {id}
  BY <1>2, <1>3
<1> QED
  BY <1>1, <1>2, <1>4, EditedKeeps

-----------------------------------------------------------------------------
(***************************************************************************)
(* Steps of the load balancer, the workers and the net.                    *)
(***************************************************************************)
LEMMA AssignKeeps ==
    ASSUME KeptInv, NEW i \in DOMAIN asks, Assign(i)
    PROVE  KeptInv'
<1>1. PICK w \in Workers \cup {NONE} : asks' = [asks EXCEPT ![i].reply = <<w>>]
  <2>1. up \subseteq Workers
    BY LinkFacts DEF FlagsOK
  <2> QED
    BY <2>1 DEF Assign
<1>2. /\ UNCHANGED <<text, up, session, toAck, loaded, workerIP, socket, recovering, unload, timers, gaveUp,
                     conns, clients>>
      /\ asks[i].kind \in {"register", "again"}
  BY DEF Assign, page, worker
<1>3. AskOK([kind |-> asks[i].kind, worker |-> asks[i].worker, reply |-> <<w>>], Known(doc), KeptIds)
  BY <1>2 DEF AskOK
<1>4. AllAsks(asks', Known(doc), KeptIds)
  BY <1>1, <1>3, LinkFacts, AskAnswered
<1>5. FlagsOK'
  BY <1>2, LinkFacts DEF FlagsOK
<1> QED
  BY <1>2, <1>4, <1>5, LinkFacts, TextStays

LEMMA AnswerKeeps ==
    ASSUME KeptInv, NEW i \in DOMAIN asks, Answer(i)
    PROVE  KeptInv'
<1> DEFINE w == asks[i].worker
           Reply(r) == [kind |-> asks[i].kind, worker |-> w, reply |-> r]
<1>1. /\ UNCHANGED <<text, up, session, toAck, loaded, workerIP, socket, recovering, unload, timers, gaveUp, conns>>
  BY DEF Answer, page
<1>2. up \subseteq Workers /\ clients \in [Workers -> 0..Len(conns)]
  BY LinkFacts DEF FlagsOK
<1>3. AllAsks(asks, Known(doc), KeptIds)
  BY LinkFacts
<1>4. CASE asks[i].kind = "session"
  <2>1. asks' = (IF w \in up THEN [asks EXCEPT ![i].reply = <<wdoc[w]>>] ELSE Without(i)) /\ clients' = clients
    BY <1>4 DEF Answer
  <2>2. AllAsks(asks', Known(doc), KeptIds)
    <3>1. CASE w \in up
      <4>1. DocOK(wdoc[w]) /\ \A k \in Known(wdoc[w]) : Mine(k) => k \in Known(doc)
        BY <3>1, <1>2 DEF KeptInv, WorkersOK, SessionOK
      <4>2. AskOK(Reply(<<wdoc[w]>>), Known(doc), KeptIds)
        BY <1>4, <4>1 DEF AskOK
      <4> QED
        BY <2>1, <3>1, <4>2, <1>3, AskAnswered
    <3>2. CASE w \notin up
      BY <2>1, <3>2, <1>3, AskRemoved DEF Without
    <3> QED
      BY <3>1, <3>2
  <2>3. FlagsOK'
    BY <1>1, <2>1, LinkFacts DEF FlagsOK
  <2> QED
    BY <1>1, <2>2, <2>3, LinkFacts, TextStays
<1>5. CASE asks[i].kind = "recover"
  <2>1. /\ IF w \in up THEN \E es \in Cached(w) : asks' = [asks EXCEPT ![i].reply = <<es>>]
           ELSE asks' = [asks EXCEPT ![i].reply = <<NONE>>]
        /\ clients' = clients
    BY <1>5 DEF Answer
  <2>2. AllAsks(asks', Known(doc), KeptIds)
    <3>1. CASE w \in up
      <4>1. PICK es \in Cached(w) : asks' = [asks EXCEPT ![i].reply = <<es>>]
        BY <2>1, <3>1
      <4>2. Only(wcache[w], KeptIds)
        BY <3>1, <1>2 DEF KeptInv, WorkersOK, CacheOK
      <4>3. Only(es, KeptIds)
        <5>1. PICK n \in 0..Len(wcache[w]) : es = SubSeq(wcache[w], n + 1, Len(wcache[w]))
          BY DEF Cached
        <5> QED
          BY <4>2, <5>1, OnlySuffix
      <4>4. AskOK(Reply(<<es>>), Known(doc), KeptIds)
        BY <1>5, <4>3 DEF AskOK
      <4> QED
        BY <4>1, <4>4, <1>3, AskAnswered
    <3>2. CASE w \notin up
      <4>1. AskOK(Reply(<<NONE>>), Known(doc), KeptIds)
        BY <1>5 DEF AskOK
      <4> QED
        BY <2>1, <3>2, <4>1, <1>3, AskAnswered
    <3> QED
      BY <3>1, <3>2
  <2>3. FlagsOK'
    BY <1>1, <2>1, LinkFacts DEF FlagsOK
  <2> QED
    BY <1>1, <2>2, <2>3, LinkFacts, TextStays
<1>6. CASE asks[i].kind = "close"
  <2>1. asks' = Without(i) /\ clients' = IF w \in up THEN [clients EXCEPT ![w] = 0] ELSE clients
    BY <1>6 DEF Answer
  <2>2. AllAsks(asks', Known(doc), KeptIds)
    BY <2>1, <1>3, AskRemoved DEF Without
  <2>3. clients' \in [Workers -> 0..Len(conns)]
    BY <1>2, <2>1, LinkFacts
  <2>4. FlagsOK'
    BY <1>1, <2>3, LinkFacts DEF FlagsOK
  <2> QED
    BY <1>1, <2>2, <2>4, LinkFacts, TextStays
<1> QED
  BY <1>4, <1>5, <1>6 DEF Answer

LEMMA FailsKeeps ==
    ASSUME KeptInv, NEW i \in DOMAIN asks, Fails(i)
    PROVE  KeptInv'
<1>1. UNCHANGED <<text, up, session, toAck, loaded, workerIP, socket, recovering, unload, timers, conns, clients>>
  BY DEF Fails, worker
<1>2. AskOK([kind |-> asks[i].kind, worker |-> asks[i].worker, reply |-> <<NONE>>], Known(doc), KeptIds)
      \/ asks[i].kind \notin {"register", "again", "recover"}
  BY DEF AskOK
<1>3. AllAsks(Without(i), Known(doc), KeptIds)
  BY LinkFacts, AskRemoved DEF Without
<1> DEFINE t == [asks EXCEPT ![i].reply = <<NONE>>]
<1>4. /\ asks' = Without(i) \/ (asks' = t /\ asks[i].kind \in {"register", "again", "recover"})
      /\ gaveUp' \in {TRUE, gaveUp}
  <2> HIDE DEF t
  <2>1. \/ asks' = Without(i) /\ gaveUp' = TRUE
        \/ asks' = t /\ asks[i].kind \in {"register", "again", "recover"} /\ gaveUp' = gaveUp
        \/ asks' = Without(i) /\ gaveUp' = gaveUp
    BY DEF Fails, t
  <2> QED
    BY <2>1
<1>5. AllAsks(asks', Known(doc), KeptIds)
  BY <1>2, <1>3, <1>4, LinkFacts, AskAnswered
<1>6. FlagsOK'
  BY <1>1, <1>4, LinkFacts DEF FlagsOK
<1> QED
  BY <1>1, <1>5, <1>6, LinkFacts, TextStays

LEMMA AcceptKeeps ==
    ASSUME KeptInv, NEW c \in DOMAIN conns, Accept(c)
    PROVE  KeptInv'
<1>1. /\ UNCHANGED <<text, up, session, toAck, loaded, workerIP, socket, recovering, unload, timers, gaveUp, asks>>
      /\ conns' = WithServed(conns, c) /\ clients' = [clients EXCEPT ![conns[c].worker] = c]
  BY DEF Accept, page, WithServed
<1>2. AllConns(conns', Known(doc), KeptIds) /\ Len(conns') = Len(conns)
  BY <1>1, LinkFacts, ConnsStay
<1>3. clients' \in [Workers -> 0..Len(conns')]
  <2>1. clients \in [Workers -> 0..Len(conns)] /\ c \in 0..Len(conns) /\ 0 \in 0..Len(conns)
    BY LinkFacts DEF FlagsOK
  <2>2. clients' \in [Workers -> 0..Len(conns)]
    BY <1>1, <2>1
  <2> QED
    BY <1>2, <2>2
<1>4. FlagsOK'
  BY <1>1, <1>2, <1>3, LinkFacts DEF FlagsOK
<1> QED
  BY <1>1, <1>2, <1>4, LinkFacts, TextStays

LEMMA ReadFailsKeeps ==
    ASSUME KeptInv, NEW c \in DOMAIN conns, ReadFails(c)
    PROVE  KeptInv'
<1>1. /\ UNCHANGED <<text, up, session, toAck, loaded, workerIP, socket, recovering, unload, timers, gaveUp, asks>>
      /\ conns' = Forgotten(conns, c) /\ clients' = [clients EXCEPT ![conns[c].worker] = 0]
  BY DEF ReadFails, page, Forgotten
<1>2. AllConns(conns', Known(doc), KeptIds) /\ Len(conns') = Len(conns)
  BY <1>1, LinkFacts, ConnsStay
<1>3. clients' \in [Workers -> 0..Len(conns')]
  <2>1. clients \in [Workers -> 0..Len(conns)] /\ c \in 0..Len(conns) /\ 0 \in 0..Len(conns)
    BY LinkFacts DEF FlagsOK
  <2>2. clients' \in [Workers -> 0..Len(conns)]
    BY <1>1, <2>1
  <2> QED
    BY <1>2, <2>2
<1>4. FlagsOK'
  BY <1>1, <1>2, <1>3, LinkFacts DEF FlagsOK
<1> QED
  BY <1>1, <1>2, <1>4, LinkFacts, TextStays

LEMMA BreakKeeps ==
    ASSUME KeptInv, NEW c \in DOMAIN conns, Break(c)
    PROVE  KeptInv'
<1>1. /\ UNCHANGED <<text, up, session, toAck, loaded, workerIP, socket, recovering, unload, timers, gaveUp, asks,
                     clients>>
      /\ conns' = Broken(conns, c)
  BY DEF Break, page, worker, Broken
<1>2. AllConns(conns', Known(doc), KeptIds) /\ Len(conns') = Len(conns)
  BY <1>1, LinkFacts, ConnsStay
<1>3. FlagsOK'
  BY <1>1, <1>2, LinkFacts DEF FlagsOK
<1> QED
  BY <1>1, <1>2, <1>3, LinkFacts, TextStays

\* What is not in the page or a worker's session, or what it has sent, may change.
LEMMA KeptStays ==
    ASSUME UNCHANGED <<text, session>>
    PROVE  /\ KeptIds' = KeptIds /\ Known(doc)' = Known(doc) /\ \A k : IsKept(k)' <=> IsKept(k)
           /\ PageOK' <=> PageOK
<1>1. /\ doc' = doc /\ cache' = cache /\ wdoc' = wdoc /\ out' = out /\ Known(doc)' = Known(doc)
      /\ \A w : Known(wdoc[w])' = Known(wdoc[w])
  BY DEF text, session
<1>2. \A k : IsKept(k)' <=> IsKept(k)
  BY <1>1 DEF IsKept
<1> QED
  BY <1>1, <1>2 DEF KeptIds, PageOK

LEMMA CrashKeeps ==
    ASSUME KeptInv, NEW w \in Workers, Crash(w)
    PROVE  KeptInv'
<1>1. /\ UNCHANGED <<text, session, toAck, loaded, workerIP, socket, recovering, unload, timers, gaveUp, asks,
                     conns, clients>>
      /\ up' \subseteq up
  BY DEF Crash, page, net
<1>2. KeptIds' = KeptIds /\ Known(doc)' = Known(doc) /\ PageOK'
  BY <1>1, KeptStays DEF KeptInv
<1>3. ASSUME NEW v \in Workers
      PROVE  SessionOK(v)' /\ OutOK(v)' /\ SentToOK(v)' /\ CacheOK(v)' /\ AckOK(v)'
  <2>1. SessionOK(v) /\ OutOK(v) /\ SentToOK(v) /\ CacheOK(v) /\ AckOK(v)
    BY DEF KeptInv, WorkersOK
  <2>2. SessionOK(v)' /\ OutOK(v)' /\ SentToOK(v)' /\ AckOK(v)'
    BY <1>1, <1>2, <2>1 DEF SessionOK, OutOK, SentToOK, AckOK, session, text
  <2>3. CacheOK(v)'
    BY <1>1, <1>2, <2>1 DEF CacheOK, session
  <2> QED
    BY <2>2, <2>3
<1>4. Functions'
  BY <1>1 DEF KeptInv, WorkersOK, Functions, session
<1>5. FlagsOK'
  BY <1>1, LinkFacts DEF FlagsOK
<1>6. AllConns(conns', Known(doc'), KeptIds') /\ AllAsks(asks', Known(doc'), KeptIds')
  BY <1>1, <1>2, LinkFacts
<1> QED
  BY <1>2, <1>3, <1>4, <1>5, <1>6 DEF KeptInv, WorkersOK

\* A worker tells the page of its element when another one has got it.
LEMMA AcknowledgeKeeps ==
    ASSUME KeptInv, NEW w \in Workers, Acknowledge(w)
    PROVE  KeptInv'
<1> DEFINE h == Head(toAck[w])
           e == out[w][h]
<1>1. /\ UNCHANGED <<text, up, session, loaded, workerIP, socket, recovering, unload, timers, gaveUp, asks, clients>>
      /\ toAck[w] # <<>> /\ toAck' = [toAck EXCEPT ![w] = Tail(@)]
      /\ conns' = Pushed(conns, clients[w], e)
      /\ clients[w] = 0 \/ \E v \in Workers \ {w} : sent[w][v] >= h
  BY DEF Acknowledge, page
<1>2. WorkersOK /\ \A v \in Workers : SessionOK(v) /\ OutOK(v) /\ SentToOK(v) /\ CacheOK(v) /\ AckOK(v)
  BY DEF KeptInv, WorkersOK
<1>3. h \in 1..Len(out[w]) /\ Tail(toAck[w]) \in Seq(1..Len(out[w]))
  <2>1. toAck[w] \in Seq(1..Len(out[w]))
    BY <1>2 DEF AckOK
  <2> DEFINE S == 1..Len(out[w])
  <2>2. toAck[w] \in Seq(S)
    BY <2>1
  <2> HIDE DEF S
  <2>3. h \in S /\ Tail(toAck[w]) \in Seq(S)
    BY <2>2, <1>1
  <2> QED
    BY <2>3 DEF S
<1> HIDE DEF h
<1>4. Len(out[w]) \in Nat /\ DOMAIN out[w] = 1..Len(out[w]) /\ e \in Range(out[w])
  <2>1. IsSeq(out[w])
    BY <1>2 DEF OutOK, Only
  <2>2. Len(out[w]) \in Nat /\ DOMAIN out[w] = 1..Len(out[w])
    BY <2>1, IsSeqFacts
  <2> QED
    BY <2>2, <1>3 DEF Range
<1>5. clients[w] # 0 /\ Mine(e.id) => e.id \in KeptIds
  <2> SUFFICES ASSUME clients[w] # 0, Mine(e.id) PROVE e.id \in KeptIds
    OBVIOUS
  <2>1. e.id \in Known(doc)
    BY <1>2, <1>4 DEF OutOK, Only
  <2>2. IsKept(e.id)
    <3>1. CASE e.del
      BY <3>1, <1>3, <1>4 DEF IsKept
    <3>2. CASE ~e.del
      <4>1. PICK v \in Workers \ {w} : sent[w][v] >= h
        BY <1>1
      <4>2. sent[w][v] \in 0..Len(out[w]) /\ h \in 1..sent[w][v]
        BY <1>2, <1>3, <1>4, <4>1 DEF SentToOK
      <4>3. e.id \in Known(wdoc[v]) /\ e.id \in Known(wdoc[w])
        BY <1>2, <1>3, <1>4, <4>1, <4>2, <3>2 DEF SentToOK, OutOK
      <4> QED
        BY <4>1, <4>3 DEF IsKept
    <3> QED
      BY <3>1, <3>2
  <2> QED
    BY <2>1, <2>2 DEF KeptIds
<1> HIDE DEF e
<1>6. clients[w] \in 0..Len(conns)
  BY LinkFacts DEF FlagsOK
<1>7. AllConns(conns', Known(doc), KeptIds) /\ Len(conns') = Len(conns)
  <2>1. AllConns(conns, Known(doc), KeptIds)
    BY LinkFacts
  <2>2. PICK n \in 0..Len(conns) : n = clients[w]
    BY <1>6
  <2>x. PICK x : x = e
    OBVIOUS
  <2>3. n # 0 /\ Mine(x.id) => x.id \in KeptIds
    BY <2>2, <2>x, <1>5
  <2>4. AllConns(Pushed(conns, n, x), Known(doc), KeptIds) /\ Len(Pushed(conns, n, x)) = Len(conns)
    BY <2>1, <2>3, PushedOK
  <2> QED
    BY <1>1, <2>2, <2>x, <2>4
<1>8. KeptIds' = KeptIds /\ Known(doc)' = Known(doc) /\ PageOK'
  BY <1>1, KeptStays DEF KeptInv
<1>9. ASSUME NEW v \in Workers
      PROVE  SessionOK(v)' /\ OutOK(v)' /\ SentToOK(v)' /\ CacheOK(v)' /\ AckOK(v)'
  <2>1. SessionOK(v)' /\ OutOK(v)' /\ SentToOK(v)' /\ CacheOK(v)'
    BY <1>1, <1>2, <1>8 DEF SessionOK, OutOK, SentToOK, CacheOK, session, text
  <2>2. AckOK(v)'
    <3>1. toAck'[v] = IF v = w THEN Tail(toAck[w]) ELSE toAck[v]
      BY <1>1, <1>2 DEF WorkersOK, Functions
    <3>2. out' = out
      BY <1>1 DEF session
    <3> QED
      BY <3>1, <3>2, <1>2, <1>3 DEF AckOK
  <2> QED
    BY <2>1, <2>2
<1>10. Functions'
  BY <1>1, <1>2 DEF WorkersOK, Functions, session
<1>11. FlagsOK'
  BY <1>1, <1>7, LinkFacts DEF FlagsOK
<1>12. AllConns(conns', Known(doc'), KeptIds') /\ AllAsks(asks', Known(doc'), KeptIds')
  BY <1>1, <1>7, <1>8, LinkFacts
<1> QED
  BY <1>8, <1>9, <1>10, <1>11, <1>12 DEF KeptInv, WorkersOK

-----------------------------------------------------------------------------
(***************************************************************************)
(* Steps in which a worker gets an element.                                *)
(***************************************************************************)
LEMMA ProcessedFacts ==
    ASSUME KeptInv, NEW w \in Workers, NEW e, Mine(e.id) => e.id \in Known(doc), Processed(w, e), doc' = doc
    PROVE  /\ DOMAIN wdoc' = Workers
           /\ \A v \in Workers : Known(wdoc[v]) \subseteq Known(wdoc'[v]) /\ SessionOK(v)'
           /\ ~e.del => e.id \in Known(wdoc'[w])
<1>1. DOMAIN wdoc = Workers /\ \A v \in Workers : SessionOK(v)
  BY DEF KeptInv, WorkersOK, Functions
<1>2. CASE IsNew(w, e)
  <2> DEFINE d == Applied(wdoc[w], e)
  <2>1. wdoc' = [wdoc EXCEPT ![w] = d]
    BY <1>2 DEF Processed
  <2>2. DocOK(d) /\ Known(d) = IF e.del THEN Known(wdoc[w]) ELSE Known(wdoc[w]) \cup {e.id}
    BY <1>1, AppliedOK DEF SessionOK
  <2> HIDE DEF d
  <2>3. DOMAIN wdoc' = Workers /\ wdoc'[w] = d /\ \A v \in Workers : v # w => wdoc'[v] = wdoc[v]
    BY <1>1, <2>1
  <2>4. ASSUME NEW v \in Workers PROVE Known(wdoc[v]) \subseteq Known(wdoc'[v]) /\ SessionOK(v)'
    <3>1. CASE v = w
      BY <3>1, <1>1, <2>2, <2>3 DEF SessionOK
    <3>2. CASE v # w
      BY <3>2, <1>1, <2>3 DEF SessionOK
    <3> QED
      BY <3>1, <3>2
  <2> QED
    BY <2>2, <2>3, <2>4
<1>3. CASE ~IsNew(w, e)
  <2>1. wdoc' = wdoc
    BY <1>3 DEF Processed
  <2>2. ~e.del => e.id \in Known(wdoc[w])
    BY <1>3 DEF IsNew
  <2> QED
    BY <1>1, <2>1, <2>2 DEF SessionOK
<1> QED
  BY <1>2, <1>3

\* The queue to the other workers, when it may have got the element.
OutGets(w, e) == out' = out \/ out' = [out EXCEPT ![w] = Append(@, e)]

LEMMA OutFacts ==
    ASSUME KeptInv, NEW w \in Workers, NEW e, Mine(e.id) => e.id \in Known(doc), OutGets(w, e), doc' = doc,
           \A v \in Workers : Known(wdoc[v]) \subseteq Known(wdoc'[v]),
           ~e.del => e.id \in Known(wdoc'[w])
    PROVE  /\ DOMAIN out' = Workers /\ Growing
           /\ \A v \in Workers :
                 /\ OutOK(v)' /\ Len(out[v]) \in Nat /\ Len(out'[v]) \in Nat /\ Len(out[v]) <= Len(out'[v])
                 /\ DOMAIN out[v] = 1..Len(out[v])
<1>1. DOMAIN out = Workers /\ \A v \in Workers : OutOK(v)
  BY DEF KeptInv, WorkersOK, Functions
<1>2. \A v \in Workers : IsSeq(out[v]) /\ Len(out[v]) \in Nat /\ DOMAIN out[v] = 1..Len(out[v])
  BY <1>1, IsSeqFacts DEF OutOK, Only
<1>3. CASE out' = out
  <2>1. ASSUME NEW v \in Workers PROVE OutOK(v)'
    BY <1>1, <1>3 DEF OutOK
  <2>2. Growing
    BY <1>3 DEF Growing
  <2>3. DOMAIN out' = Workers /\ \A v \in Workers : out'[v] = out[v]
    BY <1>1, <1>3
  <2> QED
    BY <1>2, <2>1, <2>2, <2>3
<1>4. CASE out' = [out EXCEPT ![w] = Append(@, e)]
  <2> DEFINE q == Append(out[w], e)
  <2>1. DOMAIN out' = Workers /\ out'[w] = q /\ \A v \in Workers : v # w => out'[v] = out[v]
    BY <1>1, <1>4
  <2>2. Longer(q, out[w], e)
    BY <1>2, Appended
  <2>3. Only(q, Known(doc))
    BY <1>1, OnlyAppended DEF OutOK
  <2> HIDE DEF q
  <2>4. OutOK(w)'
    <3>1. ASSUME NEW i \in DOMAIN q, ~q[i].del PROVE q[i].id \in Known(wdoc'[w])
      <4>1. CASE i = Len(out[w]) + 1
        BY <4>1, <3>1, <2>2 DEF Longer
      <4>2. CASE i # Len(out[w]) + 1
        <5>1. i \in DOMAIN out[w] /\ q[i] = out[w][i]
          BY <4>2, <2>2 DEF Longer
        <5>2. out[w][i].id \in Known(wdoc[w])
          BY <5>1, <3>1, <1>1 DEF OutOK
        <5> QED
          BY <5>1, <5>2
      <4> QED
        BY <4>1, <4>2
    <3> QED
      BY <2>1, <2>3, <3>1 DEF OutOK
  <2>5. ASSUME NEW v \in Workers
        PROVE  /\ OutOK(v)' /\ Len(out'[v]) \in Nat /\ Len(out[v]) <= Len(out'[v])
               /\ \A i \in DOMAIN out[v] : i \in DOMAIN out'[v] /\ out'[v][i] = out[v][i]
    <3>1. CASE v = w
      BY <3>1, <2>1, <2>2, <2>4, <1>2 DEF Longer
    <3>2. CASE v # w
      <4>1. out'[v] = out[v]
        BY <3>2, <2>1
      <4>2. OutOK(v)'
        BY <4>1, <1>1 DEF OutOK
      <4> QED
        BY <4>1, <4>2, <1>2
    <3> QED
      BY <3>1, <3>2
  <2>6. Growing
    BY <2>5 DEF Growing
  <2> QED
    BY <2>1, <2>5, <2>6, <1>2
<1> QED
  BY <1>3, <1>4 DEF OutGets

\* What remains true of the page, the net and the other workers.
LEMMA WorkerGets ==
    ASSUME KeptInv, NEW w \in Workers, NEW e, Mine(e.id) => e.id \in Known(doc),
           Processed(w, e), OutGets(w, e), UNCHANGED text
    PROVE  /\ DOMAIN wdoc' = Workers /\ DOMAIN out' = Workers
           /\ ~e.del => e.id \in Known(wdoc'[w])
           /\ PageOK' /\ Growing /\ KeptIds \subseteq KeptIds'
           /\ AllConns(conns, Known(doc'), KeptIds') /\ AllAsks(asks, Known(doc'), KeptIds')
           /\ \A v \in Workers :
                 /\ SessionOK(v)' /\ OutOK(v)'
                 /\ Len(out[v]) \in Nat /\ Len(out'[v]) \in Nat /\ Len(out[v]) <= Len(out'[v])
                 /\ DOMAIN out[v] = 1..Len(out[v])
<1>1. doc' = doc /\ cache' = cache
  BY DEF text
<1>2. /\ DOMAIN wdoc' = Workers
      /\ \A v \in Workers : Known(wdoc[v]) \subseteq Known(wdoc'[v]) /\ SessionOK(v)'
      /\ ~e.del => e.id \in Known(wdoc'[w])
  BY <1>1, ProcessedFacts
<1>3. /\ DOMAIN out' = Workers /\ Growing
      /\ \A v \in Workers :
            /\ OutOK(v)' /\ Len(out[v]) \in Nat /\ Len(out'[v]) \in Nat /\ Len(out[v]) <= Len(out'[v])
            /\ DOMAIN out[v] = 1..Len(out[v])
  BY <1>1, <1>2, OutFacts
<1>4. KeptIds \subseteq KeptIds' /\ \A k : IsKept(k) => IsKept(k)'
  BY <1>3, KeptGrows
<1>5. PageOK'
  BY <1>1, <1>4 DEF KeptInv, PageOK
<1>6. AllConns(conns, Known(doc'), KeptIds') /\ AllAsks(asks, Known(doc'), KeptIds')
  <2>1. AllConns(conns, Known(doc), KeptIds) /\ AllAsks(asks, Known(doc), KeptIds) /\ Known(doc) \subseteq Known(doc')
    BY <1>1 DEF KeptInv
  <2> QED
    BY <2>1, <1>4, ConnsGrow, AsksGrow
<1> QED
  BY <1>2, <1>3, <1>4, <1>5, <1>6

\* What has been sent before stays as it is.
LEMMA SentStays ==
    ASSUME KeptInv, Growing, NEW w \in Workers, NEW v \in Workers,
           DOMAIN out[w] = 1..Len(out[w]), Len(out[w]) \in Nat, Len(out'[w]) \in Nat, Len(out[w]) <= Len(out'[w])
    PROVE  /\ sent[w][v] \in 0..Len(out'[w])
           /\ v # w => \A i \in 1..sent[w][v] : ~out'[w][i].del => out'[w][i].id \in Known(wdoc'[v])
<1>1. /\ sent[w][v] \in 0..Len(out[w])
      /\ v # w => \A i \in 1..sent[w][v] : ~out[w][i].del => out[w][i].id \in Known(wdoc[v])
  BY DEF KeptInv, WorkersOK, SentToOK
<1>2. \A i \in 1..sent[w][v] : i \in DOMAIN out[w] /\ out'[w][i] = out[w][i]
  BY <1>1 DEF Growing
<1>3. Known(wdoc[v]) \subseteq Known(wdoc'[v])
  BY DEF Growing
<1> QED
  BY <1>1, <1>2, <1>3

LEMMA ToAckStays ==
    ASSUME NEW s, NEW m \in Nat, NEW n \in Nat, m <= n, s \in Seq(1..m)
    PROVE  s \in Seq(1..n)
  OBVIOUS

\* onElement: into the session, or the worker ends.
LEMMA OnElementKeeps ==
    ASSUME KeptInv, NEW c \in DOMAIN conns, OnElement(c)
    PROVE  KeptInv'
<1> DEFINE w == conns[c].worker
           e == Head(conns[c].up)
<1>1. /\ UNCHANGED <<text, loaded, workerIP, socket, recovering, unload, timers, gaveUp, asks, wcache, sent, clients>>
      /\ conns[c].up # <<>> /\ conns' = WithUp(conns, c, Tail(conns[c].up)) /\ w \in up
  BY DEF OnElement, page, WithUp
<1>2. Mine(e.id) => e.id \in Known(doc)
  BY <1>1, LinkFacts, UpTaken
<1>3. w \in Workers /\ up \subseteq Workers
  BY <1>1, LinkFacts DEF FlagsOK
<1>4. CASE Panics(w, e)
  <2>1. up' = up \ {w} /\ UNCHANGED <<wdoc, out, toAck>>
    BY <1>4 DEF OnElement
  <2>2. UNCHANGED <<text, session>>
    BY <1>1, <2>1 DEF session
  <2>3. KeptIds' = KeptIds /\ Known(doc)' = Known(doc) /\ PageOK'
    BY <2>2, KeptStays DEF KeptInv
  <2>4. AllConns(conns', Known(doc), KeptIds) /\ Len(conns') = Len(conns)
    BY <1>1, LinkFacts, UpTaken
  <2>5. ASSUME NEW v \in Workers
        PROVE  SessionOK(v)' /\ OutOK(v)' /\ SentToOK(v)' /\ CacheOK(v)' /\ AckOK(v)'
    <3>1. SessionOK(v) /\ OutOK(v) /\ SentToOK(v) /\ CacheOK(v) /\ AckOK(v)
      BY DEF KeptInv, WorkersOK
    <3>2. SessionOK(v)' /\ OutOK(v)' /\ SentToOK(v)' /\ AckOK(v)'
      BY <1>1, <2>1, <2>3, <3>1 DEF SessionOK, OutOK, SentToOK, AckOK, text
    <3>3. CacheOK(v)'
      BY <1>1, <2>1, <2>3, <3>1 DEF CacheOK
    <3> QED
      BY <3>2, <3>3
  <2>6. Functions'
    BY <1>1, <2>1 DEF KeptInv, WorkersOK, Functions
  <2>7. FlagsOK'
    BY <1>1, <2>1, <2>4, LinkFacts DEF FlagsOK
  <2>8. AllConns(conns', Known(doc'), KeptIds') /\ AllAsks(asks', Known(doc'), KeptIds')
    BY <1>1, <2>3, <2>4, LinkFacts
  <2> QED
    BY <2>3, <2>5, <2>6, <2>7, <2>8 DEF KeptInv, WorkersOK
<1>5. CASE ~Panics(w, e)
  <2> DEFINE n == Len(out[w]) + 1
  <2>1. /\ Processed(w, e) /\ out' = [out EXCEPT ![w] = Append(@, e)]
        /\ toAck' = [toAck EXCEPT ![w] = Append(@, n)] /\ up' = up
    BY <1>5 DEF OnElement
  <2> HIDE DEF w, e
  <2>2. OutGets(w, e)
    BY <2>1 DEF OutGets
  <2>3. /\ DOMAIN wdoc' = Workers /\ DOMAIN out' = Workers
        /\ PageOK' /\ Growing /\ KeptIds \subseteq KeptIds'
        /\ AllConns(conns, Known(doc'), KeptIds') /\ AllAsks(asks, Known(doc'), KeptIds')
        /\ \A v \in Workers :
              /\ SessionOK(v)' /\ OutOK(v)'
              /\ Len(out[v]) \in Nat /\ Len(out'[v]) \in Nat /\ Len(out[v]) <= Len(out'[v])
              /\ DOMAIN out[v] = 1..Len(out[v])
    BY <1>1, <1>2, <1>3, <2>1, <2>2, WorkerGets
  <2>4. WorkersOK
    BY DEF KeptInv
  <2>5. Len(out'[w]) = n
    <3>1. IsSeq(out[w]) /\ DOMAIN out = Workers
      BY <1>3, <2>4 DEF WorkersOK, OutOK, Only, Functions
    <3>2. Len(Append(out[w], e)) = n
      BY <3>1, Appended DEF Longer
    <3> QED
      BY <3>1, <3>2, <1>3, <2>1
  <2> HIDE DEF n
  <2>6. ASSUME NEW v \in Workers PROVE SentToOK(v)' /\ CacheOK(v)' /\ AckOK(v)'
    <3>1. CacheOK(v) /\ AckOK(v)
      BY <2>4 DEF WorkersOK
    <3>2. SentToOK(v)'
      BY <1>1, <2>3, SentStays DEF SentToOK
    <3>3. CacheOK(v)'
      BY <1>1, <2>1, <2>3, <3>1, OnlyGrows DEF CacheOK
    <3>4. toAck[v] \in Seq(1..Len(out'[v]))
      BY <2>3, <3>1, ToAckStays DEF AckOK
    <3>5. AckOK(v)'
      <4>1. CASE v = w
        <5>1. toAck'[v] = Append(toAck[v], n)
          BY <4>1, <2>1, <2>4 DEF WorkersOK, Functions
        <5>2. n \in 1..Len(out'[v])
          BY <4>1, <1>3, <2>3, <2>5 DEF n
        <5> DEFINE S == 1..Len(out'[v])
        <5>3. toAck[v] \in Seq(S) /\ n \in S
          BY <3>4, <5>2
        <5> HIDE DEF S
        <5>4. toAck'[v] \in Seq(S)
          BY <5>1, <5>3
        <5> QED
          BY <5>4 DEF AckOK, S
      <4>2. CASE v # w
        <5>1. toAck'[v] = toAck[v]
          BY <4>2, <2>1, <2>4 DEF WorkersOK, Functions
        <5> QED
          BY <5>1, <3>4 DEF AckOK
      <4> QED
        BY <4>1, <4>2
    <3> QED
      BY <3>2, <3>3, <3>5
  <2>7. Functions'
    BY <1>1, <2>1, <2>3, <2>4 DEF WorkersOK, Functions
  <2>8. AllConns(conns', Known(doc'), KeptIds') /\ Len(conns') = Len(conns)
    BY <1>1, <2>3, UpTaken
  <2>9. FlagsOK'
    BY <1>1, <2>1, <2>8, LinkFacts DEF FlagsOK
  <2> QED
    BY <1>1, <2>3, <2>6, <2>7, <2>8, <2>9 DEF KeptInv, WorkersOK
<1> QED
  BY <1>4, <1>5

\* Somebody else types or deletes.
LEMMA ForeignEditKeeps ==
    ASSUME KeptInv, NEW w \in Workers, NEW e, ForeignEdit(w, e),
           Mine(e.id) => e.del /\ e.id \in Known(doc)
    PROVE  KeptInv'
<1>1. /\ UNCHANGED <<text, loaded, workerIP, socket, recovering, unload, timers, gaveUp, asks, up, wcache, sent,
                     clients, toAck>>
      /\ Processed(w, e) /\ out' = [out EXCEPT ![w] = Append(@, e)] /\ conns' = Pushed(conns, clients[w], e)
  BY DEF ForeignEdit, page
<1>2. OutGets(w, e)
  BY <1>1 DEF OutGets
<1>3. /\ DOMAIN wdoc' = Workers /\ DOMAIN out' = Workers
      /\ PageOK' /\ Growing /\ KeptIds \subseteq KeptIds'
      /\ AllConns(conns, Known(doc'), KeptIds') /\ AllAsks(asks, Known(doc'), KeptIds')
      /\ \A v \in Workers :
            /\ SessionOK(v)' /\ OutOK(v)'
            /\ Len(out[v]) \in Nat /\ Len(out'[v]) \in Nat /\ Len(out[v]) <= Len(out'[v])
            /\ DOMAIN out[v] = 1..Len(out[v])
  BY <1>1, <1>2, WorkerGets
<1>4. WorkersOK
  BY DEF KeptInv
<1>5. Mine(e.id) => e.id \in KeptIds'
  <2> SUFFICES ASSUME Mine(e.id) PROVE e.id \in KeptIds'
    OBVIOUS
  <2>1. IsSeq(out[w]) /\ DOMAIN out = Workers
    BY <1>4 DEF WorkersOK, OutOK, Only, Functions
  <2> DEFINE n == Len(out[w]) + 1
  <2>2. n \in DOMAIN Append(out[w], e) /\ Append(out[w], e)[n] = e
    BY <2>1, Appended, IsSeqFacts DEF Longer
  <2> HIDE DEF n
  <2>3. n \in DOMAIN out'[w] /\ out'[w][n] = e
    BY <1>1, <2>1, <2>2
  <2>4. IsKept(e.id)'
    BY <2>3 DEF IsKept
  <2>5. e.id \in Known(doc')
    BY <1>1 DEF text
  <2> QED
    BY <2>4, <2>5 DEF KeptIds
<1>6. AllConns(conns', Known(doc'), KeptIds') /\ Len(conns') = Len(conns)
  <2>1. PICK n \in 0..Len(conns) : n = clients[w]
    BY LinkFacts DEF FlagsOK
  <2>x. PICK S : S = KeptIds'
    OBVIOUS
  <2>2. n # 0 /\ Mine(e.id) => e.id \in S
    BY <2>x, <1>5
  <2>3. AllConns(conns, Known(doc'), S)
    BY <2>x, <1>3
  <2>4. AllConns(Pushed(conns, n, e), Known(doc'), S) /\ Len(Pushed(conns, n, e)) = Len(conns)
    BY <2>2, <2>3, PushedOK
  <2> QED
    BY <1>1, <2>1, <2>x, <2>4
<1>7. ASSUME NEW v \in Workers PROVE SentToOK(v)' /\ CacheOK(v)' /\ AckOK(v)'
  <2>1. CacheOK(v) /\ AckOK(v)
    BY <1>4 DEF WorkersOK
  <2>2. SentToOK(v)'
    BY <1>1, <1>3, SentStays DEF SentToOK
  <2>3. CacheOK(v)'
    BY <1>1, <1>3, <2>1, OnlyGrows DEF CacheOK
  <2>4. AckOK(v)'
    BY <1>1, <1>3, <2>1, ToAckStays DEF AckOK
  <2> QED
    BY <2>2, <2>3, <2>4
<1>8. Functions'
  BY <1>1, <1>3, <1>4 DEF WorkersOK, Functions
<1>9. FlagsOK'
  BY <1>1, <1>6, LinkFacts DEF FlagsOK
<1> QED
  BY <1>1, <1>3, <1>6, <1>7, <1>8, <1>9 DEF KeptInv, WorkersOK

LEMMA ForeignKeeps ==
    ASSUME KeptInv, NEW w \in Workers, Foreign(w)
    PROVE  KeptInv'
<1>1. ASSUME NEW ch \in 0..Len(wdoc[w].text),
             ForeignEdit(w, Elem(NewID(wdoc[w], Other), Preceding(wdoc[w], ch), FALSE, Other))
      PROVE  KeptInv'
  <2> DEFINE e == Elem(NewID(wdoc[w], Other), Preceding(wdoc[w], ch), FALSE, Other)
  <2>1. ~Mine(e.id)
    BY RecoveryAssumption DEF Elem, NewID, Mine
  <2> HIDE DEF e
  <2> QED
    BY <1>1, <2>1, ForeignEditKeeps DEF e
<1>2. ASSUME NEW k \in Range(wdoc[w].text), ForeignEdit(w, Elem(k, wdoc[w].prev[k], TRUE, Other))
      PROVE  KeptInv'
  <2> DEFINE e == Elem(k, wdoc[w].prev[k], TRUE, Other)
  <2>1. e.id = k /\ e.del
    BY DEF Elem
  <2>2. k \in Known(wdoc[w])
    BY SeqIsSeq DEF KeptInv, WorkersOK, SessionOK, DocOK
  <2>3. Mine(k) => k \in Known(doc)
    BY <2>2 DEF KeptInv, WorkersOK, SessionOK
  <2> HIDE DEF e
  <2> QED
    BY <1>2, <2>1, <2>3, ForeignEditKeeps DEF e
<1> QED
  BY <1>1, <1>2 DEF Foreign

\* ApplyIncomingElements
LEMMA SpreadKeeps ==
    ASSUME KeptInv, NEW w \in Workers, NEW v \in Workers, Spread(w, v)
    PROVE  KeptInv'
<1> DEFINE n == sent[w][v] + 1
           e == out[w][n]
<1>1. /\ UNCHANGED <<text, loaded, workerIP, socket, recovering, unload, timers, gaveUp, asks, clients, toAck>>
      /\ v \in up /\ w # v /\ sent[w][v] < Len(out[w])
  BY DEF Spread, page
<1>2. PICK es \in Caches(v, e) : wcache' = [wcache EXCEPT ![v] = es]
  BY DEF Spread
<1>3. /\ WorkersOK /\ SessionOK(w) /\ OutOK(w) /\ SentToOK(w)
      /\ DOMAIN wcache = Workers /\ DOMAIN sent = Workers /\ \A u \in Workers : DOMAIN sent[u] = Workers
  BY DEF KeptInv, WorkersOK, Functions
<1>4. /\ Len(out[w]) \in Nat /\ DOMAIN out[w] = 1..Len(out[w]) /\ sent[w][v] \in 0..Len(out[w])
      /\ n \in 1..Len(out[w]) /\ n \in Nat
  <2>1. Len(out[w]) \in Nat /\ DOMAIN out[w] = 1..Len(out[w])
    BY <1>3, IsSeqFacts DEF OutOK, Only
  <2> QED
    BY <2>1, <1>1, <1>3 DEF SentToOK
<1>5. /\ Mine(e.id) => e.id \in Known(doc)
      /\ e.del => IsKept(e.id)
      /\ ~e.del => e.id \in Known(wdoc[w])
  <2>1. e \in Range(out[w])
    BY <1>4 DEF Range
  <2>2. Mine(e.id) => e.id \in Known(doc)
    BY <1>3, <2>1 DEF OutOK, Only
  <2>3. e.del => IsKept(e.id)
    BY <1>4 DEF IsKept
  <2>4. ~e.del => e.id \in Known(wdoc[w])
    BY <1>3, <1>4 DEF OutOK
  <2> QED
    BY <2>2, <2>3, <2>4
<1>6. \A u \in Workers : u # v => wcache'[u] = wcache[u]
  BY <1>2, <1>3
<1>7. DOMAIN wcache' = Workers /\ wcache'[v] \in {wcache[v], Append(wcache[v], e)}
  BY <1>2, <1>3 DEF Caches
<1>8. CASE Panics(v, e)
  <2>1. up' = up \ {v} /\ UNCHANGED <<wdoc, out, sent, conns>>
    BY <1>8 DEF Spread
  <2>2. doc' = doc /\ cache' = cache
    BY <1>1 DEF text
  <2>3. KeptIds' = KeptIds /\ Known(doc)' = Known(doc) /\ PageOK'
    <3>1. Growing
      BY <2>1, <2>2 DEF Growing
    <3>2. \A k : IsKept(k)' <=> IsKept(k)
      BY <2>1 DEF IsKept
    <3>3. Known(doc)' = Known(doc) /\ PageOK
      BY <2>2 DEF KeptInv
    <3> QED
      BY <2>2, <3>2, <3>3 DEF KeptIds, PageOK
  <2>4. ASSUME NEW u \in Workers
        PROVE  SessionOK(u)' /\ OutOK(u)' /\ SentToOK(u)' /\ CacheOK(u)' /\ AckOK(u)'
    <3>1. SessionOK(u) /\ OutOK(u) /\ SentToOK(u) /\ CacheOK(u) /\ AckOK(u)
      BY DEF KeptInv, WorkersOK
    <3>2. SessionOK(u)' /\ OutOK(u)' /\ SentToOK(u)' /\ AckOK(u)'
      BY <1>1, <2>1, <2>3, <3>1 DEF SessionOK, OutOK, SentToOK, AckOK, text
    <3>3. CacheOK(u)'
      BY <1>6, <2>1, <2>3, <3>1 DEF CacheOK
    <3> QED
      BY <3>2, <3>3
  <2>5. Functions'
    BY <1>1, <1>7, <2>1 DEF KeptInv, WorkersOK, Functions
  <2>6. FlagsOK'
    BY <1>1, <2>1, LinkFacts DEF FlagsOK
  <2>7. AllConns(conns', Known(doc'), KeptIds') /\ AllAsks(asks', Known(doc'), KeptIds')
    BY <1>1, <2>1, <2>3, LinkFacts
  <2> QED
    BY <2>3, <2>4, <2>5, <2>6, <2>7 DEF KeptInv, WorkersOK
<1>9. CASE ~Panics(v, e)
  <2>1. /\ Processed(v, e)
        /\ out' = IF IsNew(v, e) THEN [out EXCEPT ![v] = Append(@, e)] ELSE out
        /\ sent' = [sent EXCEPT ![w][v] = @ + 1]
        /\ conns' = IF e.by = Me \/ ~IsNew(v, e) THEN conns ELSE Pushed(conns, clients[v], e)
        /\ up' = up
    BY <1>9 DEF Spread
  <2>2. /\ sent'[w][v] = n /\ DOMAIN sent' = Workers /\ (\A u \in Workers : DOMAIN sent'[u] = Workers)
        /\ \A u, x \in Workers : (u # w \/ x # v) => sent'[u][x] = sent[u][x]
    BY <1>3, <2>1
  <2>3. OutGets(v, e)
    BY <2>1 DEF OutGets
  <2> HIDE DEF e, n
  <2>4. /\ DOMAIN wdoc' = Workers /\ DOMAIN out' = Workers
        /\ ~e.del => e.id \in Known(wdoc'[v])
        /\ PageOK' /\ Growing /\ KeptIds \subseteq KeptIds'
        /\ AllConns(conns, Known(doc'), KeptIds') /\ AllAsks(asks, Known(doc'), KeptIds')
        /\ \A u \in Workers :
              /\ SessionOK(u)' /\ OutOK(u)'
              /\ Len(out[u]) \in Nat /\ Len(out'[u]) \in Nat /\ Len(out[u]) <= Len(out'[u])
              /\ DOMAIN out[u] = 1..Len(out[u])
    BY <1>1, <1>5, <2>1, <2>3, WorkerGets
  <2>5. Mine(e.id) => e.id \in KeptIds'
    <3> SUFFICES ASSUME Mine(e.id) PROVE e.id \in KeptIds'
      OBVIOUS
    <3>1. PICK k : k = e.id
      OBVIOUS
    <3>2. k \in Known(doc')
      BY <1>1, <1>5, <3>1 DEF text
    <3>3. IsKept(k)'
      <4>1. CASE e.del
        <5>1. IsKept(k)
          BY <4>1, <3>1, <1>5
        <5> QED
          BY <5>1, <2>4, KeptGrows
      <4>2. CASE ~e.del
        <5>1. k \in Known(wdoc'[w]) /\ k \in Known(wdoc'[v])
          BY <4>2, <3>1, <1>5, <2>4 DEF Growing
        <5> QED
          BY <5>1, <1>1 DEF IsKept
      <4> QED
        BY <4>1, <4>2
    <3>4. k \in KeptIds'
      BY <3>2, <3>3 DEF KeptIds
    <3> QED
      BY <3>1, <3>4
  <2>6. AllConns(conns', Known(doc'), KeptIds') /\ Len(conns') = Len(conns)
    <3>1. PICK c \in 0..Len(conns) : c = clients[v]
      BY LinkFacts DEF FlagsOK
    <3>x. PICK S : S = KeptIds'
      OBVIOUS
    <3>2. c # 0 /\ Mine(e.id) => e.id \in S
      BY <2>5, <3>x
    <3>3. AllConns(conns, Known(doc'), S)
      BY <2>4, <3>x
    <3>4. AllConns(Pushed(conns, c, e), Known(doc'), S) /\ Len(Pushed(conns, c, e)) = Len(conns)
      BY <3>2, <3>3, PushedOK
    <3>5. conns' = conns \/ conns' = Pushed(conns, c, e)
      BY <2>1, <3>1
    <3> QED
      BY <3>x, <3>3, <3>4, <3>5
  <2>7. ASSUME NEW u \in Workers PROVE SentToOK(u)' /\ CacheOK(u)' /\ AckOK(u)'
    <3>1. CacheOK(u) /\ AckOK(u)
      BY <1>3 DEF WorkersOK
    <3>2. SentToOK(u)'
      <4>1. ASSUME NEW x \in Workers
            PROVE  /\ sent'[u][x] \in 0..Len(out'[u])
                   /\ x # u => \A i \in 1..sent'[u][x] : ~out'[u][i].del => out'[u][i].id \in Known(wdoc'[x])
        <5>1. /\ sent[u][x] \in 0..Len(out'[u])
              /\ x # u => \A i \in 1..sent[u][x] : ~out'[u][i].del => out'[u][i].id \in Known(wdoc'[x])
          BY <2>4, SentStays
        <5>2. CASE u # w \/ x # v
          BY <5>1, <5>2, <2>2
        <5>3. CASE u = w /\ x = v
          <6>1. sent'[u][x] = n /\ sent[u][x] \in Nat /\ n = sent[u][x] + 1
            BY <5>3, <2>2, <1>4 DEF n
          <6>2. out'[w][n] = e
            BY <2>4, <1>4 DEF Growing, e
          <6>3. \A i \in 1..n : i \in 1..sent[u][x] \/ i = n
            BY <6>1
          <6>4. n \in 0..Len(out'[u])
            BY <5>3, <1>4, <2>4
          <6> QED
            BY <5>1, <5>3, <6>1, <6>2, <6>3, <6>4, <2>4
        <5> QED
          BY <5>2, <5>3
      <4> QED
        BY <4>1 DEF SentToOK
    <3>3. CacheOK(u)'
      <4>1. u \in up => Only(wcache[u], KeptIds')
        BY <2>4, <3>1, OnlyGrows DEF CacheOK
      <4>2. u \in up => Only(wcache'[u], KeptIds')
        <5>1. CASE u # v
          BY <5>1, <4>1, <1>6
        <5>2. CASE u = v
          BY <5>2, <4>1, <1>7, <2>5, OnlyAppended
        <5> QED
          BY <5>1, <5>2
      <4> QED
        BY <4>2, <2>1 DEF CacheOK
    <3>4. AckOK(u)'
      BY <1>1, <2>4, <3>1, ToAckStays DEF AckOK
    <3> QED
      BY <3>2, <3>3, <3>4
  <2>8. Functions'
    BY <1>1, <1>3, <1>7, <2>2, <2>4 DEF WorkersOK, Functions
  <2>9. FlagsOK'
    BY <1>1, <2>1, <2>6, LinkFacts DEF FlagsOK
  <2> QED
    BY <1>1, <2>4, <2>6, <2>7, <2>8, <2>9 DEF KeptInv, WorkersOK
<1> QED
  BY <1>8, <1>9

-----------------------------------------------------------------------------
(***************************************************************************)
(* The invariant holds at the start and after every step.                  *)
(***************************************************************************)
LEMMA EmptyDocument == DocOK(Loaded(<<>>)) /\ Known(Loaded(<<>>)) = {}
<1> DEFINE d == Loaded(<<>>)
<1>1. d.next = [k \in {} |-> NIL] /\ d.head = NIL /\ d.text = <<>> /\ IsDoc(d)
  <2>1. Range(<<>>) = {} /\ Len(<<>>) = 0
    BY DEF Range
  <2>2. d = [next |-> [k \in {} |-> NIL], prev |-> [k \in {} |-> NIL], head |-> NIL, dead |-> {},
             text |-> <<>>, length |-> 0]
    BY <2>1 DEF Loaded
  <2> HIDE DEF d
  <2> QED
    BY <2>2 DEF IsDoc
<1> HIDE DEF d
<1>2. Known(d) = {} /\ IsFiniteSet(Known(d))
  BY <1>1, FS_EmptySet DEF Known
<1>3. DocOK(d)
  BY <1>1, <1>2 DEF DocOK
<1> QED
  BY <1>2, <1>3 DEF d

\* The session someone else has begun.
LEMMA FirstDocument ==
    ASSUME NEW id
    PROVE  DocOK(Loaded(<<id>>)) /\ Known(Loaded(<<id>>)) = {id}
<1> DEFINE d == Loaded(<<id>>)
<1>1. d.next = [k \in {id} |-> NIL] /\ d.head = id /\ d.text = <<id>> /\ IsDoc(d)
  <2> DEFINE s == <<id>>
  <2>1. s \in Seq({id}) /\ Len(s) = 1 /\ s[1] = id /\ DOMAIN s = 1..1
    OBVIOUS
  <2> HIDE DEF s
  <2>2. Range(s) = {id} /\ s # <<>>
    BY <2>1 DEF Range
  <2>3. \A k \in {id} : IndexIn(s, k) = 1
    BY <2>1, <2>2, IndexInFacts
  <2>4. [k \in Range(s) |-> LET i == IndexIn(s, k) IN IF i = Len(s) THEN NIL ELSE s[i + 1]] = [k \in {id} |-> NIL]
    BY <2>1, <2>2, <2>3
  <2>5. [k \in Range(s) |-> LET i == IndexIn(s, k) IN IF i = 1 THEN NIL ELSE s[i - 1]] = [k \in {id} |-> NIL]
    BY <2>1, <2>2, <2>3
  <2>6. Loaded(s) = [next |-> [k \in {id} |-> NIL], prev |-> [k \in {id} |-> NIL], head |-> id, dead |-> {},
                     text |-> s, length |-> 1]
    BY <2>1, <2>2, <2>4, <2>5 DEF Loaded
  <2>7. d = Loaded(s)
    BY DEF s
  <2> HIDE DEF d
  <2>8. IsDoc(d)
    BY <2>6, <2>7 DEF IsDoc
  <2> QED
    BY <2>6, <2>7, <2>8 DEF s
<1> HIDE DEF d
<1>2. Known(d) = {id} /\ IsFiniteSet(Known(d))
  BY <1>1, FS_Singleton DEF Known
<1>3. DocOK(d)
  BY <1>1, <1>2 DEF DocOK
<1> QED
  BY <1>2, <1>3 DEF d

LEMMA InitInv == Init => KeptInv
<1> SUFFICES ASSUME Init PROVE KeptInv
  OBVIOUS
<1> DEFINE id == <<0, Other>>
           D == Loaded(<<id>>)
           a == [kind |-> "register", worker |-> NONE, reply |-> <<>>]
<1>1. /\ doc = Loaded(<<>>) /\ cache = <<>> /\ loaded = FALSE /\ workerIP = NONE /\ socket = 0
      /\ recovering = FALSE /\ unload = FALSE /\ timers = 0 /\ gaveUp = FALSE
      /\ asks = <<a>> /\ conns = <<>> /\ up = Workers
      /\ wdoc = [w \in Workers |-> D] /\ wcache = [w \in Workers |-> <<>>] /\ out = [w \in Workers |-> <<>>]
      /\ sent = [w \in Workers |-> [v \in Workers |-> 0]]
      /\ toAck = [w \in Workers |-> <<>>] /\ clients = [w \in Workers |-> 0]
  BY DEF Init
<1>2. DocOK(doc) /\ Known(doc) = {}
  BY <1>1, EmptyDocument
<1>3. ~Mine(id)
  BY RecoveryAssumption DEF Mine
<1>4. DocOK(D) /\ Known(D) = {id}
  BY FirstDocument
<1> HIDE DEF id, D
<1>5. PageOK
  BY <1>1, <1>2 DEF PageOK
<1>6. FlagsOK
  <2>1. Len(conns) = 0 /\ clients \in [Workers -> {0}] /\ 0..0 = {0}
    BY <1>1
  <2> QED
    BY <1>1, <2>1 DEF FlagsOK
<1>7. ASSUME NEW w \in Workers PROVE SessionOK(w) /\ OutOK(w) /\ SentToOK(w) /\ CacheOK(w) /\ AckOK(w)
  <2>1. wdoc[w] = D /\ wcache[w] = <<>> /\ out[w] = <<>> /\ toAck[w] = <<>> /\ \A v \in Workers : sent[w][v] = 0
    BY <1>1
  <2>2. \A S : Only(<<>>, S)
    BY OnlyEmpty
  <2>3. SessionOK(w)
    BY <1>3, <1>4, <2>1 DEF SessionOK
  <2>4. OutOK(w) /\ CacheOK(w)
    BY <2>1, <2>2 DEF OutOK, CacheOK
  <2>5. SentToOK(w) /\ AckOK(w)
    BY <2>1 DEF SentToOK, AckOK
  <2> QED
    BY <2>3, <2>4, <2>5
<1>8. Functions
  BY <1>1 DEF Functions
<1>9. AllConns(conns, Known(doc), KeptIds)
  <2>1. IsSeq(<<>>)
    BY OnlyEmpty DEF Only
  <2> QED
    BY <1>1, <2>1 DEF AllConns, IsConns
<1>10. AllAsks(asks, Known(doc), KeptIds)
  <2>1. IsAsk(a) /\ AskOK(a, Known(doc), KeptIds)
    BY DEF IsAsk, AskOK
  <2> HIDE DEF a
  <2>2. asks \in Seq({a}) /\ DOMAIN asks = {1} /\ asks[1] = a
    BY <1>1
  <2>3. IsSeq(asks)
    BY <2>2, SeqIsSeq
  <2> QED
    BY <2>1, <2>2, <2>3 DEF AllAsks, IsAsks
<1> QED
  BY <1>5, <1>6, <1>7, <1>8, <1>9, <1>10 DEF KeptInv, WorkersOK

LEMMA StepInv ==
    ASSUME KeptInv, [Next]_vars
    PROVE  KeptInv'
<1>1. CASE Page
  BY <1>1, RegisteredKeeps, SessionLoadedKeeps, ReassignedKeeps, RecoveredKeeps, RecoveryFailsKeeps,
     OpenedKeeps, ReceiveKeeps, ClosedKeeps, TimerFiresKeeps DEF Page
<1>2. CASE Service
  BY <1>2, AssignKeeps, AnswerKeeps, AcceptKeeps, OnElementKeeps, ReadFailsKeeps, AcknowledgeKeeps,
     SpreadKeeps DEF Service
<1>3. CASE Type \/ Erase \/ Leave
  BY <1>3, TypeKeeps, EraseKeeps, LeaveKeeps
<1>4. ASSUME NEW w \in Workers, Foreign(w) \/ Crash(w) PROVE KeptInv'
  BY <1>4, ForeignKeeps, CrashKeeps
<1>5. ASSUME NEW c \in DOMAIN conns, Break(c) PROVE KeptInv'
  BY <1>5, BreakKeeps
<1>6. ASSUME NEW i \in DOMAIN asks, Fails(i) PROVE KeptInv'
  BY <1>6, FailsKeeps
<1>7. CASE UNCHANGED vars
  <2>1. UNCHANGED <<text, up, session, toAck, loaded, workerIP, socket, recovering, unload, timers, gaveUp,
                    asks, conns, clients>>
    BY <1>7 DEF vars, page, net, worker
  <2>2. FlagsOK'
    BY <2>1, LinkFacts DEF FlagsOK
  <2> QED
    BY <2>1, <2>2, LinkFacts, TextStays
<1> QED
  BY <1>1, <1>2, <1>3, <1>4, <1>5, <1>6, <1>7 DEF Next

LEMMA KeptImplies == KeptInv => PageInv
<1> SUFFICES ASSUME KeptInv PROVE PageInv
  OBVIOUS
<1>1. Range(cache) \subseteq Known(doc) /\ Range(doc.text) \subseteq Known(doc)
  BY SeqIsSeq DEF KeptInv, PageOK, DocOK
<1>2. TypeOK
  BY <1>1 DEF KeptInv, FlagsOK, TypeOK
<1>3. TypedIsKept
  BY DEF KeptInv, PageOK, TypedIsKept, Mine
<1> QED
  BY <1>2, <1>3 DEF PageInv

\* Whatever breaks, ends, fails, comes late or is lost: what the user has
\* typed is in the cache of the page, which sends it again (sendCachedElements),
\* until two workers have it or one has been told that it is deleted.
THEOREM SpecPageInv == Spec => []PageInv
<1>1. Init => KeptInv
  BY InitInv
<1>2. KeptInv /\ [Next]_vars => KeptInv'
  BY StepInv
<1>3. KeptInv => PageInv
  BY KeptImplies
<1> QED
  BY <1>1, <1>2, <1>3, PTL DEF Spec
=============================================================================
