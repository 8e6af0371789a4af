---------------------------- MODULE SessionProofs ----------------------------
(***************************************************************************)
(* Proofs about Session and SessionHistory, for every set of ids and       *)
(* authors and every irreflexive comparison of ids.                        *)
(***************************************************************************)
EXTENDS SessionHistory, SequenceLemmas, TLAPS

\* Session.Add and Session.Delete, and the unlocked readers beside them, keep
\* every pointer an id or null.
THEOREM TypeCorrect == Spec => []TypeOK
<1>1. Init => TypeOK
  BY DEF Init, TypeOK, IsMap, Empty, NoCall, Call, IdOrNil, Keys, InCall
<1>2. TypeOK /\ [Next]_vars => TypeOK'
  <2> SUFFICES ASSUME TypeOK, [Next]_vars PROVE TypeOK'
    OBVIOUS
  <2> USE DEF TypeOK, IsMap, Keys, IdOrNil, Element, Call, InCall
  <2>1. ASSUME NEW id \in Ids, NEW prev \in IdOrNil \ {id}, BeginAdd(id, prev)
        PROVE  TypeOK'
    BY <2>1 DEF BeginAdd, listVars, readVars
  <2>2. CASE WalkOn
    BY <2>2 DEF WalkOn, listVars, readVars
  <2>3. CASE WalkDone
    BY <2>3 DEF WalkDone, listVars, readVars
  <2>4. CASE Relink
    BY <2>4 DEF Relink, readVars
  <2>5. CASE Link
    BY <2>5 DEF Link, readVars
  <2>6. CASE Store
    BY <2>6 DEF Store, readVars, Put, NoCall
  <2>7. ASSUME NEW id \in Ids, Delete(id)
        PROVE  TypeOK'
    BY <2>7 DEF Delete, callVars, readVars
  <2>8. CASE BeginRead
    BY <2>8 DEF BeginRead, listVars, callVars, Empty
  <2>9. ASSUME NEW id \in Ids, ReadElement(id)
        PROVE  TypeOK'
    BY <2>9 DEF ReadElement, listVars, callVars, Put
  <2>10. CASE ReadHead
    BY <2>10 DEF ReadHead, listVars, callVars
  <2>11. CASE UNCHANGED vars
    BY <2>11 DEF vars, listVars, callVars, readVars
  <2> QED
    BY <2>1, <2>2, <2>3, <2>4, <2>5, <2>6, <2>7, <2>8, <2>9, <2>10, <2>11 DEF Next
<1> QED
  BY <1>1, <1>2, PTL DEF Spec

-----------------------------------------------------------------------------
(***************************************************************************)
(* Consequences of the inductive invariant in one state.                   *)
(***************************************************************************)

\* The order enumerates the keys of the map.
LEMMA OrderFacts ==
    ASSUME HistoryInv
    PROVE  /\ Len(order) \in Nat
           /\ \A i \in 1..Len(order) : order[i] \in Keys /\ order[i] \in Ids
           /\ \A i, j \in 1..Len(order) : order[i] = order[j] => i = j
           /\ \A x \in Keys : \E i \in 1..Len(order) : order[i] = x
           /\ NIL \notin Ids /\ NIL \notin Keys
<1>1. Len(order) \in Nat /\ \A i \in 1..Len(order) : order[i] \in Ids
  BY DEF HistoryInv
<1>2. \A i \in 1..Len(order) : order[i] \in Keys
  BY <1>1 DEF HistoryInv, Range
<1>3. \A i, j \in 1..Len(order) : order[i] = order[j] => i = j
  BY DEF HistoryInv, IsInjective
<1>4. \A x \in Keys : \E i \in 1..Len(order) : order[i] = x
  BY DEF HistoryInv, Range
<1>5. NIL \notin Ids
  BY ElementsAssumption
<1>6. NIL \notin Keys
  BY <1>1, <1>4, <1>5
<1> QED
  BY <1>1, <1>2, <1>3, <1>4, <1>5, <1>6

\* The place of an element in the order.
LEMMA IndexFacts ==
    ASSUME HistoryInv, NEW i \in 1..Len(order)
    PROVE  IndexOf(order, order[i]) = i
<1>1. \A j \in 1..Len(order) : order[j] = order[i] => j = i
  BY OrderFacts
<1> QED
  BY <1>1 DEF IndexOf

\* While Add is inside the list, the new element is to become the k-th: the
\* cursor is right before that place and the element to relink right after.
InsertionPlace(k) ==
    /\ k \in 1..(Len(order) + 1)
    /\ \A i \in 1..(Len(order) + 1) : At(order, i - 1) = cursor <=> i = k
    /\ pc # "store" => Successor = At(order, k)
    /\ pc \in {"link", "store"} => op.next = At(order, k)
    /\ k = IF cursor = NIL THEN 1 ELSE IndexOf(order, cursor) + 1

LEMMA CursorPlace ==
    ASSUME TypeOK, HInv, InCall
    PROVE  \E k \in 1..(Len(order) + 1) : InsertionPlace(k)
<1> USE DEF HInv
<1>1. HistoryInv /\ PointerInv /\ WalkInv
  BY DEF CallInv
<1>2. CASE /\ cursor = NIL /\ op.prev = NIL /\ pc # "walk"
           /\ pc \in {"link", "store"} => op.next = At(order, 1)
  <2>1. \A i \in 1..(Len(order) + 1) : At(order, i - 1) = cursor <=> i = 1
    BY <1>1, <1>2, OrderFacts DEF At
  <2>2. pc # "store" => Successor = At(order, 1)
    BY <1>1, <1>2 DEF Successor, PointerInv
  <2>3. InsertionPlace(1)
    BY <1>1, <1>2, <2>1, <2>2, OrderFacts DEF InsertionPlace
  <2> QED
    BY <2>3, <1>1, OrderFacts
<1>3. ASSUME NEW c \in 1..Len(order), order[c] = cursor,
             pc \in {"link", "store"} => op.next = At(order, c + 1)
      PROVE  InsertionPlace(c + 1)
  <2>1. cursor # NIL /\ IndexOf(order, cursor) = c
    BY <1>1, <1>3, OrderFacts, IndexFacts
  <2>2. \A i \in 1..(Len(order) + 1) : At(order, i - 1) = cursor <=> i = c + 1
    BY <1>1, <1>3, <2>1, OrderFacts DEF At
  <2>3. pc # "store" => Successor = At(order, c + 1)
    BY <1>1, <1>3, <2>1 DEF Successor, PointerInv
  <2> QED
    BY <1>1, <1>3, <2>1, <2>2, <2>3, OrderFacts DEF InsertionPlace
<1>4. ASSUME NEW c \in 1..Len(order), order[c] = cursor,
             pc \in {"link", "store"} => op.next = At(order, c + 1)
      PROVE  \E k \in 1..(Len(order) + 1) : InsertionPlace(k)
  BY <1>1, <1>3, <1>4, OrderFacts
<1> QED
  BY <1>1, <1>2, <1>4 DEF WalkInv
-----------------------------------------------------------------------------
(***************************************************************************)
(* Every step preserves the inductive invariant: one lemma per action of   *)
(* the list.                                                               *)
(***************************************************************************)

\* A step that leaves the list, the call and the history alone.
LEMMA QuietStep ==
    ASSUME HInv, UNCHANGED <<listVars, callVars, historyVars>>
    PROVE  HInv'
BY DEF HInv, HistoryInv, PointerInv, CallInv, WalkInv, IntentPreserved, InCall,
       PanicOnlyOnUnknownPrev, Keys, listVars, callVars, historyVars

LEMMA BeginAddStep ==
    ASSUME TypeOK, HInv, NEW id \in Ids, NEW prev \in IdOrNil \ {id},
           BeginAdd(id, prev), UNCHANGED historyVars
    PROVE  HInv'
<1> USE DEF HInv
<1>1. /\ pc = "idle" /\ id \notin Keys
      /\ op' = [id |-> id, prev |-> prev, next |-> NIL]
      /\ cursor' = prev
      /\ pc' = IF prev = NIL THEN "relink"
               ELSE IF prev \in Keys THEN "walk" ELSE "panicked"
      /\ crdt' = crdt /\ head' = head /\ order' = order /\ sent' = sent
  BY DEF BeginAdd, listVars, historyVars
<1>2. HistoryInv' /\ IntentPreserved'
  BY <1>1 DEF HistoryInv, IntentPreserved, Keys
<1>3. PointerInv'
  BY <1>1 DEF PointerInv
<1>4. InCall' => WalkInv'
  <2>1. CASE prev = NIL
    BY <1>1, <2>1 DEF WalkInv
  <2>2. CASE prev # NIL /\ prev \in Keys
    <3>1. PICK p \in 1..Len(order) : order[p] = prev
      BY <2>2, OrderFacts
    <3>2. p \in Nat
      BY <3>1, OrderFacts
    <3>3. /\ p <= p /\ \A j \in (p + 1)..p : Skips(order[j], id)
      BY <3>2
    <3> QED
      BY <1>1, <2>2, <3>1, <3>3 DEF WalkInv
  <2>3. CASE prev # NIL /\ prev \notin Keys
    BY <1>1, <2>3 DEF InCall
  <2> QED
    BY <2>1, <2>2, <2>3
<1>5. CallInv'
  BY <1>1, <1>4 DEF CallInv, InCall, PanicOnlyOnUnknownPrev, Keys
<1> QED
  BY <1>2, <1>3, <1>5

LEMMA WalkOnStep ==
    ASSUME TypeOK, HInv, WalkOn, UNCHANGED historyVars
    PROVE  HInv'
<1> USE DEF HInv
<1>1. /\ pc = "walk" /\ pc' = pc /\ op' = op
      /\ Successor \in Keys /\ Skips(Successor, op.id) /\ cursor' = Successor
      /\ crdt' = crdt /\ head' = head /\ order' = order /\ sent' = sent
  BY DEF WalkOn, listVars, historyVars
<1>2. HistoryInv' /\ IntentPreserved'
  BY <1>1 DEF HistoryInv, IntentPreserved, Keys
<1>3. PointerInv'
  BY <1>1 DEF PointerInv
<1>4. WalkInv'
  <2>1. PICK p, c \in 1..Len(order) :
            /\ order[p] = op.prev /\ order[c] = cursor /\ p <= c
            /\ \A j \in (p + 1)..c : Skips(order[j], op.id)
    BY <1>1 DEF CallInv, WalkInv, InCall
  <2>2. cursor # NIL
    BY <2>1, OrderFacts
  <2>3. Successor = At(order, c + 1)
    BY <1>1, <2>1, <2>2 DEF Successor, PointerInv
  <2>4. c + 1 \in 1..Len(order) /\ order[c + 1] = cursor'
    BY <1>1, <2>1, <2>3, OrderFacts DEF At
  <2>5. p <= c + 1 /\ \A j \in (p + 1)..(c + 1) : Skips(order[j], op.id)
    BY <1>1, <2>1, <2>4, OrderFacts
  <2> QED
    BY <1>1, <2>1, <2>4, <2>5 DEF WalkInv
<1>5. CallInv'
  BY <1>1, <1>4 DEF CallInv, InCall, PanicOnlyOnUnknownPrev, Keys
<1> QED
  BY <1>2, <1>3, <1>5

LEMMA WalkDoneStep ==
    ASSUME TypeOK, HInv, WalkDone, UNCHANGED historyVars
    PROVE  HInv'
<1> USE DEF HInv
<1>1. /\ pc = "walk" /\ op' = op /\ cursor' = cursor
      /\ ~(Successor \in Keys /\ Skips(Successor, op.id))
      /\ pc' = IF <<Successor, op.id>> \in IdGreater /\ Successor \notin Keys
               THEN "panicked" ELSE "relink"
      /\ crdt' = crdt /\ head' = head /\ order' = order /\ sent' = sent
  BY DEF WalkDone, listVars, historyVars
<1>2. PICK p, c \in 1..Len(order) :
          /\ order[p] = op.prev /\ order[c] = cursor /\ p <= c
          /\ \A j \in (p + 1)..c : Skips(order[j], op.id)
  BY <1>1 DEF CallInv, WalkInv, InCall
<1>3. Successor = At(order, c + 1)
  <2>1. cursor # NIL
    BY <1>2, OrderFacts
  <2> QED
    BY <1>1, <1>2, <2>1 DEF Successor, PointerInv
<1>4. Successor \in Keys \/ Successor = NIL
  BY <1>3, OrderFacts DEF At
<1>5. pc' = "relink"
  <2>1. <<NIL, op.id>> \notin IdGreater
    BY ElementsAssumption
  <2> QED
    BY <1>1, <1>4, <2>1
<1>6. c < Len(order) => ~Skips(order[c + 1], op.id)
  <2> SUFFICES ASSUME c < Len(order) PROVE ~Skips(order[c + 1], op.id)
    OBVIOUS
  <2>1. c + 1 \in 1..Len(order)
    BY OrderFacts
  <2>2. Successor = order[c + 1] /\ Successor \in Keys
    BY <1>3, <2>1, OrderFacts DEF At
  <2> QED
    BY <1>1, <2>2
<1>7. WalkInv'
  BY <1>1, <1>2, <1>5, <1>6 DEF WalkInv
<1>8. HistoryInv' /\ IntentPreserved'
  BY <1>1 DEF HistoryInv, IntentPreserved, Keys
<1>9. PointerInv'
  BY <1>1, <1>5 DEF PointerInv
<1>10. CallInv'
  BY <1>1, <1>5, <1>7 DEF CallInv, InCall, PanicOnlyOnUnknownPrev, Keys
<1> QED
  BY <1>8, <1>9, <1>10

LEMMA RelinkStep ==
    ASSUME TypeOK, HInv, Relink, UNCHANGED historyVars
    PROVE  HInv'
<1> USE DEF HInv
<1>1. /\ pc = "relink" /\ pc' = "link" /\ cursor' = cursor
      /\ head' = head /\ order' = order /\ sent' = sent
  BY DEF Relink, historyVars
<1>2. InCall /\ HistoryInv /\ PointerInv /\ WalkInv /\ op.next = NIL
  BY <1>1 DEF CallInv, InCall
<1>3. PICK k \in 1..(Len(order) + 1) : InsertionPlace(k)
  BY <1>2, CursorPlace
<1>4. Successor = At(order, k)
  BY <1>1, <1>3 DEF InsertionPlace
<1>5. op' = [op EXCEPT !.next = At(order, k)] /\ op'.id = op.id /\ op'.prev = op.prev
  <2>1. CASE Successor \in Keys
    BY <2>1, <1>4 DEF Relink, TypeOK, Call
  <2>2. CASE Successor \notin Keys
    <3>1. Successor = NIL
      BY <2>2, <1>2, <1>4, OrderFacts DEF At
    <3> QED
      BY <2>2, <3>1, <1>2, <1>4 DEF Relink, TypeOK, Call
  <2> QED
    BY <2>1, <2>2
<1>6. op'.next = At(order, k)
  BY <1>5 DEF TypeOK, Call
<1>7. /\ Keys' = Keys
      /\ \A i \in 1..Len(order) :
            /\ crdt'[order[i]].next = crdt[order[i]].next
            /\ crdt'[order[i]].prev = IF i = k THEN op.id ELSE crdt[order[i]].prev
  <2> USE DEF TypeOK, IsMap, Element, Keys
  <2>1. CASE k \in 1..Len(order)
    <3>1. Successor = order[k] /\ Successor \in Keys
      BY <2>1, <1>2, <1>4, OrderFacts DEF At
    <3>2. crdt' = [crdt EXCEPT ![order[k]].prev = op.id]
      BY <3>1 DEF Relink
    <3> QED
      BY <2>1, <3>2, <1>2, OrderFacts
  <2>2. CASE k \notin 1..Len(order)
    <3>1. Successor \notin Keys
      BY <2>2, <1>2, <1>4, OrderFacts DEF At
    <3>2. crdt' = crdt
      BY <3>1 DEF Relink
    <3> QED
      BY <2>2, <3>2, <1>2, OrderFacts
  <2> QED
    BY <2>1, <2>2
<1>8. PointerInv'
  <2>1. head' = At(order, 1)
    BY <1>1, <1>2 DEF PointerInv
  <2>2. ASSUME NEW i \in 1..Len(order)
        PROVE  /\ crdt'[order[i]].next = At(order, i + 1)
               /\ crdt'[order[i]].prev = IF At(order, i - 1) = cursor
                                         THEN op.id ELSE At(order, i - 1)
    <3>1. At(order, i - 1) = cursor <=> i = k
      BY <1>2, <1>3, OrderFacts DEF InsertionPlace
    <3>2. /\ crdt[order[i]].next = At(order, i + 1)
          /\ crdt[order[i]].prev = At(order, i - 1)
      BY <1>1, <1>2 DEF PointerInv
    <3> QED
      BY <1>7, <3>1, <3>2
  <2> QED
    BY <1>1, <1>5, <2>1, <2>2 DEF PointerInv
<1>9. WalkInv'
  <2>1. CASE cursor = NIL /\ op.prev = NIL
    <3>1. k = 1
      BY <1>3, <2>1 DEF InsertionPlace
    <3> QED
      BY <1>1, <1>5, <1>6, <2>1, <3>1 DEF WalkInv
  <2>2. ASSUME NEW p \in 1..Len(order), NEW c \in 1..Len(order),
               order[p] = op.prev, order[c] = cursor, p <= c,
               \A j \in (p + 1)..c : Skips(order[j], op.id),
               c < Len(order) => ~Skips(order[c + 1], op.id)
        PROVE  WalkInv'
    <3>1. k = c + 1
      BY <1>2, <1>3, <2>2, OrderFacts, IndexFacts DEF InsertionPlace
    <3> QED
      BY <1>1, <1>5, <1>6, <2>2, <3>1 DEF WalkInv
  <2> QED
    BY <1>1, <1>2, <2>1, <2>2 DEF WalkInv
<1>10. HistoryInv' /\ IntentPreserved'
  BY <1>1, <1>7 DEF HistoryInv, IntentPreserved
<1>11. CallInv'
  BY <1>1, <1>2, <1>5, <1>7, <1>9 DEF CallInv, InCall, PanicOnlyOnUnknownPrev
<1> QED
  BY <1>8, <1>10, <1>11
LEMMA LinkStep ==
    ASSUME TypeOK, HInv, Link, UNCHANGED historyVars
    PROVE  HInv'
<1> USE DEF HInv
<1>1. /\ pc = "link" /\ pc' = "store" /\ cursor' = cursor /\ op' = op
      /\ order' = order /\ sent' = sent
  BY DEF Link, historyVars
<1>2. InCall /\ HistoryInv /\ PointerInv /\ WalkInv
  BY <1>1 DEF CallInv, InCall
<1>3. cursor = NIL \/ cursor \in Keys
  BY <1>2, OrderFacts DEF WalkInv
<1>4. head' = IF cursor = NIL THEN op.id ELSE head
  BY DEF Link
<1>5. /\ Keys' = Keys
      /\ \A i \in 1..Len(order) :
            /\ crdt'[order[i]].prev = crdt[order[i]].prev
            /\ crdt'[order[i]].next = IF order[i] = cursor
                                      THEN op.id ELSE crdt[order[i]].next
  <2> USE DEF TypeOK, IsMap, Element, Keys
  <2>1. CASE cursor = NIL
    <3>1. crdt' = crdt
      BY <2>1 DEF Link
    <3> QED
      BY <2>1, <3>1, <1>2, OrderFacts
  <2>2. CASE cursor # NIL
    <3>1. crdt' = [crdt EXCEPT ![cursor].next = op.id] /\ cursor \in Keys
      BY <2>2, <1>3 DEF Link
    <3> QED
      BY <3>1, <1>2, OrderFacts
  <2> QED
    BY <2>1, <2>2
<1>6. PointerInv'
  <2>1. head' = IF cursor = NIL THEN op.id ELSE At(order, 1)
    BY <1>1, <1>2, <1>4 DEF PointerInv
  <2>2. ASSUME NEW i \in 1..Len(order)
        PROVE  /\ crdt'[order[i]].next = IF order[i] = cursor
                                         THEN op.id ELSE At(order, i + 1)
               /\ crdt'[order[i]].prev = IF At(order, i - 1) = cursor
                                         THEN op.id ELSE At(order, i - 1)
    BY <1>1, <1>2, <1>5 DEF PointerInv
  <2> QED
    BY <1>1, <2>1, <2>2 DEF PointerInv
<1>7. WalkInv'
  BY <1>1, <1>2 DEF WalkInv
<1>8. HistoryInv' /\ IntentPreserved'
  BY <1>1, <1>5 DEF HistoryInv, IntentPreserved
<1>9. CallInv'
  BY <1>1, <1>2, <1>5, <1>7 DEF CallInv, InCall, PanicOnlyOnUnknownPrev
<1> QED
  BY <1>6, <1>8, <1>9

\* The element at each place of the order once e has been inserted.
LEMMA AtInserted ==
    ASSUME NEW S, NEW s \in Seq(S), NEW e \in S, NEW k \in 1..(Len(s) + 1),
           NEW j \in Int
    PROVE  At(InsertAt(s, k, e), j) = IF j < k THEN At(s, j)
                                      ELSE IF j = k THEN e ELSE At(s, j - 1)
<1> DEFINE t == InsertAt(s, k, e)
<1>1. Len(s) \in Nat
  OBVIOUS
<1>2. /\ Len(t) = Len(s) + 1
      /\ \A i \in 1..(Len(s) + 1) :
            t[i] = IF i < k THEN s[i] ELSE IF i = k THEN e ELSE s[i - 1]
  BY InsertAtElements DEF IsInsertion
<1> SUFFICES At(t, j) = IF j < k THEN At(s, j) ELSE IF j = k THEN e ELSE At(s, j - 1)
  OBVIOUS
<1> HIDE DEF t
<1>3. CASE j \notin 1..(Len(s) + 1)
  BY <1>1, <1>2, <1>3 DEF At
<1>4. CASE j \in 1..(Len(s) + 1)
  <2>1. At(t, j) = t[j]
    BY <1>2, <1>4 DEF At
  <2>2. CASE j < k
    BY <1>1, <1>2, <1>4, <2>1, <2>2 DEF At
  <2>3. CASE j = k
    BY <1>1, <1>2, <1>4, <2>1, <2>3
  <2>4. CASE j > k
    <3>1. j - 1 \in 1..Len(s)
      BY <1>1, <1>4, <2>4
    <3> QED
      BY <1>1, <1>2, <1>4, <2>1, <2>4, <3>1 DEF At
  <2> QED
    BY <2>2, <2>3, <2>4
<1> QED
  BY <1>3, <1>4

\* The sequence of the session with one more element, in terms of its own ids.
LEMMA InsertedElements ==
    ASSUME NEW s \in Seq(Ids), NEW e \in Ids, NEW k \in 1..(Len(s) + 1),
           NEW t, t = InsertAt(s, k, e)
    PROVE  /\ t \in Seq(Ids) /\ Len(t) = Len(s) + 1
           /\ IsInsertion(t, s, k, e)
BY InsertAtElements, Zenon

\* What Store makes of the history.
LEMMA StoreHistory ==
    ASSUME TypeOK, HInv, Store, order' = Placed, sent' = Put(sent, op.id, op.prev),
           NEW k \in 1..(Len(order) + 1), InsertionPlace(k)
    PROVE  /\ order' = InsertAt(order, k, op.id)
           /\ HistoryInv'
           /\ Len(order') = Len(order) + 1
           /\ IndexOf(order', op.id) = k
           /\ \A i \in 1..Len(order) :
                 IndexOf(order', order[i]) = IF i < k THEN i ELSE i + 1
           /\ IntentPreserved'
<1> USE DEF HInv
<1>1. pc = "store" /\ InCall /\ HistoryInv /\ WalkInv /\ op.id \in Ids \ Keys
  BY DEF Store, CallInv, InCall
<1>2. order' = InsertAt(order, k, op.id)
  BY <1>1 DEF Placed, InsertionPlace
<1>3. order \in Seq(Ids) /\ op.id \in Ids /\ IsInjective(order) /\ op.id \notin Range(order)
  BY <1>1 DEF HistoryInv
<1>4. /\ order' \in Seq(Ids) /\ Len(order') = Len(order) + 1
      /\ \A j \in 1..(Len(order) + 1) :
            order'[j] = IF j < k THEN order[j]
                        ELSE IF j = k THEN op.id ELSE order[j - 1]
  <2>1. /\ order' \in Seq(Ids) /\ Len(order') = Len(order) + 1
        /\ IsInsertion(order', order, k, op.id)
    BY <1>2, <1>3, InsertedElements, Zenon
  <2> QED
    BY <2>1 DEF IsInsertion
<1>5. IsInjective(order') /\ Range(order') = Range(order) \cup {op.id}
  BY <1>2, <1>3, InsertAtInjective
<1>6. Keys' = Keys \cup {op.id}
  BY DEF Store, Put, Keys
<1>7. op.prev \in Keys \cup {NIL}
  BY <1>1, OrderFacts DEF WalkInv
<1>8. HistoryInv'
  BY <1>1, <1>4, <1>5, <1>6, <1>7 DEF HistoryInv, Put
<1>9. IndexOf(order', op.id) = k
  <2>1. k \in 1..Len(order') /\ order'[k] = op.id
    BY <1>4
  <2>2. \A j \in 1..Len(order') : order'[j] = op.id => j = k
    BY <2>1, <1>5 DEF IsInjective
  <2> QED
    BY <2>1, <2>2 DEF IndexOf
<1>10. ASSUME NEW i \in 1..Len(order)
       PROVE  IndexOf(order', order[i]) = IF i < k THEN i ELSE i + 1
  <2> DEFINE m == IF i < k THEN i ELSE i + 1
  <2>1. m \in 1..Len(order') /\ order'[m] = order[i]
    BY <1>4
  <2> HIDE DEF m
  <2>2. \A j \in 1..Len(order') : order'[j] = order[i] => j = m
    BY <2>1, <1>5 DEF IsInjective
  <2>3. IndexOf(order', order[i]) = m
    BY <2>1, <2>2 DEF IndexOf
  <2> QED
    BY <2>3 DEF m
<1>11. ASSUME NEW id \in DOMAIN sent', sent'[id] # NIL
       PROVE  IndexOf(order', sent'[id]) < IndexOf(order', id)
  <2>1. CASE id = op.id
    <3>1. sent'[id] = op.prev /\ op.prev # NIL
      BY <2>1, <1>11 DEF Put
    <3>2. PICK p, c \in 1..Len(order) : order[p] = op.prev /\ order[c] = cursor /\ p <= c
      BY <3>1, <1>1 DEF WalkInv
    <3>3. k = c + 1
      BY <3>2, <1>1, OrderFacts, IndexFacts DEF InsertionPlace
    <3>4. IndexOf(order', op.prev) = p
      BY <3>2, <3>3, <1>10, OrderFacts
    <3> QED
      BY <2>1, <3>1, <3>2, <3>3, <3>4, <1>9, <1>1, OrderFacts
  <2>2. CASE id # op.id
    <3>1. id \in Keys /\ sent'[id] = sent[id] /\ sent[id] \in Keys
      BY <2>2, <1>11, <1>1 DEF Put, HistoryInv
    <3>2. PICK i, j \in 1..Len(order) : order[i] = sent[id] /\ order[j] = id
      BY <3>1, <1>1, OrderFacts
    <3>3. i < j
      BY <3>1, <3>2, <1>1, <1>11, IndexFacts DEF IntentPreserved, HistoryInv
    <3> QED
      BY <3>1, <3>2, <3>3, <1>10, OrderFacts
  <2> QED
    BY <2>1, <2>2
<1>12. IntentPreserved'
  BY <1>11 DEF IntentPreserved
<1> QED
  BY <1>2, <1>4, <1>8, <1>9, <1>10, <1>12

LEMMA StoreStep ==
    ASSUME TypeOK, HInv, HStore
    PROVE  HInv'
<1> USE DEF HInv
<1>1. /\ pc = "store" /\ InCall /\ HistoryInv /\ PointerInv /\ WalkInv
      /\ op.id \in Ids \ Keys
  BY DEF HStore, Store, CallInv, InCall
<1>2. PICK k \in 1..(Len(order) + 1) : InsertionPlace(k)
  BY <1>1, CursorPlace
<1>3. /\ order' = InsertAt(order, k, op.id)
      /\ HistoryInv' /\ Len(order') = Len(order) + 1 /\ IntentPreserved'
  BY <1>2, StoreHistory DEF HStore
<1>4. /\ pc' \in {"idle", "fatal"} /\ op' = NoCall /\ cursor' = NIL /\ head' = head
      /\ crdt' = Put(crdt, op.id, [prev |-> cursor, next |-> op.next, deleted |-> FALSE])
  BY DEF HStore, Store
<1>5. Len(order) \in Nat
  BY <1>1, OrderFacts
<1>6. \A j \in Int : At(order', j) = IF j < k THEN At(order, j)
                                     ELSE IF j = k THEN op.id ELSE At(order, j - 1)
  BY <1>1, <1>3, AtInserted DEF HistoryInv
<1>7. \A i \in 1..Len(order) : /\ order[i] # op.id
                               /\ crdt'[order[i]] = crdt[order[i]]
  BY <1>1, <1>4, OrderFacts DEF Put, Keys
<1>8. \A i \in 1..Len(order) :
          /\ crdt[order[i]].next = IF i + 1 = k THEN op.id ELSE At(order, i + 1)
          /\ crdt[order[i]].prev = IF i = k THEN op.id ELSE At(order, i - 1)
  <2> SUFFICES ASSUME NEW i \in 1..Len(order)
               PROVE  /\ crdt[order[i]].next = IF i + 1 = k THEN op.id ELSE At(order, i + 1)
                      /\ crdt[order[i]].prev = IF i = k THEN op.id ELSE At(order, i - 1)
    OBVIOUS
  <2>1. At(order, (i + 1) - 1) = cursor <=> i + 1 = k
    BY <1>2, <1>5 DEF InsertionPlace
  <2>2. order[i] = cursor <=> i + 1 = k
    BY <2>1, <1>5 DEF At
  <2>3. At(order, i - 1) = cursor <=> i = k
    BY <1>2, <1>5 DEF InsertionPlace
  <2> QED
    BY <1>1, <2>2, <2>3 DEF PointerInv
<1>9. At(order, k - 1) = cursor /\ op.next = At(order, k)
  BY <1>1, <1>2 DEF InsertionPlace
<1>10. head' = At(order', 1)
  <2>1. cursor = NIL <=> k = 1
    <3>1. At(order, 1 - 1) = NIL
      BY <1>5 DEF At
    <3>2. cursor = NIL => k = 1
      BY <1>2 DEF InsertionPlace
    <3> QED
      BY <3>1, <3>2, <1>9
  <2>2. head = IF k = 1 THEN op.id ELSE At(order, 1)
    BY <1>1, <2>1 DEF PointerInv
  <2> QED
    BY <1>4, <1>6, <2>2
<1>11. ASSUME NEW i \in 1..Len(order')
       PROVE  /\ crdt'[order'[i]].next = At(order', i + 1)
              /\ crdt'[order'[i]].prev = At(order', i - 1)
  <2>1. i \in 1..(Len(order) + 1) /\ order'[i] = At(order', i)
    BY <1>3, <1>5 DEF At
  <2>2. CASE i = k
    <3>1. order'[i] = op.id
      BY <2>1, <2>2, <1>6
    <3>2. crdt'[op.id] = [prev |-> cursor, next |-> op.next, deleted |-> FALSE]
      BY <1>4 DEF Put
    <3> QED
      BY <2>1, <2>2, <3>1, <3>2, <1>6, <1>9
  <2>3. CASE i < k
    <3>1. i \in 1..Len(order) /\ order'[i] = order[i]
      BY <2>1, <2>3, <1>5, <1>6 DEF At
    <3> QED
      BY <2>3, <3>1, <1>6, <1>7, <1>8
  <2>4. CASE i > k
    <3>1. i - 1 \in 1..Len(order) /\ order'[i] = order[i - 1]
      BY <2>1, <2>4, <1>5, <1>6 DEF At
    <3>2. crdt'[order'[i]].next = At(order, i)
      BY <2>4, <3>1, <1>7, <1>8
    <3>3. crdt'[order'[i]].prev = IF i - 1 = k THEN op.id ELSE At(order, (i - 1) - 1)
      BY <2>4, <3>1, <1>7, <1>8
    <3> QED
      BY <2>1, <2>4, <3>2, <3>3, <1>6
  <2> QED
    BY <2>1, <2>2, <2>3, <2>4
<1>12. PointerInv'
  BY <1>4, <1>10, <1>11 DEF PointerInv
<1>13. CallInv'
  BY <1>4 DEF CallInv, InCall, PanicOnlyOnUnknownPrev
<1> QED
  BY <1>3, <1>12, <1>13

LEMMA DeleteStep ==
    ASSUME TypeOK, HInv, NEW id \in Ids, Delete(id), UNCHANGED historyVars
    PROVE  HInv'
<1> USE DEF HInv
<1>1. /\ pc = "idle" /\ pc' = pc /\ cursor' = cursor /\ op' = op /\ head' = head
      /\ order' = order /\ sent' = sent /\ id \in Keys
      /\ crdt' = [crdt EXCEPT ![id].deleted = TRUE]
  BY DEF Delete, callVars, historyVars
<1>2. /\ Keys' = Keys
      /\ \A x \in Keys : /\ crdt'[x].next = crdt[x].next
                         /\ crdt'[x].prev = crdt[x].prev
  BY <1>1 DEF TypeOK, IsMap, Element, Keys
<1>3. PointerInv'
  BY <1>1, <1>2, OrderFacts DEF PointerInv
<1>4. HistoryInv' /\ IntentPreserved'
  BY <1>1, <1>2 DEF HistoryInv, IntentPreserved
<1>5. CallInv'
  BY <1>1, <1>2 DEF CallInv, InCall, PanicOnlyOnUnknownPrev
<1> QED
  BY <1>3, <1>4, <1>5

-----------------------------------------------------------------------------
LEMMA InitInvariant == HInit => HInv
<1> SUFFICES ASSUME HInit PROVE HInv
  OBVIOUS
<1>1. /\ crdt = Empty /\ head = NIL /\ pc = "idle" /\ op = NoCall /\ cursor = NIL
      /\ order = <<>> /\ sent = Empty
  BY DEF HInit, Init
<1>2. HistoryInv /\ IntentPreserved
  BY <1>1 DEF HistoryInv, IntentPreserved, IsInjective, Range, Keys, Empty
<1>3. PointerInv
  BY <1>1 DEF PointerInv, At
<1>4. CallInv
  BY <1>1 DEF CallInv, InCall, PanicOnlyOnUnknownPrev
<1> QED
  BY <1>2, <1>3, <1>4 DEF HInv

\* The history variables restrict nothing: the steps of the annotated
\* specification are steps of Session.
LEMMA HistoryErased == HNext => Next
BY DEF HNext, HStore, Next

LEMMA StepInvariant == TypeOK /\ HInv /\ [HNext]_allVars => HInv'
<1> SUFFICES ASSUME TypeOK, HInv, [HNext]_allVars PROVE HInv'
  OBVIOUS
<1>1. ASSUME NEW id \in Ids, NEW prev \in IdOrNil \ {id},
             BeginAdd(id, prev), UNCHANGED historyVars
      PROVE  HInv'
  BY <1>1, BeginAddStep
<1>2. CASE WalkOn /\ UNCHANGED historyVars
  BY <1>2, WalkOnStep
<1>3. CASE WalkDone /\ UNCHANGED historyVars
  BY <1>3, WalkDoneStep
<1>4. CASE Relink /\ UNCHANGED historyVars
  BY <1>4, RelinkStep
<1>5. CASE Link /\ UNCHANGED historyVars
  BY <1>5, LinkStep
<1>6. CASE HStore
  BY <1>6, StoreStep
<1>7. ASSUME NEW id \in Ids, Delete(id), UNCHANGED historyVars
      PROVE  HInv'
  BY <1>7, DeleteStep
<1>8. CASE (BeginRead \/ (\E id \in Ids : ReadElement(id)) \/ ReadHead) /\ UNCHANGED historyVars
  BY <1>8, QuietStep DEF BeginRead, ReadElement, ReadHead
<1>9. CASE UNCHANGED allVars
  BY <1>9, QuietStep DEF allVars, vars
<1> QED
  BY <1>1, <1>2, <1>3, <1>4, <1>5, <1>6, <1>7, <1>8, <1>9 DEF HNext

LEMMA HistoryTypeCorrect == HSpec => []TypeOK
<1>1. HInit => Init
  BY DEF HInit
<1>2. [HNext]_allVars => [Next]_vars
  BY HistoryErased DEF allVars
<1> QED
  BY <1>1, <1>2, TypeCorrect, PTL DEF HSpec, Spec

\* The pointers stay what the inductive invariant says at every control point
\* of Session.Add, for any number of ids and any comparison of ids.
THEOREM InvariantHolds == HSpec => []HInv
BY InitInvariant, StepInvariant, HistoryTypeCorrect, PTL DEF HSpec

\* Between two calls of Add or Delete the map and the head are one doubly
\* linked list of all the elements stored so far.
THEOREM ListCorrect == HSpec => []ListIsSequence
<1>1. HInv => ListIsSequence
  BY DEF HInv, HistoryInv, PointerInv, ListIsSequence, Linked, Keys
<1> QED
  BY <1>1, InvariantHolds, PTL

\* Add dereferences nil only for a PrevID that the session does not have.
THEOREM PanicCorrect == HSpec => []PanicOnlyOnUnknownPrev
<1>1. HInv => PanicOnlyOnUnknownPrev
  BY DEF HInv, CallInv
<1> QED
  BY <1>1, InvariantHolds, PTL

\* Every element stays behind the element it was typed behind.
THEOREM IntentCorrect == HSpec => []IntentPreserved
<1>1. HInv => IntentPreserved
  BY DEF HInv
<1> QED
  BY <1>1, InvariantHolds, PTL
-----------------------------------------------------------------------------
(***************************************************************************)
(* The list implements the abstract sequence.                              *)
(***************************************************************************)

\* The abstract module's copies of the shared operators.
LEMMA SameOperators ==
    /\ \A s, i, e : Abs!InsertAt(s, i, e) = InsertAt(s, i, e)
    /\ \A f, k, v : Abs!Put(f, k, v) = Put(f, k, v)
    /\ \A s, p, i, id : Abs!IsPlace(s, p, i, id) <=> IsPlace(s, p, i, id)
    /\ Abs!Present = Range(order)
BY DEF Abs!InsertAt, InsertAt, Abs!Put, Put, Abs!IsPlace, IsPlace, Abs!Skips, Skips,
       Abs!Present, Abs!Range, Range

\* The tombstones depend only on which elements there are and their flags.
LEMMA TombstonesKept ==
    ASSUME Keys' = Keys, \A x \in Keys : crdt'[x].deleted = crdt[x].deleted
    PROVE  Tombstones' = Tombstones
BY DEF Tombstones

LEMMA StoreRefines ==
    ASSUME TypeOK, HInv, HStore
    PROVE  Abs!SeqNext
<1> USE DEF HInv
<1>1. /\ pc = "store" /\ InCall /\ HistoryInv /\ WalkInv
      /\ op.id \in Ids \ Keys
  BY DEF HStore, Store, CallInv, InCall
<1>2. PICK k \in 1..(Len(order) + 1) : InsertionPlace(k)
  BY <1>1, CursorPlace
<1>3. order' = InsertAt(order, k, op.id) /\ sent' = Put(sent, op.id, op.prev)
  BY <1>2, StoreHistory DEF HStore
<1>4. Tombstones' = Tombstones
  BY <1>1 DEF HStore, Store, Put, Keys, Tombstones
<1>5. op.id \notin Abs!Present
  BY <1>1, SameOperators DEF HistoryInv
<1>6. CASE cursor = NIL /\ op.prev = NIL
  <2>1. k = 1
    BY <1>2, <1>6 DEF InsertionPlace
  <2>2. Abs!InsertHead(op.id)
    BY <1>3, <1>4, <1>5, <1>6, <2>1, SameOperators DEF Abs!InsertHead
  <2> QED
    BY <1>1, <2>2 DEF Abs!SeqNext
<1>7. ASSUME NEW p \in 1..Len(order), NEW c \in 1..Len(order),
             order[p] = op.prev, order[c] = cursor, p <= c,
             \A j \in (p + 1)..c : Skips(order[j], op.id),
             c < Len(order) => ~Skips(order[c + 1], op.id)
      PROVE  Abs!SeqNext
  <2>1. k = c + 1
    BY <1>1, <1>2, <1>7, OrderFacts, IndexFacts DEF InsertionPlace
  <2>2. Abs!IsPlace(order, p, c, op.id)
    BY <1>7, SameOperators DEF IsPlace
  <2>3. order' = Abs!InsertAt(order, c + 1, op.id)
    BY <1>3, <2>1, SameOperators
  <2>4. sent' = Abs!Put(sent, op.id, op.prev)
    BY <1>3, SameOperators
  <2>5. Abs!InsertAfter(op.id, op.prev)
    BY <1>4, <1>5, <1>7, <2>2, <2>3, <2>4 DEF Abs!InsertAfter
  <2>6. op.prev \in Ids
    BY <1>1, <1>7, OrderFacts
  <2> QED
    BY <1>1, <2>5, <2>6 DEF Abs!SeqNext
<1> QED
  BY <1>1, <1>6, <1>7 DEF WalkInv

LEMMA StepRefines == TypeOK /\ HInv /\ [HNext]_allVars => [Abs!SeqNext]_(Abs!seqVars)
<1> SUFFICES ASSUME TypeOK, HInv, [HNext]_allVars, ~HStore
             PROVE  Abs!SeqNext \/ UNCHANGED <<order, sent, Tombstones>>
  BY StoreRefines DEF Abs!seqVars
<1> USE DEF TypeOK, IsMap, Element, Keys
<1>1. ASSUME UNCHANGED <<crdt, order, sent>>
      PROVE  UNCHANGED <<order, sent, Tombstones>>
  BY <1>1 DEF Tombstones
<1>2. CASE Relink /\ UNCHANGED historyVars
  <2>1. Keys' = Keys /\ \A x \in Keys : crdt'[x].deleted = crdt[x].deleted
    BY <1>2 DEF Relink
  <2> QED
    BY <1>2, <2>1, TombstonesKept DEF historyVars
<1>3. CASE Link /\ UNCHANGED historyVars
  <2>1. Keys' = Keys /\ \A x \in Keys : crdt'[x].deleted = crdt[x].deleted
    BY <1>3 DEF Link
  <2> QED
    BY <1>3, <2>1, TombstonesKept DEF historyVars
<1>4. ASSUME NEW id \in Ids, Delete(id), UNCHANGED historyVars
      PROVE  Abs!SeqNext
  <2>1. id \in Abs!Present \ Tombstones
    BY <1>4, SameOperators DEF Delete, HInv, HistoryInv, Tombstones
  <2>2. Tombstones' = Tombstones \cup {id}
    BY <1>4 DEF Delete, Tombstones
  <2>3. Abs!Bury(id)
    BY <1>4, <2>1, <2>2 DEF Abs!Bury, historyVars
  <2> QED
    BY <2>3 DEF Abs!SeqNext
<1> QED
  BY <1>1, <1>2, <1>3, <1>4
  DEF HNext, BeginAdd, WalkOn, WalkDone, BeginRead, ReadElement, ReadHead,
      allVars, vars, listVars, historyVars

\* Session.Add and Session.Delete implement the abstract sequence: every
\* element goes to a place the rule of getPrev allows for its PrevID, an
\* element once placed never moves, and a deleted one stays as a tombstone.
THEOREM ListRefinesSequence == HSpec => RefinesSequence
<1>1. HInit => Abs!SeqInit
  BY DEF HInit, Init, Abs!SeqInit, Empty, Tombstones, Keys
<1> QED
  BY <1>1, HistoryTypeCorrect, InvariantHolds, StepRefines, PTL DEF HSpec, RefinesSequence, Abs!SeqSpec

-----------------------------------------------------------------------------
(***************************************************************************)
(* The copy of a reader that does not take the lock.                       *)
(***************************************************************************)

LEMMA CopyStep == TypeOK /\ HInv /\ CopyInv /\ [HNext]_allVars => CopyInv'
<1> SUFFICES ASSUME TypeOK, HInv, CopyInv, [HNext]_allVars PROVE CopyInv'
  OBVIOUS
<1>1. ASSUME UNCHANGED <<readVars, head>>, Keys' = Keys, pc' = "idle" => pc = "idle",
             \A id \in Keys : pc' = "idle" => crdt'[id].next = crdt[id].next
      PROVE  CopyInv'
  BY <1>1 DEF CopyInv, readVars
<1>2. ASSUME NEW id \in Ids, NEW prev \in IdOrNil \ {id}, BeginAdd(id, prev)
      PROVE  CopyInv'
  BY <1>1, <1>2 DEF BeginAdd, listVars, Keys
<1>3. ASSUME UNCHANGED readVars, Keys' = Keys, pc' # "idle"
      PROVE  CopyInv'
  BY <1>3 DEF CopyInv, readVars
<1>4. CASE WalkOn
  BY <1>3, <1>4 DEF WalkOn, listVars, Keys
<1>5. CASE WalkDone
  BY <1>3, <1>5 DEF WalkDone, listVars, Keys
<1>6. CASE Relink
  <2>1. Keys' = Keys /\ pc' # "idle" /\ UNCHANGED readVars
    BY <1>6 DEF Relink, Keys
  <2> QED
    BY <2>1, <1>3
<1>7. CASE Link
  <2>1. Keys' = Keys /\ pc' # "idle" /\ UNCHANGED readVars
    BY <1>7 DEF Link, Keys
  <2> QED
    BY <2>1, <1>3
<1>8. CASE Store
  <2>1. Keys' = Keys \cup {op.id} /\ UNCHANGED readVars
    BY <1>8 DEF Store, Put, Keys
  <2>2. op.id \notin Keys
    BY <1>8 DEF HInv, CallInv, InCall, Store
  <2> QED
    BY <2>1, <2>2 DEF CopyInv, readVars
<1>9. ASSUME NEW id \in Ids, Delete(id)
      PROVE  CopyInv'
  <2>1. Keys' = Keys /\ pc' = pc /\ head' = head /\ UNCHANGED readVars
    BY <1>9 DEF Delete, callVars, Keys
  <2>2. \A k \in Keys : crdt'[k].next = crdt[k].next
    BY <1>9 DEF Delete, Keys, TypeOK, IsMap, Element
  <2> QED
    BY <1>1, <2>1, <2>2
<1>10. CASE BeginRead
  BY <1>10 DEF BeginRead, listVars, callVars, Empty, CopyInv, Keys
<1>11. ASSUME NEW id \in Ids, ReadElement(id)
       PROVE  CopyInv'
  <2>1. /\ crdt' = crdt /\ head' = head /\ pc' = pc /\ reader' = "elements"
        /\ reader = "elements" /\ id \in unread
    BY <1>11 DEF ReadElement, listVars, callVars
  <2>2. /\ DOMAIN copy' = DOMAIN copy \cup {id} /\ unread' = unread \ {id}
        /\ \A k \in DOMAIN copy' : copy'[k] = IF k = id THEN crdt[id] ELSE copy[k]
    BY <1>11 DEF ReadElement, Put
  <2>3. DOMAIN copy' \cup unread' = DOMAIN copy \cup unread /\ Keys' = Keys
    BY <2>1, <2>2 DEF Keys
  <2> QED
    BY <2>1, <2>2, <2>3 DEF CopyInv
<1>12. CASE ReadHead
  BY <1>12 DEF ReadHead, listVars, callVars, CopyInv, Keys
<1>13. CASE UNCHANGED allVars
  BY <1>1, <1>13 DEF allVars, vars, listVars, callVars, Keys
<1> QED
  BY <1>2, <1>4, <1>5, <1>6, <1>7, <1>8, <1>9, <1>10, <1>11, <1>12, <1>13, HistoryErased
     DEF Next

\* The keys of the map are as many as the places in the order.
LEMMA KeysCounted ==
    ASSUME HistoryInv
    PROVE  Cardinality(Keys) = Len(order)
<1>1. order \in Bijection(1..Len(order), Keys)
  <2>1. order \in [1..Len(order) -> Keys]
    BY OrderFacts DEF HistoryInv
  <2> QED
    BY <2>1, OrderFacts DEF Bijection, Injection, Surjection, IsInjective
<1>2. Len(order) \in Nat
  BY OrderFacts
<1>3. IsFiniteSet(1..Len(order)) /\ Cardinality(1..Len(order)) = Len(order)
  BY <1>2, FS_Interval, 1 \in Int, Len(order) \in Int
<1>4. ExistsBijection(1..Len(order), Keys)
  BY <1>1 DEF ExistsBijection
<1> QED
  BY <1>3, <1>4, FS_Bijection

\* at is the walk of Reach: what is found by following n NextIDs from h.
IsReaching(at, f, h) ==
    at = [n \in 0..Cardinality(DOMAIN f) |->
             IF n = 0 THEN h
             ELSE IF at[n - 1] \in DOMAIN f THEN f[at[n - 1]].next ELSE NIL]

\* In a map whose NextIDs follow the order, the walk visits it place by place.
LEMMA ReachOrdered ==
    ASSUME HistoryInv, NEW f, NEW h, DOMAIN f = Keys, h = At(order, 1),
           \A i \in 1..Len(order) : f[order[i]].next = At(order, i + 1)
    PROVE  Keys \subseteq Reach(f, h)
<1> DEFINE len == Len(order)
           walk == CHOOSE at : IsReaching(at, f, h)
           Found(at, n) == IF n = 0 THEN h
                           ELSE IF at[n - 1] \in Keys THEN f[at[n - 1]].next ELSE NIL
<1>1. len \in Nat /\ Cardinality(DOMAIN f) = len
  BY OrderFacts, KeysCounted
<1>2. Reach(f, h) = { walk[n] : n \in 0..len }
  BY <1>1 DEF Reach, IsReaching
<1>3. \A at : IsReaching(at, f, h) <=> at = [n \in 0..len |-> Found(at, n)]
  BY <1>1 DEF IsReaching
<1>4. ASSUME NEW n \in 0..len, n # 0
      PROVE  At(order, n) \in Keys /\ f[At(order, n)].next = At(order, n + 1)
  <2>1. n \in 1..len
    BY <1>1, <1>4
  <2> QED
    BY <2>1, OrderFacts DEF At
<1>5. \E at : IsReaching(at, f, h)
  <2> DEFINE g == [n \in 0..len |-> At(order, n + 1)]
  <2>1. ASSUME NEW n \in 0..len PROVE Found(g, n) = At(order, n + 1)
    <3>1. CASE n = 0
      BY <3>1
    <3>2. CASE n # 0
      <4>1. n - 1 \in 0..len /\ (n - 1) + 1 = n
        BY <1>1, <3>2
      <4>2. g[n - 1] = At(order, n)
        BY <4>1
      <4> QED
        BY <4>2, <3>2, <1>4
    <3> QED
      BY <3>1, <3>2
  <2>2. g = [n \in 0..len |-> Found(g, n)]
    BY <2>1, Zenon
  <2> QED
    BY <2>2, <1>3
<1>6. IsReaching(walk, f, h)
  BY <1>5
<1> HIDE DEF walk
<1>7. \A n \in 0..len : walk[n] = Found(walk, n)
  BY <1>6, <1>3, Zenon
<1>8. ASSUME NEW n \in 0..len PROVE walk[n] = At(order, n + 1)
  <2> DEFINE Bad == {k \in Nat : k \in 0..len /\ walk[k] # At(order, k + 1)}
  <2>1. SUFFICES ASSUME Bad # {} PROVE FALSE
    BY <1>1
  <2>2. PICK k \in Bad : \A m \in Bad : k <= m
    BY <2>1, LeastNatural
  <2>3. CASE k = 0
    <3>1. walk[0] = h
      BY <1>1, <1>7
    <3> QED
      BY <3>1, <2>2, <2>3
  <2>4. CASE k # 0
    <3>1. k - 1 \in 0..len /\ k - 1 \in Nat /\ (k - 1) + 1 = k
      BY <2>2, <2>4, <1>1
    <3>2. k - 1 \notin Bad
      BY <2>2, <3>1
    <3>3. walk[k - 1] = At(order, k)
      BY <3>1, <3>2
    <3>4. walk[k] = At(order, k + 1)
      BY <3>3, <2>2, <2>4, <1>4, <1>7
    <3> QED
      BY <3>4, <2>2
  <2> QED
    BY <2>3, <2>4
<1>9. ASSUME NEW x \in Keys PROVE x \in { walk[n] : n \in 0..len }
  <2>1. PICK i \in 1..len : order[i] = x
    BY OrderFacts
  <2>2. i - 1 \in 0..len /\ (i - 1) + 1 = i
    BY <1>1, <2>1
  <2>3. walk[i - 1] = x
    BY <1>8, <2>1, <2>2 DEF At
  <2> QED
    BY <2>2, <2>3
<1> QED
  BY <1>2, <1>9

LEMMA CopyInvHolds == HSpec => []CopyInv
<1>1. HInit => CopyInv
  BY DEF HInit, Init, CopyInv, Empty, Keys
<1> QED
  BY <1>1, CopyStep, HistoryTypeCorrect, InvariantHolds, PTL DEF HSpec

\* A session that is encoded without its mutex while nothing is added -- the
\* replies of GET /session and Worker.GetSession, the payload of SaveSession --
\* is a list of all its elements, whatever Session.Delete does meanwhile.
THEOREM CopyCorrect == HSpec => []QuietCopyIsOneList
<1>1. HInv /\ CopyInv => QuietCopyIsOneList
  <2> SUFFICES ASSUME HInv, CopyInv, reader = "done", pc = "idle", DOMAIN copy = Keys
               PROVE  DOMAIN copy \subseteq Reach(copy, copyHead)
    BY DEF QuietCopyIsOneList
  <2>1. /\ \A id \in Keys : copy[id].next = crdt[id].next
        /\ copyHead = head
    BY DEF CopyInv
  <2>2. /\ head = At(order, 1)
        /\ \A i \in 1..Len(order) : crdt[order[i]].next = At(order, i + 1)
    BY DEF HInv, PointerInv
  <2>3. HistoryInv
    BY DEF HInv
  <2>4. \A i \in 1..Len(order) : copy[order[i]].next = At(order, i + 1)
    BY <2>1, <2>2, <2>3, OrderFacts
  <2> QED
    BY <2>1, <2>2, <2>3, <2>4, ReachOrdered
<1> QED
  BY <1>1, InvariantHolds, CopyInvHolds, PTL
=============================================================================
