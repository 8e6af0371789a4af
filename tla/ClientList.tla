----------------------------- MODULE ClientList -----------------------------
(***************************************************************************)
(* The copy of a session in a browser: the linked list SeqCRDT (crdt.js),  *)
(* the record of what the editor shows (Mapping, on a single line) and the *)
(* handlers of operation.js that change the two together.  Browsers run    *)
(* one callback at a time, so a handler is a function from a document to   *)
(* the next.                                                               *)
(*                                                                         *)
(* An element id, the string "number_user", is the pair <<number, user>>;  *)
(* users are numbers that stand for the order of their names.              *)
(***************************************************************************)
EXTENDS Integers, FiniteSets, SequencesExt

CONSTANT NIL    \* undefined

Known(d) == DOMAIN d.next

\* crdt.js counts the elements it has been given and numbers new ones by it.
NewID(d, user) == <<d.length, user>>

\* parseInt(next) < parseInt(id), or equal numbers and next < id as strings.
IsLess(a, b) == a[1] < b[1] \/ (a[1] = b[1] /\ a[2] < b[2])

\* A walk of n steps, each from a place to step[place].
Path(start, step, n) ==
    LET at[k \in 0..n] == IF k = 0 THEN start ELSE step[at[k - 1]]
    IN  at

\* Where a walk along the list ends that has steps enough for all of it.
WalkEnd(d, start, step) == Path(start, step, Cardinality(Known(d)))[Cardinality(Known(d))]

\* Faulty ListPlace: elements that are equal by number are never passed.
ListPlaceByNumber(d, id, prev) ==
    LET step == [k \in Known(d) |->
                    IF d.next[k] = NIL \/ d.next[k][1] <= id[1] THEN k ELSE d.next[k]]
    IN  IF prev \in Known(d) THEN WalkEnd(d, prev, step) ELSE NIL

\* The element a remote one goes behind: the walk starts at its PrevID and
\* stops in front of the first smaller id.  An unknown PrevID, like none at
\* all, means the front of the list.
ListPlace(d, id, prev) ==
    LET step == [k \in Known(d) |->
                    IF d.next[k] = NIL \/ IsLess(d.next[k], id) THEN k ELSE d.next[k]]
    IN  IF prev \in Known(d) THEN WalkEnd(d, prev, step) ELSE NIL

IndexIn(s, id) == IF id \in Range(s) THEN CHOOSE i \in 1..Len(s) : s[i] = id ELSE 0

\* The last element before a place, or at it, that is not deleted.
VisibleBefore(d, prev) ==
    WalkEnd(d, prev, [k \in Known(d) \cup {NIL} |-> IF k \in d.dead THEN d.prev[k] ELSE k])

\* How many visible characters stay in front of an element placed behind prev.
TextPlace(d, prev) == IndexIn(d.text, VisibleBefore(d, prev))

\* Faulty Insert: the head of the list only ever changes with its first element.
InsertKeepsHead(d, id, prev, next, ch) ==
    [ next   |-> [k \in Known(d) \cup {id} |->
                     IF k = id THEN next ELSE IF k = prev THEN id ELSE d.next[k]],
      prev   |-> [k \in Known(d) \cup {id} |->
                     IF k = id THEN prev ELSE IF k = next THEN id ELSE d.prev[k]],
      head   |-> IF d.head = NIL THEN id ELSE d.head,
      dead   |-> d.dead,
      text   |-> InsertAt(d.text, ch + 1, id),
      length |-> d.length + 1 ]

\* Element id between prev and next, shown behind ch characters: prev.next,
\* next.prev, CRDT.set (which makes an element without prev the head and
\* counts it) and mapping.update.
Insert(d, id, prev, next, ch) ==
    [ next   |-> [k \in Known(d) \cup {id} |->
                     IF k = id THEN next ELSE IF k = prev THEN id ELSE d.next[k]],
      prev   |-> [k \in Known(d) \cup {id} |->
                     IF k = id THEN prev ELSE IF k = next THEN id ELSE d.prev[k]],
      head   |-> IF prev = NIL THEN id ELSE d.head,
      dead   |-> d.dead,
      text   |-> InsertAt(d.text, ch + 1, id),
      length |-> d.length + 1 ]

\* The element in front of the character typed behind ch others.
Preceding(d, ch) == IF ch = 0 THEN NIL ELSE d.text[ch]

\* handleLocalInput.  At the start of the text, next is the first visible
\* element, whatever tombstones the list has in front of it.
LocalInput(d, user, ch) ==
    LET prev == Preceding(d, ch)
        next == IF prev # NIL THEN d.next[prev]
                ELSE IF d.text # <<>> THEN d.text[1] ELSE NIL
    IN  Insert(d, NewID(d, user), prev, next, ch)

\* Faulty RemoteInput: only elements typed here are counted.
RemoteInputUncounted(d, id, prev) ==
    LET place == ListPlace(d, id, prev)
        next  == IF place # NIL THEN d.next[place] ELSE d.head
        new   == Insert(d, id, place, next, TextPlace(d, place))
    IN  IF id \in Known(d) THEN d ELSE [new EXCEPT !.length = d.length]

\* handleRemoteInput.
RemoteInput(d, id, prev) ==
    LET place == ListPlace(d, id, prev)
        next  == IF place # NIL THEN d.next[place] ELSE d.head
    IN  IF id \in Known(d) THEN d ELSE Insert(d, id, place, next, TextPlace(d, place))

\* handleLocalDelete, and handleRemoteDelete for an element that is known.
Hide(d, id) ==
    [d EXCEPT !.dead = @ \cup {id},
              !.text = IF id \in Range(@) THEN RemoveAt(@, IndexIn(@, id)) ELSE @]

RemoteDelete(d, id) == IF id \in Known(d) THEN Hide(d, id) ELSE d

\* Those of the first n elements of a list that are there and not deleted.
Visible(list, n, gone) ==
    LET shown[i \in 0..n] == IF i = 0 THEN <<>>
                             ELSE IF list[i] \in gone \cup {NIL} THEN shown[i - 1]
                             ELSE Append(shown[i - 1], list[i])
    IN  shown[n]

\* SeqCRDT.toMapping: the visible elements in the order of the list.
ToMapping(d) ==
    LET n == Cardinality(Known(d))
        at == Path(d.head, [k \in Known(d) \cup {NIL} |-> IF k = NIL THEN NIL ELSE d.next[k]], n)
    IN  Visible([i \in 1..n |-> at[i - 1]], n, d.dead)

\* The document a browser has loaded of a session of the given elements.
Loaded(ids) ==
    [ next   |-> [k \in Range(ids) |-> LET i == IndexIn(ids, k) IN
                                       IF i = Len(ids) THEN NIL ELSE ids[i + 1]],
      prev   |-> [k \in Range(ids) |-> LET i == IndexIn(ids, k) IN
                                       IF i = 1 THEN NIL ELSE ids[i - 1]],
      head   |-> IF ids = <<>> THEN NIL ELSE ids[1],
      dead   |-> {},
      text   |-> ids,
      length |-> Len(ids) ]
=============================================================================
