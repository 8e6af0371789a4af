--------------------------- MODULE SessionHistory ---------------------------
(***************************************************************************)
(* Session with two history variables: the sequence the list is meant to   *)
(* be, extended when an element is stored, and the PrevID each element was *)
(* sent with (the list keeps only the one it ended up with).  They let the *)
(* pointers be compared with the abstract sequence of SequenceCRDT.        *)
(***************************************************************************)
EXTENDS Session, SequencesExt

VARIABLES
    order,      \* the elements stored so far, from the head to the tail
    sent        \* the PrevID each of them was sent with

historyVars == <<order, sent>>
allVars == <<vars, historyVars>>

IndexOf(s, id) == CHOOSE i \in 1..Len(s) : s[i] = id

\* Where the element being stored goes: behind the cursor.
Placed == InsertAt(order, IF cursor = NIL THEN 1 ELSE IndexOf(order, cursor) + 1, op.id)

HInit == Init /\ order = <<>> /\ sent = Empty

HStore ==
    /\ Store
    /\ order' = Placed
    /\ sent' = Put(sent, op.id, op.prev)

HNext ==
    \/ \E id \in Ids : \E prev \in IdOrNil \ {id} :
           BeginAdd(id, prev) /\ UNCHANGED historyVars
    \/ WalkOn /\ UNCHANGED historyVars
    \/ WalkDone /\ UNCHANGED historyVars
    \/ Relink /\ UNCHANGED historyVars
    \/ Link /\ UNCHANGED historyVars
    \/ HStore
    \/ \E id \in Ids : Delete(id) /\ UNCHANGED historyVars
    \/ BeginRead /\ UNCHANGED historyVars
    \/ \E id \in Ids : ReadElement(id) /\ UNCHANGED historyVars
    \/ ReadHead /\ UNCHANGED historyVars

HSpec == HInit /\ [][HNext]_allVars

FairHSpec == HSpec /\ WF_allVars(HNext /\ (WalkOn \/ WalkDone \/ Relink \/ Link \/ Store))

Tombstones == {id \in Keys : crdt[id].deleted}

Abs == INSTANCE SequenceCRDT WITH dead <- Tombstones

-----------------------------------------------------------------------------
\* The element at the given place of a sequence, null outside it.
At(s, i) == IF i \in 1..Len(s) THEN s[i] ELSE NIL

\* The map f and the head h are exactly the doubly linked list of s.
Linked(f, h, s) ==
    /\ Range(s) = DOMAIN f
    /\ IsInjective(s)
    /\ h = At(s, 1)
    /\ \A i \in 1..Len(s) : /\ f[s[i]].next = At(s, i + 1)
                            /\ f[s[i]].prev = At(s, i - 1)

\* Between two calls the pointers are exactly the doubly linked list of the
\* elements stored so far, in one sequence without loops, lost elements or
\* half-made links -- whatever ids arrived in whatever order (Session.insert).
ListIsSequence == pc = "idle" => Linked(crdt, head, order)

\* getPrev never follows a NextID that leads nowhere: the only nil dereference
\* of Add is the one of a PrevID the session has never heard of.
PanicOnlyOnUnknownPrev == pc = "panicked" => op.prev \notin Keys \cup {NIL}

\* An element is, now and for ever after, behind the element its author typed
\* it behind, however far getPrev went on and whatever was placed since.
IntentPreserved ==
    \A id \in DOMAIN sent : sent[id] # NIL =>
        IndexOf(order, sent[id]) < IndexOf(order, id)

\* The list implements the abstract sequence: what getPrev and insert do with
\* pointers places every element by the placement rule, and tombstones stay.
RefinesSequence == Abs!SeqSpec

\* A call of Add that holds the lock gives it back (or the process is down):
\* the walk of getPrev never runs in circles.
AddReturns == (pc # "idle") ~> (pc = "idle" \/ ~Alive)

-----------------------------------------------------------------------------
(***************************************************************************)
(* The inductive invariant behind them: what the pointers are at each      *)
(* control point of Add, relative to the sequence.                         *)
(***************************************************************************)
\* The history variables hold the elements of the map, each once.
HistoryInv ==
    /\ order \in Seq(Ids)
    /\ IsInjective(order)
    /\ Range(order) = Keys
    /\ DOMAIN sent = Keys
    /\ sent \in [Keys -> Keys \cup {NIL}]

\* After Relink the element behind the cursor already points back to the new
\* one, after Link the cursor (or the head) already points forward to it.
PointerInv ==
    /\ head = IF pc = "store" /\ cursor = NIL THEN op.id ELSE At(order, 1)
    /\ \A i \in 1..Len(order) :
        /\ crdt[order[i]].next = IF pc = "store" /\ order[i] = cursor
                                 THEN op.id ELSE At(order, i + 1)
        /\ crdt[order[i]].prev = IF pc \in {"link", "store"} /\ At(order, i - 1) = cursor
                                 THEN op.id ELSE At(order, i - 1)

\* The walk has passed only elements it had to pass, and the element the call
\* carries in its local variable points to the one behind the cursor.
WalkInv ==
    \/ /\ cursor = NIL /\ op.prev = NIL /\ pc # "walk"
       /\ pc \in {"link", "store"} => op.next = At(order, 1)
    \/ \E p, c \in 1..Len(order) :
        /\ order[p] = op.prev /\ order[c] = cursor
        /\ p <= c
        /\ \A j \in (p + 1)..c : Skips(order[j], op.id)
        /\ (pc # "walk" /\ c < Len(order)) => ~Skips(order[c + 1], op.id)
        /\ pc \in {"link", "store"} => op.next = At(order, c + 1)

CallInv ==
    /\ InCall => op.id \in Ids \ Keys /\ WalkInv
    /\ ~InCall /\ pc # "panicked" => cursor = NIL
    /\ pc \in {"walk", "relink"} => op.next = NIL
    /\ PanicOnlyOnUnknownPrev

\* The conjunction is preserved by every step and implies the properties.
HInv == HistoryInv /\ PointerInv /\ CallInv /\ IntentPreserved

-----------------------------------------------------------------------------
\* Every element of the copy is found by following NextID from its Head.
Reach(f, h) ==
    LET at[n \in 0..Cardinality(DOMAIN f)] ==
            IF n = 0 THEN h
            ELSE IF at[n - 1] \in DOMAIN f THEN f[at[n - 1]].next ELSE NIL
    IN  { at[n] : n \in 0..Cardinality(DOMAIN f) }

\* A copy that is encoded without the mutex while nothing is added is a list of
\* all its elements, whatever is deleted meanwhile.  (While Add is between its
\* writes, it need not be.)
QuietCopyIsOneList ==
    reader = "done" /\ pc = "idle" /\ DOMAIN copy = Keys =>
        DOMAIN copy \subseteq Reach(copy, copyHead)

\* What makes it so: an Add that is over has added a key the reader does not
\* copy; as long as there is none, the NextIDs copied are those of the list.
CopyInv ==
    /\ DOMAIN copy \cup unread \subseteq Keys
    /\ reader = "done" => unread = {}
    /\ (reader # "off" /\ pc = "idle" /\ DOMAIN copy \cup unread = Keys) =>
            /\ \A id \in DOMAIN copy : copy[id].next = crdt[id].next
            /\ reader = "done" => copyHead = head
=============================================================================
