---------------------------- MODULE SequenceCRDT ----------------------------
(***************************************************************************)
(* What the linked list of a session promises: a sequence of elements in   *)
(* which an element, once placed, never moves, and a set of the elements   *)
(* that have been deleted and stay in the sequence as tombstones.          *)
(* lib/session/session.go implements it with pointers (Session.tla).       *)
(***************************************************************************)
EXTENDS Elements, SequencesExt

VARIABLES
    order,      \* the elements from the head to the tail
    sent,       \* the PrevID each of them was sent with
    dead        \* the tombstones

seqVars == <<order, sent, dead>>

Present == Range(order)

SeqInit == order = <<>> /\ sent = [k \in {} |-> NIL] /\ dead = {}

\* An insertion without a PrevID goes in front of everything.
InsertHead(id) ==
    /\ id \notin Present
    /\ order' = InsertAt(order, 1, id)
    /\ sent' = Put(sent, id, NIL)
    /\ UNCHANGED dead

InsertAfter(id, prev) ==
    /\ id \notin Present
    /\ \E p, i \in 1..Len(order) :
           /\ order[p] = prev
           /\ IsPlace(order, p, i, id)
           /\ order' = InsertAt(order, i + 1, id)
    /\ sent' = Put(sent, id, prev)
    /\ UNCHANGED dead

Bury(id) ==
    /\ id \in Present \ dead
    /\ dead' = dead \cup {id}
    /\ UNCHANGED <<order, sent>>

SeqNext ==
    \E id \in Ids : \/ InsertHead(id)
                    \/ \E prev \in Ids : InsertAfter(id, prev)
                    \/ Bury(id)

SeqSpec == SeqInit /\ [][SeqNext]_seqVars
=============================================================================
