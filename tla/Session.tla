------------------------------- MODULE Session -------------------------------
(***************************************************************************)
(* One worker's replica of one session: the hashed doubly linked list of   *)
(* lib/session/session.go.  Add and Delete run under s.mux, so at most one *)
(* call is inside the list at a time; what Add does there is a walk over   *)
(* NextID pointers (getPrev) followed by separate writes to shared memory  *)
(* (insert).  Each iteration and each write is a step of its own, because  *)
(* the code that copies a session out of the worker -- the JSON reply of   *)
(* GET /session, the gob reply of Worker.GetSession, the payload of        *)
(* Server.SaveSession -- reads the same memory without taking s.mux.       *)
(*                                                                         *)
(* A call of Add for an id already in the map, and a call of Delete for an *)
(* absent or already deleted id, change nothing and return false; they are *)
(* the stuttering steps of this specification.                             *)
(***************************************************************************)
EXTENDS Elements, FiniteSets

VARIABLES
    crdt,       \* Session.CRDT: a function from the ids present to elements
    head,       \* Session.Head
    counter,    \* Session.Next
    pc,         \* where the call that holds s.mux stands
    op,         \* the element (a local variable) that call is inserting
    cursor,     \* prevElement of getPrev and insert; NIL for a head insert
    reader,     \* where the encoder of an unlocked reader stands
    unread,     \* the map entries it has yet to read
    copy,       \* the map entries it has read
    copyHead    \* the Head it has read

listVars == <<crdt, head, counter>>
callVars == <<pc, op, cursor>>
readVars == <<reader, unread, copy, copyHead>>
vars     == <<listVars, callVars, readVars>>

Element == [prev : IdOrNil, next : IdOrNil, deleted : BOOLEAN]
Call    == [id : IdOrNil, prev : IdOrNil, next : IdOrNil]
NoCall  == [id |-> NIL, prev |-> NIL, next |-> NIL]
IsMap(f) == DOMAIN f \subseteq Ids /\ f \in [DOMAIN f -> Element]
Empty   == [k \in {} |-> NIL]

Keys == DOMAIN crdt

\* The element insert calls nextElement (nextElem when it replaces the head).
Successor == IF cursor = NIL THEN head ELSE crdt[cursor].next

Init ==
    /\ crdt = Empty /\ head = NIL /\ counter = 0
    /\ pc = "idle" /\ op = NoCall /\ cursor = NIL
    /\ reader = "off" /\ unread = {} /\ copy = Empty /\ copyHead = NIL

\* A call of Add is past its checks and inside the list.
InCall == pc \in {"walk", "relink", "link", "store"}

\* The process is up: neither panicked nor stopped by the Go runtime.
Alive == pc \notin {"panicked", "fatal"}

(***************************************************************************)
(* Session.Add, for an id that is not in the map.                          *)
(***************************************************************************)

\* Faulty BeginAdd: the check for an empty PrevID is missing.
BeginAddNoHeadCase(id, prev) ==
    /\ pc = "idle"
    /\ id \notin Keys
    /\ op' = [id |-> id, prev |-> prev, next |-> NIL]
    /\ cursor' = prev
    /\ pc' = IF prev \in Keys THEN "walk" ELSE "panicked"
    /\ UNCHANGED <<listVars, readVars>>

\* Faulty BeginAdd: an element that is already in the map is inserted again.
BeginAddAgain(id, prev) ==
    /\ pc = "idle"
    /\ op' = [id |-> id, prev |-> prev, next |-> NIL]
    /\ cursor' = prev
    /\ pc' = IF prev = NIL THEN "relink"
             ELSE IF prev \in Keys THEN "walk" ELSE "panicked"
    /\ UNCHANGED <<listVars, readVars>>

\* Faulty BeginAdd: getPrev starts at the head instead of the PrevID.
BeginAddFromHead(id, prev) ==
    /\ pc = "idle"
    /\ id \notin Keys
    /\ op' = [id |-> id, prev |-> prev, next |-> NIL]
    /\ cursor' = IF prev \in Keys THEN head ELSE prev
    /\ pc' = IF prev = NIL THEN "relink"
             ELSE IF prev \in Keys THEN "walk" ELSE "panicked"
    /\ UNCHANGED <<listVars, readVars>>

\* Add takes the lock and insert picks its branch.  A PrevID that is not in
\* the map makes getPrev dereference a nil *Element.
BeginAdd(id, prev) ==
    /\ pc = "idle"
    /\ id \notin Keys
    /\ op' = [id |-> id, prev |-> prev, next |-> NIL]
    /\ cursor' = prev
    /\ pc' = IF prev = NIL THEN "relink"
             ELSE IF prev \in Keys THEN "walk" ELSE "panicked"
    /\ UNCHANGED <<listVars, readVars>>

\* Faulty WalkOn: elements of the same author are passed as well.
WalkOnOwnElements ==
    /\ pc = "walk"
    /\ Successor \in Keys
    /\ <<Successor, op.id>> \in IdGreater
    /\ cursor' = Successor
    /\ UNCHANGED <<listVars, pc, op, readVars>>

\* The loop of getPrev goes on to the next element.
WalkOn ==
    /\ pc = "walk"
    /\ Successor \in Keys
    /\ Skips(Successor, op.id)
    /\ cursor' = Successor
    /\ UNCHANGED <<listVars, pc, op, readVars>>

\* The loop ends at the end of the list, at a smaller id or at an element of
\* the same author.  Its condition reads s.CRDT[nextID].ClientID once nextID
\* is greater: a NextID that leads nowhere would be a nil dereference.
WalkDone ==
    /\ pc = "walk"
    /\ ~(Successor \in Keys /\ Skips(Successor, op.id))
    /\ pc' = IF <<Successor, op.id>> \in IdGreater /\ Successor \notin Keys
             THEN "panicked" ELSE "relink"
    /\ UNCHANGED <<listVars, op, cursor, readVars>>

\* Faulty Relink: nextElement.PrevID keeps its old value.
RelinkForwardOnly ==
    /\ pc = "relink"
    /\ pc' = "link"
    /\ op' = IF Successor \in Keys THEN [op EXCEPT !.next = Successor] ELSE op
    /\ UNCHANGED <<listVars, cursor, readVars>>

\* Faulty Relink: element.NextID is not set.
RelinkBackwardOnly ==
    /\ pc = "relink"
    /\ pc' = "link"
    /\ crdt' = IF Successor \in Keys
               THEN [crdt EXCEPT ![Successor].prev = op.id] ELSE crdt
    /\ UNCHANGED <<head, counter, op, cursor, readVars>>

\* If there is a next element: nextElement.PrevID = id and, in the element
\* still local to the call, element.NextID = nextElement.ID.
Relink ==
    /\ pc = "relink"
    /\ pc' = "link"
    /\ IF Successor \in Keys
       THEN /\ crdt' = [crdt EXCEPT ![Successor].prev = op.id]
            /\ op' = [op EXCEPT !.next = Successor]
       ELSE UNCHANGED <<crdt, op>>
    /\ UNCHANGED <<head, counter, cursor, readVars>>

\* s.Head = id, or prevElement.NextID = id.
Link ==
    /\ pc = "link"
    /\ pc' = "store"
    /\ IF cursor = NIL
       THEN head' = op.id /\ UNCHANGED crdt
       ELSE crdt' = [crdt EXCEPT ![cursor].next = op.id] /\ UNCHANGED head
    /\ UNCHANGED <<counter, op, cursor, readVars>>

\* s.CRDT[id] = &element, with element.PrevID = prevElement.ID, then s.Next++
\* and the deferred unlock.  The Go runtime stops the process if it notices
\* that the map is being iterated meanwhile.
Store ==
    /\ pc = "store"
    /\ crdt' = Put(crdt, op.id, [prev |-> cursor, next |-> op.next, deleted |-> FALSE])
    /\ counter' = counter + 1
    /\ pc' \in IF reader = "elements" THEN {"idle", "fatal"} ELSE {"idle"}
    /\ op' = NoCall
    /\ cursor' = NIL
    /\ UNCHANGED <<head, readVars>>

(***************************************************************************)
(* Session.Delete, for an element that is present and not deleted: one     *)
(* write under the lock.  The element stays in the list as a tombstone.    *)
(***************************************************************************)
Delete(id) ==
    /\ pc = "idle"
    /\ id \in Keys
    /\ ~crdt[id].deleted
    /\ crdt' = [crdt EXCEPT ![id].deleted = TRUE]
    /\ UNCHANGED <<head, counter, callVars, readVars>>

(***************************************************************************)
(* A reader encodes the Session struct field by field: the entries of CRDT *)
(* one by one, then Head.  It never takes s.mux.                           *)
(***************************************************************************)
BeginRead ==
    /\ Alive
    /\ reader # "elements"
    /\ reader' = "elements"
    /\ unread' = Keys
    /\ copy' = Empty
    /\ copyHead' = NIL
    /\ UNCHANGED <<listVars, callVars>>

ReadElement(id) ==
    /\ Alive
    /\ reader = "elements"
    /\ id \in unread
    /\ unread' = unread \ {id}
    /\ copy' = Put(copy, id, crdt[id])
    /\ UNCHANGED <<listVars, callVars, reader, copyHead>>

ReadHead ==
    /\ Alive
    /\ reader = "elements"
    /\ unread = {}
    /\ reader' = "done"
    /\ copyHead' = head
    /\ UNCHANGED <<listVars, callVars, unread, copy>>

Next ==
    \/ \E id \in Ids : \E prev \in IdOrNil \ {id} : BeginAdd(id, prev)
    \/ WalkOn \/ WalkDone \/ Relink \/ Link \/ Store
    \/ \E id \in Ids : Delete(id)
    \/ BeginRead
    \/ \E id \in Ids : ReadElement(id)
    \/ ReadHead

Spec == Init /\ [][Next]_vars


(***************************************************************************)
(* Every pointer, on the heap and local, is an id of the session or null,  *)
(* and the reader's part of the state is consistent with where it stands.  *)
(***************************************************************************)
TypeOK ==
    /\ IsMap(crdt)
    /\ head \in IdOrNil
    /\ counter \in Nat
    /\ pc \in {"idle", "walk", "relink", "link", "store", "panicked", "fatal"}
    /\ op \in Call
    /\ InCall => op.id \in Ids
    /\ cursor \in IdOrNil
    /\ reader \in {"off", "elements", "done"}
    /\ unread \subseteq Keys
    /\ IsMap(copy)
    /\ copyHead \in IdOrNil
=============================================================================
