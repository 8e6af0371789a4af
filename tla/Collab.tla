------------------------------- MODULE Collab -------------------------------
(***************************************************************************)
(* Several users edit one session through one worker.  A browser applies   *)
(* what is typed to its own list at once and sends it over its websocket;  *)
(* the worker reads each websocket in a goroutine of its own (onElement),  *)
(* applies the element to its list and then writes it to the websockets of *)
(* the other users, one after the other.  Only the two calls on the list   *)
(* itself, Session.Add and Session.Delete, are under a lock common to the  *)
(* goroutines; the broadcasts of two of them overlap.                      *)
(*                                                                         *)
(* The list of the worker is the sequence of SequenceCRDT, which the       *)
(* pointers of Session.tla implement.  The worker has no peers, so that it *)
(* never acknowledges an element (it takes MinNumWorkerConnections peers), *)
(* no websocket is lost, so that the browsers' caches of unacknowledged    *)
(* elements are never read, and no two users have the same name.           *)
(***************************************************************************)
EXTENDS ClientList

CONSTANTS
    Joined,     \* the users in the order they connected (clientSessions)
    Openers,    \* those who also type at the very start of the text
    Deleters,   \* those who also delete
    Opening,    \* the number of elements the session starts with
    MaxNumber   \* bound: the greatest number in an element id

Users == Range(Joined)
Ids   == (0..MaxNumber) \X Users

ASSUME CollabAssumption ==
    /\ Joined \in Seq(Nat \ {0}) /\ Joined # <<>> /\ IsInjective(Joined)
    /\ Openers \subseteq Users /\ Deleters \subseteq Users
    /\ MaxNumber \in 0..99 /\ Opening \in 0..(MaxNumber + 1)
    /\ NIL \notin Ids

VARIABLES
    doc,    \* what each browser has
    up,     \* elements on their way from each browser to the worker
    down,   \* and from the worker to each browser
    order,  \* the worker's list (Session.CRDT), from its head
    sent,   \* the PrevID each of its elements was sent with
    dead,   \* the tombstones in it
    task,   \* what each onElement goroutine still has to send to whom
    alive   \* the worker process has not panicked

workerVars == <<order, sent, dead, task, alive>>
vars == <<doc, up, down, workerVars>>

\* The greater id for the worker: strings.Compare of "number_user".  The
\* separator is greater than every digit.
Text(id) == (IF id[1] < 10 THEN <<id[1]>> ELSE <<id[1] \div 10, id[1] % 10>>)
            \o <<10, 10 + id[2]>>
StringLess(s, t) ==
    \E i \in 1..Len(t) : /\ \A j \in 1..(i - 1) : j <= Len(s) /\ s[j] = t[j]
                         /\ i > Len(s) \/ s[i] < t[i]

IdGreater == { p \in Ids \X Ids : StringLess(Text(p[2]), Text(p[1])) }
ClientOf == [id \in Ids |-> id[2]]
Clients == Users

List == INSTANCE SequenceCRDT

Element == [id : Ids, prev : Ids \cup {NIL}, client : Users, deleted : BOOLEAN]
NoTask == [element |-> NIL, to |-> <<>>]

\* The elements the session starts with were typed by the first user.
Opened == [i \in 1..Opening |-> <<i - 1, Joined[1]>>]

Init ==
    /\ doc = [u \in Users |-> Loaded(Opened)]
    /\ up = [u \in Users |-> <<>>]
    /\ down = [u \in Users |-> <<>>]
    /\ order = Opened
    /\ sent = [id \in Range(Opened) |-> IF id[1] = 0 THEN NIL ELSE <<id[1] - 1, id[2]>>]
    /\ dead = {}
    /\ task = [u \in Users |-> NoTask]
    /\ alive = TRUE

(***************************************************************************)
(* The browsers.                                                           *)
(***************************************************************************)

Send(u, id, prev, deleted) ==
    up' = [up EXCEPT ![u] = Append(@, [id |-> id, prev |-> prev, client |-> u,
                                       deleted |-> deleted])]

\* handleLocalInput: user u types a character behind the first ch ones.
Type(u, ch) ==
    LET id == NewID(doc[u], u) IN
    /\ id \in Ids
    /\ ch = 0 => u \in Openers
    /\ doc' = [doc EXCEPT ![u] = LocalInput(@, u, ch)]
    /\ Send(u, id, Preceding(doc[u], ch), FALSE)
    /\ UNCHANGED <<down, workerVars>>

\* handleLocalDelete: user u deletes the ch-th character.
Erase(u, ch) ==
    LET id == doc[u].text[ch] IN
    /\ u \in Deleters
    /\ doc' = [doc EXCEPT ![u] = Hide(@, id)]
    /\ Send(u, id, doc[u].prev[id], TRUE)
    /\ UNCHANGED <<down, workerVars>>

\* Faulty Arrive: the latest element is handled first.
ArriveLatest(u) ==
    /\ down[u] # <<>>
    /\ LET m == Last(down[u]) IN
       doc' = [doc EXCEPT ![u] = IF m.deleted THEN RemoteDelete(@, m.id)
                                 ELSE RemoteInput(@, m.id, m.prev)]
    /\ down' = [down EXCEPT ![u] = Front(@)]
    /\ UNCHANGED <<up, workerVars>>

\* onMessage, handleRemoteOperation: the next element from the worker.
Arrive(u) ==
    /\ down[u] # <<>>
    /\ LET m == Head(down[u]) IN
       doc' = [doc EXCEPT ![u] = IF m.deleted THEN RemoteDelete(@, m.id)
                                 ELSE RemoteInput(@, m.id, m.prev)]
    /\ down' = [down EXCEPT ![u] = Tail(@)]
    /\ UNCHANGED <<up, workerVars>>

(***************************************************************************)
(* The worker.                                                             *)
(***************************************************************************)

\* addToSession has something to do for the element.
IsNews(m) == IF m.deleted THEN m.id \in List!Present \ dead
             ELSE m.id \notin List!Present /\ m.prev \in List!Present \cup {NIL}

\* Session.Add of an element behind one the session does not have.
Panics(m) == ~m.deleted /\ m.id \notin List!Present /\ m.prev \notin List!Present \cup {NIL}

AddToSession(m) ==
    \/ ~m.deleted /\ m.prev = NIL /\ List!InsertHead(m.id)
    \/ ~m.deleted /\ m.prev # NIL /\ List!InsertAfter(m.id, m.prev)
    \/ m.deleted /\ List!Bury(m.id)

\* Whom sendToClients writes to.
OthersThan(user) == RemoveAt(Joined, IndexIn(Joined, user))

\* Faulty Process: the latest element of the websocket is handled first.
ProcessLatest(u) ==
    /\ alive
    /\ task[u].to = <<>>
    /\ up[u] # <<>>
    /\ LET m == Last(up[u]) IN
       \/ /\ IsNews(m)
          /\ AddToSession(m)
          /\ task' = [task EXCEPT ![u] = [element |-> m, to |-> OthersThan(m.client)]]
          /\ UNCHANGED alive
       \/ /\ ~IsNews(m)
          /\ alive' = ~Panics(m)
          /\ UNCHANGED <<order, sent, dead, task>>
    /\ up' = [up EXCEPT ![u] = Front(@)]
    /\ UNCHANGED <<doc, down>>

\* onElement reads the next element of u and applies it to the session.
Process(u) ==
    /\ alive
    /\ task[u].to = <<>>
    /\ up[u] # <<>>
    /\ LET m == Head(up[u]) IN
       \/ /\ IsNews(m)
          /\ AddToSession(m)
          /\ task' = [task EXCEPT ![u] = [element |-> m, to |-> OthersThan(m.client)]]
          /\ UNCHANGED alive
       \/ /\ ~IsNews(m)
          /\ alive' = ~Panics(m)
          /\ UNCHANGED <<order, sent, dead, task>>
    /\ up' = [up EXCEPT ![u] = Tail(@)]
    /\ UNCHANGED <<doc, down>>

\* sendToClients writes the element to the next of the other users.
Broadcast(u) ==
    /\ alive
    /\ task[u].to # <<>>
    /\ down' = [down EXCEPT ![Head(task[u].to)] = Append(@, task[u].element)]
    /\ LET rest == Tail(task[u].to) IN
       task' = [task EXCEPT ![u] = IF rest = <<>> THEN NoTask ELSE [@ EXCEPT !.to = rest]]
    /\ UNCHANGED <<doc, up, order, sent, dead, alive>>

Next == \E u \in Users :
    \/ \E ch \in 0..Len(doc[u].text) : Type(u, ch)
    \/ \E ch \in 1..Len(doc[u].text) : Erase(u, ch)
    \/ Arrive(u)
    \/ Process(u)
    \/ Broadcast(u)

Spec == Init /\ [][Next]_vars

\* The websockets deliver and the goroutines run.
FairSpec == Spec /\ \A u \in Users : WF_vars(Arrive(u)) /\ WF_vars(Process(u))
                                     /\ WF_vars(Broadcast(u))

-----------------------------------------------------------------------------
TypeOK ==
    /\ \A u \in Users : /\ Known(doc[u]) \subseteq Ids
                        /\ doc[u].next \in [Known(doc[u]) -> Ids \cup {NIL}]
                        /\ doc[u].prev \in [Known(doc[u]) -> Ids \cup {NIL}]
                        /\ doc[u].text \in Seq(Known(doc[u]) \ doc[u].dead)
    /\ up \in [Users -> Seq(Element)]
    /\ down \in [Users -> Seq(Element)]
    /\ order \in Seq(Ids) /\ DOMAIN sent = Range(order) /\ dead \subseteq Range(order)
    /\ \A u \in Users : task[u] = NoTask \/ task[u].element \in Element
    /\ alive \in BOOLEAN

\* Every element that is under way has reached everybody.
Quiet == \A u \in Users : up[u] = <<>> /\ down[u] = <<>> /\ task[u].to = <<>>

WorkerText == Visible(order, Len(order), dead)

\* Once everything has been delivered all editors show the same text, the one
\* of the worker's list, although the browsers place what is typed locally
\* without any comparison of ids (handleLocalInput), what comes from others by
\* comparing numbers (handleRemoteInput) and the worker by comparing strings
\* and authors (getPrev).
Converged == Quiet => \A u \in Users : doc[u].text = WorkerText

\* At any time an editor shows exactly the visible elements of its own list,
\* in the order of the list (SeqCRDT.verify).
EditorShowsList == \A u \in Users : doc[u].text = ToMapping(doc[u])

\* The numbers of new elements are greater than all the author has seen: the
\* count of elements serves as a logical clock (getNewID), which is what makes
\* a local insertion the same as a remote one.
NewestNumber == \A u \in Users : \A id \in Known(doc[u]) : id[1] < doc[u].length

\* What holds of each browser and the worker at any time, together: types, an
\* editor and its list (operation.js), and the clock (getNewID).
CollabInv == TypeOK /\ EditorShowsList /\ NewestNumber

\* No element reaches the worker before the one it was typed behind: the list
\* of the worker would be indexed with an absent id and the process die.
NeverPanics == alive

\* When nobody types any more the editors end up with the same text for good.
EventuallyTheSame == <>[](\A u, v \in Users : doc[u].text = doc[v].text)
=============================================================================
