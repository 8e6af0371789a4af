------------------------------ MODULE Recovery ------------------------------
(***************************************************************************)
(* A browser's connection to the workers (socket.js and what app.js does   *)
(* for it): register, open a websocket, load the session, send what is     *)
(* typed and keep it in a cache until it comes back, and after a failure   *)
(* wait, register again, fetch what was missed, open another websocket and *)
(* send the cache.  The page runs one callback at a time; requests, timers *)
(* and websockets are answered at any time, so that several recoveries may *)
(* be under way at once.                                                   *)
(*                                                                         *)
(* The workers are as in WorkerMesh, at a coarser grain: what one has been *)
(* sent goes to each other one once and in order, comes back from there,   *)
(* and is acknowledged when another one has it.  A worker answers /recover *)
(* with its element cache, where only elements from other workers are, and *)
(* these for ten seconds.                                                  *)
(*                                                                         *)
(* Some of what can happen is too much for the code.  It is in the model,  *)
(* in behaviours that have its name in unruly:                             *)
(*   moved    an edit leaves an element of the cache behind one that is    *)
(*            sent after it, or is sent as deleted                         *)
(*   start    text is typed at the very start, where nothing is compared   *)
(*   early    elements are typed or received before the session is loaded  *)
(*   doubled  a connection fires both error and close when it ends, as one *)
(*            that is refused always does: two recoveries begin            *)
(*   slow     a late request for the session, or the reader of an earlier  *)
(*            connection, deletes the client of the next one               *)
(*   lost     a worker ends with elements that no other one has, or the    *)
(*            page comes back before the others have them                  *)
(*   erase    an element is deleted that a worker has seen: the element    *)
(*            coming back takes its deletion out of the cache              *)
(*   gap      an element gets to the worker between a reply to /recover    *)
(*            and the websocket that is opened after it                    *)
(*   missed   the element cache does not have (any more) what the page has *)
(*            missed                                                       *)
(***************************************************************************)
EXTENDS ClientList

CONSTANTS
    Workers,
    NONE,          \* no worker; no reply
    Me, Other,     \* the user of this browser, and any other one
    Budgets        \* bounds: how often what may happen, see below

Unruly == {"moved", "start", "early", "doubled", "slow", "lost", "erase", "gap", "missed"}

ASSUME RecoveryAssumption ==
    /\ Me \in Nat /\ Other \in Nat /\ Me # Other /\ NONE \notin Workers
    /\ NIL \notin Nat \X {Me, Other}
    /\ Budgets \subseteq [unruly : SUBSET Unruly, typed : Nat, foreign : Nat,
                          breaks : Nat, crashes : Nat, failures : Nat]

VARIABLES
    doc,         \* the list of this browser (CRDT)
    cache,       \* ids of the elements not acknowledged; entries share the element
    loaded,      \* initSession has set the editor, or will not
    workerIP,
    socket,      \* the number of the latest connection, 0 for none
    recovering,
    unload,      \* the page has been left
    timers,      \* calls of recover that setTimeout has pending
    asks,        \* the requests under way, each with its reply
    conns,       \* all websockets ever opened
    up,          \* the workers that run
    wdoc,        \* their sessions
    wcache,      \* their element caches
    out,         \* what they have for the other workers (localElements, elementsToAck)
    sent,        \* how much of it each other worker has been sent
    clients,     \* w.clients[Me]: a number of a connection or 0
    toAck,       \* what they have not acknowledged: places in out
    gaveUp,      \* the page has stopped trying to connect
    unruly,      \* what may happen that the code is not made for
    typed, foreign,   \* how many edits of this user and of others are left,
    breaks, crashes,  \* connections that break and workers that end,
    failures          \* and requests that fail

text == <<doc, cache>>
page == <<text, loaded, workerIP, socket, recovering, unload, timers, gaveUp>>
net == <<asks, conns>>
session == <<wdoc, wcache, out, sent>>
worker == <<up, session, clients, toAck>>
bounds == <<typed, foreign, breaks, crashes, failures>>
vars == <<page, net, worker, bounds, unruly>>

Elem(id, prev, del, by) == [id |-> id, prev |-> prev, del |-> del, by |-> by]
Element(d, id) == Elem(id, d.prev[id], id \in d.dead, Me)
Has(d, e) == e.id \in Known(d) /\ (e.del => e.id \in d.dead)

Init ==
    /\ doc = Loaded(<<>>) /\ cache = <<>> /\ loaded = FALSE
    /\ workerIP = NONE /\ socket = 0 /\ recovering = FALSE /\ unload = FALSE /\ timers = 0
    /\ gaveUp = FALSE
    /\ asks = <<[kind |-> "register", worker |-> NONE, reply |-> <<>>]>>
    /\ conns = <<>>
    /\ up = Workers
    /\ wdoc = [w \in Workers |-> Loaded(<< <<0, Other>> >>)]
    /\ wcache = [w \in Workers |-> <<>>] /\ out = [w \in Workers |-> <<>>]
    /\ sent = [w \in Workers |-> [v \in Workers |-> 0]]
    /\ clients = [w \in Workers |-> 0]
    /\ toAck = [w \in Workers |-> <<>>]
    /\ \E b \in Budgets :
          /\ unruly = b.unruly /\ typed = b.typed /\ foreign = b.foreign
          /\ breaks = b.breaks /\ crashes = b.crashes /\ failures = b.failures

-----------------------------------------------------------------------------
(* The page. *)

Ask(kind, w) == [kind |-> kind, worker |-> w, reply |-> <<>>]
Without(i) == RemoveAt(asks, i)

\* readyState
State(c) == IF c = 0 THEN "none" ELSE conns[c].state

\* sendElement, for several elements: what is sent while the socket is not
\* open is dropped, and gets lost if the connection has broken unnoticed.
Sent(cs, s, es) ==
    IF s # 0 /\ cs[s].state = "open" /\ ~cs[s].broken THEN [cs EXCEPT ![s].up = @ \o es] ELSE cs

\* initWS
InitWS(w) ==
    /\ conns' = Append(conns, [worker |-> w, state |-> "connecting", served |-> FALSE,
                               broken |-> FALSE, up |-> <<>>, down |-> <<>>])
    /\ socket' = Len(conns) + 1

LastPlace(ids, id) == CHOOSE i \in DOMAIN ids : ids[i] = id /\ \A j \in (i + 1)..Len(ids) : ids[j] # id

\* Faulty Acknowledged: splice without an index takes the first entry.
AcknowledgedAny(ids, e) ==
    IF ids = <<>> THEN ids
    ELSE IF e.id \notin Range(ids) THEN Tail(ids) ELSE RemoveAt(ids, LastPlace(ids, e.id))

\* The cache loses its last entry with the id of an element that comes in,
\* whoever it is from: elem.del is compared with itself.
Acknowledged(ids, e) == IF e.id \in Range(ids) THEN RemoveAt(ids, LastPlace(ids, e.id)) ELSE ids

\* handleRemoteInput and handleRemoteDelete
Applied(d, e) == IF ~e.del THEN RemoteInput(d, e.id, e.prev)
                 ELSE IF e.id \in d.dead THEN d ELSE RemoteDelete(d, e.id)

\* Faulty RemoteOperations: what is there already is not looked at again.
RemoteOperationsOnce(es) ==
    LET d[i \in 0..Len(es)] == IF i = 0 THEN doc
                               ELSE IF es[i].id \in Known(d[i - 1]) THEN d[i - 1] ELSE Applied(d[i - 1], es[i])
        c[i \in 0..Len(es)] == IF i = 0 THEN cache ELSE Acknowledged(c[i - 1], es[i])
    IN  doc' = d[Len(es)] /\ cache' = c[Len(es)]

\* handleRemoteOperation for each of several elements.
RemoteOperations(es) ==
    LET d[i \in 0..Len(es)] == IF i = 0 THEN doc ELSE Applied(d[i - 1], es[i])
        c[i \in 0..Len(es)] == IF i = 0 THEN cache ELSE Acknowledged(c[i - 1], es[i])
    IN  doc' = d[Len(es)] /\ cache' = c[Len(es)]

\* closeSession, n times: the current socket is closed, whichever has failed.
CloseSession(cs, n) ==
    /\ asks' = asks \o [i \in 1..n |-> Ask("close", workerIP)]
    /\ conns' = IF socket # 0 /\ cs[socket].state \in {"connecting", "open"}
                THEN [cs EXCEPT ![socket].state = IF @ = "open" THEN "closing" ELSE "aborted"] ELSE cs

\* getWorker's reply to register: the websocket, and the editor is shown.
Registered(i) ==
    /\ ~unload /\ asks[i].kind = "register" /\ asks[i].reply # <<>>
    /\ asks' = Without(i)
    /\ LET w == asks[i].reply[1] IN
       IF w = NONE THEN gaveUp' = TRUE /\ UNCHANGED <<conns, socket, workerIP>>
       ELSE workerIP' = w /\ InitWS(w) /\ UNCHANGED gaveUp
    /\ UNCHANGED <<text, loaded, recovering, unload, timers, worker, bounds>>

\* Faulty CachedElements: from the last to the first.
CachedBackwards == [k \in DOMAIN cache |-> Element(doc, cache[Len(cache) + 1 - k])]

\* What sendCachedElements sends: the elements as they are now.
CachedElements == [k \in DOMAIN cache |-> Element(doc, cache[k])]

\* onOpen
Opened(c) ==
    /\ ~unload /\ conns[c].state = "connecting" /\ conns[c].served
    /\ LET open == [conns EXCEPT ![c].state = "open"] IN
       IF recovering
       THEN /\ conns' = Sent(open, socket, CachedElements)
            /\ recovering' = FALSE
            /\ UNCHANGED asks
       ELSE /\ conns' = open
            /\ asks' = Append(asks, Ask("session", workerIP))
            /\ UNCHANGED recovering
    /\ UNCHANGED <<text, loaded, workerIP, socket, unload, timers, gaveUp, worker, bounds>>

\* The list behind the reply to initSession: elements the reply has are
\* replaced, others stay without being linked from it, and getHead takes one
\* without a predecessor (the last key of the object; which is left open).
Overwritten(d, r) ==
    LET all  == Known(d) \cup Known(r)
        next == [k \in all |-> IF k \in Known(r) THEN r.next[k] ELSE d.next[k]]
        prev == [k \in all |-> IF k \in Known(r) THEN r.prev[k] ELSE d.prev[k]]
        dead == { k \in all : IF k \in Known(r) THEN k \in r.dead ELSE k \in d.dead }
        with(h) == [next |-> next, prev |-> prev, head |-> h, dead |-> dead,
                    text |-> <<>>, length |-> Cardinality(Known(r))]
        heads == { k \in all : prev[k] = NIL }
    IN  { [with(h) EXCEPT !.text = ToMapping(with(h))] : h \in IF heads = {} THEN {NIL} ELSE heads }

SessionLoaded(i) ==
    /\ ~unload /\ asks[i].kind = "session" /\ asks[i].reply # <<>>
    /\ asks' = Without(i)
    /\ doc' \in Overwritten(doc, asks[i].reply[1])
    /\ loaded' = TRUE
    /\ UNCHANGED <<cache, workerIP, socket, recovering, unload, timers, gaveUp, conns, worker, bounds>>

\* onMessage
Receive(c) ==
    /\ ~unload /\ conns[c].state = "open" /\ conns[c].down # <<>>
    /\ "early" \in unruly \/ loaded
    /\ RemoteOperations(<<Head(conns[c].down)>>)
    /\ conns' = [conns EXCEPT ![c].down = Tail(@)]
    /\ UNCHANGED <<loaded, workerIP, socket, recovering, unload, timers, gaveUp, asks, worker, bounds>>

\* Faulty Ends: nothing is done about a connection that never opened.
EndsOnceOpen(c) == IF conns[c].state = "connecting" THEN {0} ELSE {1, 2}

\* How many of error and close a connection fires when it ends.
Ends(c) == IF conns[c].state \in {"connecting", "aborted"} THEN {2}
           ELSE IF "doubled" \in unruly THEN {1, 2} ELSE {1}

\* onError and onClose
Closed(c) ==
    /\ ~unload /\ conns[c].state # "closed"
    /\ conns[c].broken \/ conns[c].worker \notin up \/ conns[c].state \in {"aborted", "closing"}
    /\ \E n \in Ends(c) :
          /\ CloseSession([conns EXCEPT ![c].state = "closed", ![c].broken = TRUE, ![c].down = <<>>], n)
          /\ timers' = timers + n
    /\ UNCHANGED <<text, loaded, workerIP, socket, recovering, unload, gaveUp, worker, bounds>>

\* Three seconds later, recover.  The workers have sent each other what they
\* have by then, which they do every two seconds.
TimerFires ==
    /\ ~unload /\ timers > 0
    /\ "slow" \in unruly \/ \A i \in DOMAIN asks : asks[i].kind # "session"
    /\ "lost" \in unruly \/ \A v, w \in up : Known(wdoc[v]) = Known(wdoc[w])
    /\ timers' = timers - 1
    /\ recovering' = TRUE
    /\ asks' = Append(asks, Ask("again", NONE))
    /\ UNCHANGED <<text, loaded, workerIP, socket, unload, gaveUp, conns, worker, bounds>>

\* Its reply: without a worker, recover runs again at once.
Reassigned(i) ==
    /\ ~unload /\ asks[i].kind = "again" /\ asks[i].reply # <<>>
    /\ LET w == asks[i].reply[1] IN
       IF w = NONE THEN asks' = Append(Without(i), Ask("again", NONE)) /\ UNCHANGED workerIP
       ELSE asks' = Append(Without(i), Ask("recover", w)) /\ workerIP' = w
    /\ recovering' = (recovering \/ asks[i].reply[1] = NONE)
    /\ UNCHANGED <<text, loaded, socket, unload, timers, gaveUp, conns, worker, bounds>>

\* What the worker has cached is applied, and the next websocket opened.
Recovered(i) ==
    /\ ~unload /\ asks[i].kind = "recover" /\ asks[i].reply # <<>> /\ asks[i].reply # <<NONE>>
    /\ asks' = Without(i)
    /\ RemoteOperations(asks[i].reply[1])
    /\ InitWS(workerIP)
    /\ loaded' = TRUE
    /\ UNCHANGED <<workerIP, recovering, unload, timers, gaveUp, worker, bounds>>

\* Nothing is tried any more.
RecoveryFails(i) ==
    /\ ~unload /\ asks[i].kind = "recover" /\ asks[i].reply = <<NONE>>
    /\ asks' = Without(i)
    /\ gaveUp' = TRUE
    /\ UNCHANGED <<text, loaded, workerIP, socket, recovering, unload, timers, conns, worker, bounds>>

\* handleLocalInput and handleLocalDelete
Edited(d, id) ==
    /\ typed > 0 /\ typed' = typed - 1
    /\ doc' = d
    /\ cache' = Append(cache, id)
    /\ conns' = Sent(conns, socket, <<Element(d, id)>>)
    /\ UNCHANGED <<loaded, workerIP, socket, recovering, unload, timers, gaveUp, asks, worker,
                   foreign, breaks, crashes, failures>>

\* Nothing that will be sent again stands behind it, if it will be itself.
Bare(id) == id \in Range(cache) => \A k \in Range(cache) \ doc.dead : doc.prev[k] # id

\* No worker has seen it.
Unsent(id) == /\ \A w \in Workers : id \notin Known(wdoc[w])
              /\ \A c \in DOMAIN conns : \A i \in DOMAIN conns[c].up : conns[c].up[i].id # id

Type ==
    /\ ~unload /\ socket # 0 /\ ("early" \in unruly \/ loaded)
    /\ \E ch \in 0..Len(doc.text) :
          LET new == NewID(doc, Me)
              d   == LocalInput(doc, Me, ch) IN
          /\ "start" \in unruly \/ ch # 0
          /\ "moved" \in unruly \/ d.next[new] \notin Range(cache)
          /\ Edited(d, new)

Erase ==
    /\ ~unload
    /\ \E id \in Range(doc.text) :
          /\ "moved" \in unruly \/ Bare(id)
          /\ "erase" \in unruly \/ Unsent(id)
          /\ Edited(Hide(doc, id), id)

\* beforeunload: the page, its requests and its timers are gone.
Leave ==
    /\ ~unload /\ socket # 0
    /\ unload' = TRUE
    /\ timers' = 0
    /\ CloseSession(conns, 1)
    /\ UNCHANGED <<text, loaded, workerIP, socket, recovering, gaveUp, worker, bounds>>

-----------------------------------------------------------------------------
(* The load balancer and the workers. *)

\* Only a worker that has answered the load balancer is handed out.
Assign(i) ==
    /\ asks[i].kind \in {"register", "again"} /\ asks[i].reply = <<>>
    /\ \E w \in IF up = {} THEN {NONE} ELSE up : asks' = [asks EXCEPT ![i].reply = <<w>>]
    /\ UNCHANGED <<page, conns, worker, bounds>>

\* Cache.clean: the oldest elements have been there for ten seconds.
Cached(w) == { SubSeq(wcache[w], n + 1, Len(wcache[w])) : n \in 0..Len(wcache[w]) }

\* What the page has missed is among the elements es.
HasMissed(w, es) ==
    /\ \A k \in Known(wdoc[w]) \ Known(doc) : \E i \in DOMAIN es : es[i].id = k
    /\ \A k \in wdoc[w].dead \ doc.dead : \E i \in DOMAIN es : es[i].id = k /\ es[i].del

\* sessionHandler and recoveryHandler.  initSession does not handle errors.
Answer(i) ==
    LET w == asks[i].worker IN
    /\ asks[i].reply = <<>>
    /\ \/ /\ asks[i].kind = "session"
          /\ asks' = IF w \in up THEN [asks EXCEPT ![i].reply = <<wdoc[w]>>] ELSE Without(i)
          /\ UNCHANGED clients
       \/ /\ asks[i].kind = "recover"
          /\ IF w \in up
             THEN \E es \in Cached(w) : /\ "missed" \in unruly \/ HasMissed(w, es)
                                       /\ asks' = [asks EXCEPT ![i].reply = <<es>>]
             ELSE asks' = [asks EXCEPT ![i].reply = <<NONE>>]
          /\ UNCHANGED clients
       \/ /\ asks[i].kind = "close"
          /\ asks' = Without(i)
          /\ clients' = IF w \in up THEN [clients EXCEPT ![w] = 0] ELSE clients
    /\ UNCHANGED <<page, conns, up, session, toAck, bounds>>

\* A request fails although its worker runs: POST /register (for which the
\* page has no handler), the load balancer behind it, or one to the worker.
Fails(i) ==
    /\ failures > 0 /\ asks[i].reply = <<>>
    /\ failures' = failures - 1
    /\ \/ /\ asks[i].kind \in {"register", "again"}
          /\ asks' = Without(i) /\ gaveUp' = TRUE
       \/ /\ asks[i].kind \in {"register", "again", "recover"}
          /\ asks' = [asks EXCEPT ![i].reply = <<NONE>>] /\ UNCHANGED gaveUp
       \/ /\ asks[i].kind \in {"session", "close"}
          /\ asks' = Without(i) /\ UNCHANGED gaveUp
    /\ UNCHANGED <<text, loaded, workerIP, socket, recovering, unload, timers, conns, worker,
                   typed, foreign, breaks, crashes>>

Ended(c) == conns[c].broken \/ conns[c].state \in {"aborted", "closing", "closed"}

\* wsHandler
Accept(c) ==
    LET w == conns[c].worker IN
    /\ conns[c].state = "connecting" /\ ~conns[c].served /\ w \in up /\ ~conns[c].broken
    /\ \/ "slow" \in unruly
       \/ /\ \A i \in DOMAIN asks : asks[i].kind # "close"
          /\ \A k \in DOMAIN conns : ~(conns[k].served /\ conns[k].worker = w /\ Ended(k))
    /\ conns' = [conns EXCEPT ![c].served = TRUE]
    /\ clients' = [clients EXCEPT ![w] = c]
    /\ UNCHANGED <<page, asks, up, session, toAck, bounds>>

\* sendToClient, for a connection number or 0.
Pushed(cs, c, e) == IF c # 0 /\ ~cs[c].broken THEN [cs EXCEPT ![c].down = Append(@, e)] ELSE cs

\* addToSession: a PrevID the session does not have ends the worker.
Panics(w, e) == ~e.del /\ e.id \notin Known(wdoc[w]) /\ e.prev # NIL /\ e.prev \notin Known(wdoc[w])
IsNew(w, e) == IF e.del THEN e.id \in Known(wdoc[w]) \ wdoc[w].dead ELSE e.id \notin Known(wdoc[w])
Processed(w, e) == wdoc' = IF IsNew(w, e) THEN [wdoc EXCEPT ![w] = Applied(@, e)] ELSE wdoc

\* onElement, as long as the reader of the connection runs.  Everything read
\* goes to the other workers, as local or as an element to acknowledge.
OnElement(c) ==
    LET w == conns[c].worker
        e == Head(conns[c].up) IN
    /\ conns[c].served /\ w \in up /\ conns[c].up # <<>>
    /\ conns' = [conns EXCEPT ![c].up = Tail(@)]
    /\ IF Panics(w, e) THEN up' = up \ {w} /\ UNCHANGED <<wdoc, out, toAck>>
       ELSE /\ Processed(w, e)
            /\ out' = [out EXCEPT ![w] = Append(@, e)]
            /\ toAck' = [toAck EXCEPT ![w] = Append(@, Len(out[w]) + 1)]
            /\ UNCHANGED up
    /\ UNCHANGED <<page, asks, wcache, sent, clients, bounds>>

\* The reader of a connection that has ended forgets the user, even one who
\* has connected again.
ReadFails(c) ==
    LET w == conns[c].worker IN
    /\ conns[c].served /\ w \in up /\ conns[c].up = <<>> /\ Ended(c)
    /\ conns' = [conns EXCEPT ![c].served = FALSE, ![c].broken = TRUE]
    /\ clients' = [clients EXCEPT ![w] = 0]
    /\ UNCHANGED <<page, asks, up, session, toAck, bounds>>

\* An element of someone else may reach a worker: not after it has answered
\* /recover and before the websocket is there.
MayReach(v) == "gap" \in unruly \/
    /\ \A c \in DOMAIN conns : ~(conns[c].state = "connecting" /\ ~conns[c].served /\ conns[c].worker = v)
    /\ \A i \in DOMAIN asks : ~(asks[i].kind = "recover" /\ asks[i].reply # <<>> /\ asks[i].worker = v)

\* Someone else types or deletes: addToSession, and sendToClients.
ForeignEdit(w, e) ==
    /\ w \in up /\ MayReach(w) /\ foreign > 0
    /\ Processed(w, e)
    /\ out' = [out EXCEPT ![w] = Append(@, e)]
    /\ conns' = Pushed(conns, clients[w], e)
    /\ foreign' = foreign - 1
    /\ UNCHANGED <<page, asks, up, wcache, sent, clients, toAck, typed, breaks, crashes, failures>>

Foreign(w) ==
    \/ \E ch \in 0..Len(wdoc[w].text) :
          /\ "start" \in unruly \/ ch # 0
          /\ \A v \in Workers : NewID(wdoc[w], Other) \notin Known(wdoc[v])
          /\ ForeignEdit(w, Elem(NewID(wdoc[w], Other), Preceding(wdoc[w], ch), FALSE, Other))
    \/ \E k \in Range(wdoc[w].text) : ForeignEdit(w, Elem(k, wdoc[w].prev[k], TRUE, Other))

\* Cache.add, Cache.exists: an element that has expired may be added again.
Caches(v, e) == IF \E i \in DOMAIN wcache[v] : wcache[v][i].id = e.id /\ wcache[v][i].del = e.del
                THEN {wcache[v], Append(wcache[v], e)} ELSE {Append(wcache[v], e)}

\* sendLocalElements for one element and one worker: ApplyIncomingElements.
Spread(w, v) ==
    LET e == out[w][sent[w][v] + 1] IN
    /\ {w, v} \subseteq up /\ w # v /\ sent[w][v] < Len(out[w])
    /\ e.by = Me \/ MayReach(v)
    /\ \E es \in Caches(v, e) : wcache' = [wcache EXCEPT ![v] = es]
    /\ IF Panics(v, e) THEN up' = up \ {v} /\ UNCHANGED <<wdoc, out, sent, conns>>
       ELSE /\ Processed(v, e)
            /\ out' = IF IsNew(v, e) THEN [out EXCEPT ![v] = Append(@, e)] ELSE out
            /\ sent' = [sent EXCEPT ![w][v] = @ + 1]
            /\ conns' = IF e.by = Me \/ ~IsNew(v, e) THEN conns ELSE Pushed(conns, clients[v], e)
            /\ UNCHANGED up
    /\ UNCHANGED <<page, asks, clients, toAck, bounds>>

\* ackElements; what is from a user who is not connected is forgotten.
Acknowledge(w) ==
    /\ w \in up /\ toAck[w] # <<>>
    /\ clients[w] = 0 \/ \E v \in Workers \ {w} : sent[w][v] >= Head(toAck[w])
    /\ toAck' = [toAck EXCEPT ![w] = Tail(@)]
    /\ conns' = Pushed(conns, clients[w], out[w][Head(toAck[w])])
    /\ UNCHANGED <<page, asks, up, session, clients, bounds>>

\* It is on its way back to the page, which takes it out of the cache then.
Returning(id) ==
    \/ \E c \in DOMAIN conns : \E i \in DOMAIN conns[c].down : conns[c].down[i].id = id
    \/ \E k \in DOMAIN asks : /\ asks[k].kind = "recover" /\ asks[k].reply # <<>> /\ asks[k].reply # <<NONE>>
                             /\ \E i \in DOMAIN asks[k].reply[1] : asks[k].reply[1][i].id = id

\* It is not lost when w ends.
IsSafe(w, e) ==
    \/ e.id \in Range(cache) /\ e.id \notin doc.dead /\ ~Returning(e.id)
    \/ e.del /\ e.id \notin Known(wdoc[w])
    \/ \E v \in up \ {w} : Has(wdoc[v], e)

\* The page has been told to connect to w, or is about to.
Expected(w) ==
    \/ \E c \in DOMAIN conns : conns[c].worker = w /\ conns[c].state = "connecting"
    \/ \E i \in DOMAIN asks : asks[i].kind = "register" /\ asks[i].reply = <<w>>
    \/ \E i \in DOMAIN asks : asks[i].kind = "recover" /\ asks[i].worker = w /\ asks[i].reply \notin {<<>>, <<NONE>>}

Crash(w) ==
    /\ w \in up /\ crashes > 0
    /\ "lost" \in unruly \/ \A i \in DOMAIN out[w] : IsSafe(w, out[w][i])
    /\ "doubled" \in unruly \/ ~Expected(w)
    /\ crashes' = crashes - 1
    /\ up' = up \ {w}
    /\ UNCHANGED <<page, net, session, clients, toAck, typed, foreign, breaks, failures>>

\* A connection breaks, and what is on its way with it.
Break(c) ==
    /\ breaks > 0 /\ ~conns[c].broken
    /\ conns[c].state = "open" \/ (conns[c].state = "connecting" /\ "doubled" \in unruly)
    /\ breaks' = breaks - 1
    /\ conns' = [conns EXCEPT ![c].broken = TRUE, ![c].up = <<>>, ![c].down = <<>>]
    /\ UNCHANGED <<page, asks, worker, typed, foreign, crashes, failures>>

Page == \/ \E i \in DOMAIN asks : Registered(i) \/ SessionLoaded(i) \/ Reassigned(i)
                                  \/ Recovered(i) \/ RecoveryFails(i)
        \/ \E c \in DOMAIN conns : Opened(c) \/ Receive(c) \/ Closed(c)
        \/ TimerFires
Service == \/ \E i \in DOMAIN asks : Assign(i) \/ Answer(i)
           \/ \E c \in DOMAIN conns : Accept(c) \/ OnElement(c) \/ ReadFails(c)
           \/ \E w \in Workers : Acknowledge(w) \/ \E v \in Workers : Spread(w, v)
Next == /\ \/ Page \/ Service \/ Type \/ Erase \/ Leave
           \/ \E w \in Workers : Foreign(w) \/ Crash(w)
           \/ \E c \in DOMAIN conns : Break(c)
           \/ \E i \in DOMAIN asks : Fails(i)
        /\ UNCHANGED unruly

Spec == Init /\ [][Next]_vars

\* Requests are answered or fail, connections are served or end, timers run
\* out, and the workers go on with each other; nobody has to type.
FairSpec == Spec /\ WF_vars(Page /\ UNCHANGED unruly) /\ WF_vars(Service /\ UNCHANGED unruly)

-----------------------------------------------------------------------------
TypeOK ==
    /\ Range(cache) \subseteq Known(doc) /\ Range(doc.text) \subseteq Known(doc)
    /\ {loaded, recovering, unload, gaveUp} \subseteq BOOLEAN
    /\ workerIP \in Workers \cup {NONE} /\ socket = Len(conns) /\ timers \in Nat
    /\ up \subseteq Workers
    /\ clients \in [Workers -> 0..Len(conns)]

\* Two workers have the element, or one has been told that it is deleted.
IsKept(k) ==
    \/ \E v, w \in Workers : v # w /\ k \in Known(wdoc[v]) /\ k \in Known(wdoc[w])
    \/ \E w \in Workers : \E i \in DOMAIN out[w] : out[w][i].id = k /\ out[w][i].del

\* What the user has typed stays in the cache until then, whatever breaks, ends,
\* comes late or is lost.
TypedIsKept == \A k \in Known(doc) : k[2] = Me => k \in Range(cache) \/ IsKept(k)

PageInv == TypeOK /\ TypedIsKept

\* No element is sent, for the first time or again, to a worker that has not
\* got the one it is behind: that would end the worker (Session.Add).
NoWorkerPanics == unruly \subseteq {"start", "erase", "gap", "missed"} =>
    \A c \in DOMAIN conns :
        (conns[c].served /\ conns[c].worker \in up /\ conns[c].up # <<>>) => ~Panics(conns[c].worker, Head(conns[c].up))

\* Once nothing is under way the browser shows its worker's session, although
\* it was away for a while.
Quiet == /\ loaded /\ State(socket) = "open" /\ asks = <<>> /\ timers = 0
         /\ ~conns[socket].broken /\ conns[socket].worker \in up
         /\ \A c \in DOMAIN conns : conns[c].up = <<>> /\ conns[c].down = <<>>
         /\ \A v \in up, w \in up : Known(wdoc[v]) = Known(wdoc[w]) /\ wdoc[v].dead = wdoc[w].dead
Converged == unruly \subseteq {"moved"} /\ Quiet => doc.text = wdoc[conns[socket].worker].text

\* A page that stays is connected again unless a request has failed or no
\* worker is left.
Reconnects == ("missed" \in unruly /\ socket # 0 /\ State(socket) # "open")
                 ~> (State(socket) = "open" \/ unload \/ gaveUp \/ up = {})
=============================================================================
