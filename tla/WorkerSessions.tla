---------------------------- MODULE WorkerSessions ----------------------------
(***************************************************************************)
(* How a worker comes to have a session (worker/worker.go), what the load  *)
(* balancer hands out (RegisterNewClient of worker/server.go), and the     *)
(* cache of elements that came from other workers (lib/cache/cache.go).    *)
(*                                                                         *)
(* A worker that is asked for a session it does not have, by the load      *)
(* balancer, by an incoming element or by a client that recovers, fetches  *)
(* it from another worker or from the file server.  Nothing keeps two of   *)
(* these handlers from doing so at the same time.                          *)
(*                                                                         *)
(* One session, as the set of its elements; none of them is typed behind   *)
(* another.  Every peer is in the map of workers.  Logs are left out.      *)
(***************************************************************************)
EXTENDS Integers, FiniteSets, SequencesExt

CONSTANTS
    Workers,
    Clients,
    Elements,
    Author,             \* the client that types each element
    NIL,
    EXPIRY_THRESHOLD,   \* how long an element is cached
    MaxClock,           \* bound: the time until which elements are cached
    MaxFailures,        \* bound: calls that fail and workers that end
    MaxTogether         \* bound: those and the elements that are typed

ASSUME SessionsAssumption ==
    /\ Author \in [Elements -> Clients]
    /\ NIL \notin Workers \cup Clients /\ \A els \in SUBSET Elements : els # NIL
    /\ EXPIRY_THRESHOLD \in Nat /\ MaxClock \in Nat /\ MaxFailures \in Nat
    /\ MaxTogether \in Nat

VARIABLES
    session,    \* sessions: the elements of each worker's session, or NIL
    modified,   \* modifiedSessions: what is to be saved, or NIL
    saving,     \* a save of it is under way
    flood,      \* what each worker sends to the others
    sent,       \* <<v, w, e>>: v has sent e to w
    file,       \* what the file server has of the session, or NIL
    cache,      \* the cached elements of each worker with their timestamps
    pending,    \* pendingSessions: "absent", "true" or "false"
    handlers,   \* the handlers that run on the workers
    created,    \* sessionIDs of the load balancer has the session
    locked,     \* the client that is being registered under its lock, or NIL
    home,       \* the worker each client has been given, or NIL
    alive,      \* the workers that run
    clock,
    failures

dataVars == <<session, modified, saving, flood, sent, file>>
cacheVars == <<cache, pending>>
lbVars == <<created, locked, home>>
vars == <<dataVars, cacheVars, handlers, lbVars, alive, clock, failures>>

Typed == UNION {flood[w] : w \in Workers}
ElementSetOrNil == (SUBSET Elements) \cup {NIL}
Entry == [el : Elements, stamp : 0..MaxClock]
Steps == {"peers", "assign", "end", "done"}
Serving == [kind : {"load", "recover"}, for : Clients, on : Workers, left : SUBSET Workers,
            at : Steps, got : ElementSetOrNil]
Applying == [kind : {"apply"}, for : Workers \X Elements, on : Workers, left : SUBSET Workers,
             at : Steps, got : ElementSetOrNil]
Handler == Serving \cup Applying

Init ==
    /\ session = [w \in Workers |-> NIL]
    /\ modified = [w \in Workers |-> NIL]
    /\ saving = [w \in Workers |-> FALSE]
    /\ flood = [w \in Workers |-> {}]
    /\ sent = {} /\ file = NIL /\ handlers = {}
    /\ cache = [w \in Workers |-> <<>>]
    /\ pending = [w \in Workers |-> "absent"]
    /\ created = FALSE /\ locked = NIL
    /\ home = [c \in Clients |-> NIL]
    /\ alive = Workers /\ clock = 0 /\ failures = 0

\* One more failure or element.
Allowed == Cardinality(Typed) + failures < MaxTogether

Fail == Allowed /\ failures < MaxFailures /\ failures' = failures + 1

(***************************************************************************)
(* Handlers.                                                               *)
(***************************************************************************)

\* A handler that needs the session starts: getSessionAndLogs marks the session
\* as pending and goes through the other workers.
Start(kind, for, w) ==
    /\ \A h \in handlers : <<h.kind, h.for, h.on>> # <<kind, for, w>>
    /\ handlers' = handlers \cup {[kind |-> kind, for |-> for, on |-> w, left |-> Workers \ {w},
                                   at |-> IF session[w] = NIL THEN "peers" ELSE "done",
                                   got |-> NIL]}
    /\ pending' = IF session[w] = NIL THEN [pending EXCEPT ![w] = "true"] ELSE pending

Move(h, g) == handlers' = (handlers \ {h}) \cup {g}

\* addToSession of some elements.  What is to be saved is from now on the
\* session that is there, even if it has been another one before.
AddToSession(w, els) ==
    IF session[w] = NIL \/ els \subseteq session[w] THEN UNCHANGED <<session, modified, flood>>
    ELSE /\ session' = [session EXCEPT ![w] = @ \cup els]
         /\ modified' = [modified EXCEPT ![w] = session[w] \cup els]
         /\ flood' = [flood EXCEPT ![w] = @ \cup (els \ session[w])]

\* GetSession of another worker: its elements, or an error.
AskPeer(h, v) ==
    /\ h.at = "peers" /\ v \in h.left
    /\ \/ /\ v \in alive /\ session[v] # NIL
          /\ Move(h, [h EXCEPT !.got = session[v], !.at = "assign"])
          /\ UNCHANGED failures
       \/ /\ IF v \in alive /\ session[v] # NIL THEN Fail ELSE UNCHANGED failures
          /\ Move(h, [h EXCEPT !.left = @ \ {v}])
    /\ UNCHANGED <<dataVars, cacheVars, lbVars, alive, clock>>

\* The process of w is gone, with its handlers.
End(w) ==
    /\ alive' = alive \ {w}
    /\ handlers' = {h \in handlers : h.on # w}

\* No worker had it: the file server is asked, unless somebody else has set the
\* session meanwhile.  It may return an error; an empty reply is indexed, which
\* ends the worker, or in an HTTP handler only that: net/http recovers.
AskFileServer(h) ==
    /\ h.at = "peers" /\ h.left = {}
    /\ \/ /\ session[h.on] # NIL
          /\ Move(h, [h EXCEPT !.at = "end"])
          /\ UNCHANGED <<alive, failures>>
       \/ /\ session[h.on] = NIL /\ file # NIL
          /\ Move(h, [h EXCEPT !.got = file, !.at = "assign"])
          /\ UNCHANGED <<alive, failures>>
       \/ /\ session[h.on] = NIL /\ Fail
          /\ Move(h, [h EXCEPT !.at = "end"])
          /\ UNCHANGED alive
       \/ /\ session[h.on] = NIL
          /\ IF file = NIL THEN UNCHANGED failures ELSE Fail
          /\ IF h.kind = "recover" THEN handlers' = handlers \ {h} /\ UNCHANGED alive
             ELSE End(h.on)
    /\ UNCHANGED <<dataVars, cacheVars, lbVars, clock>>

\* w.sessions[sessionID] = &session; return true
Assign(h) ==
    /\ h.at = "assign"
    /\ session' = [session EXCEPT ![h.on] = h.got]
    /\ Move(h, [h EXCEPT !.at = "done"])
    /\ UNCHANGED <<modified, saving, flood, sent, file, cacheVars, lbVars, alive, clock, failures>>

\* The end of getSessionAndLogs, only reached when nothing was fetched.
EndFetch(h) ==
    /\ h.at = "end"
    /\ AddToSession(h.on, {x.el : x \in Range(cache[h.on])})
    /\ pending' = [pending EXCEPT ![h.on] = "false"]
    /\ Move(h, [h EXCEPT !.at = "done"])
    /\ UNCHANGED <<saving, sent, file, cache, lbVars, alive, clock, failures>>

Cached(s, e) == \E x \in Range(s) : x.el = e

\* Cache.Add
CacheAdd(s, e) ==
    IF Cached(s, e) THEN s ELSE Append(s, [el |-> e, stamp |-> clock])

\* The rest of ApplyIncomingElements for this element.
FinishApply(h) ==
    /\ h.kind = "apply" /\ h.at = "done"
    /\ cache' = [cache EXCEPT ![h.on] = CacheAdd(@, h.for[2])]
    /\ AddToSession(h.on, {h.for[2]})
    /\ handlers' = handlers \ {h}
    /\ UNCHANGED <<saving, sent, file, pending, lbVars, alive, clock, failures>>

\* LoadSession returns to the load balancer, whatever has come of it.
FinishLoad(h) ==
    /\ h.kind = "load" /\ h.at = "done"
    /\ home' = [home EXCEPT ![h.for] = h.on]
    /\ locked' = NIL
    /\ handlers' = handlers \ {h}
    /\ UNCHANGED <<dataVars, cacheVars, created, alive, clock, failures>>

\* recoveryHandler answers with what is in the cache.
FinishRecover(h) ==
    /\ h.kind = "recover" /\ h.at = "done"
    /\ handlers' = handlers \ {h}
    /\ UNCHANGED <<dataVars, cacheVars, lbVars, alive, clock, failures>>

(***************************************************************************)
(* The load balancer.                                                      *)
(***************************************************************************)

\* RegisterNewClient takes the lock.
Register(c) ==
    /\ locked = NIL /\ home[c] \notin alive
    /\ locked' = c
    /\ UNCHANGED <<dataVars, cacheVars, handlers, created, home, alive, clock, failures>>

Loading == \E h \in handlers : h.kind = "load"

\* The first client: CreateNewSession, which also saves it.  The session counts
\* as created even if the worker ends in this call.
Create(w) ==
    /\ locked # NIL /\ ~created /\ w \in alive
    /\ created' = TRUE
    /\ \/ /\ session' = [session EXCEPT ![w] = {}]
          /\ \/ file' = {} /\ UNCHANGED failures
             \/ Fail /\ UNCHANGED file
          /\ home' = [home EXCEPT ![locked] = w]
          /\ locked' = NIL
          /\ UNCHANGED <<handlers, alive>>
       \/ Fail /\ End(w) /\ UNCHANGED <<session, file, home, locked>>
    /\ UNCHANGED <<modified, saving, flood, sent, cacheVars, clock>>

\* Faulty Load: a session that is pending already is left to whoever fetches it.
LoadUnlessPending(w) ==
    /\ locked # NIL /\ created /\ w \in alive /\ ~Loading
    /\ IF pending[w] = "true"
       THEN /\ home' = [home EXCEPT ![locked] = w] /\ locked' = NIL
            /\ UNCHANGED <<handlers, pending>>
       ELSE Start("load", locked, w) /\ UNCHANGED <<home, locked>>
    /\ UNCHANGED <<dataVars, cache, created, alive, clock, failures>>

\* Faulty Load: only a worker that has the session is offered.
LoadWhereLoaded(w) ==
    /\ locked # NIL /\ created /\ w \in alive /\ ~Loading
    /\ session[w] # NIL
    /\ Start("load", locked, w)
    /\ UNCHANGED <<dataVars, cache, lbVars, alive, clock, failures>>

\* The others: LoadSession, on the next worker when one has ended of it.
Load(w) ==
    /\ locked # NIL /\ created /\ w \in alive /\ ~Loading
    /\ Start("load", locked, w)
    /\ UNCHANGED <<dataVars, cache, lbVars, alive, clock, failures>>

\* No worker is left to offer.
GiveUp ==
    /\ locked # NIL /\ alive = {}
    /\ locked' = NIL
    /\ UNCHANGED <<dataVars, cacheVars, handlers, created, home, alive, clock, failures>>

(***************************************************************************)
(* Clients, other workers, the file server, time.                          *)
(***************************************************************************)

\* onElement.  The element is sent to the others even if there is no session:
\* it is put behind those to acknowledge in any case.
Type(e) ==
    LET w == home[Author[e]] IN
    /\ e \notin Typed /\ w \in alive /\ Allowed
    /\ IF session[w] = NIL
       THEN flood' = [flood EXCEPT ![w] = @ \cup {e}] /\ UNCHANGED <<session, modified>>
       ELSE AddToSession(w, {e})
    /\ UNCHANGED <<saving, sent, file, cacheVars, handlers, lbVars, alive, clock, failures>>

Recover(c) ==
    /\ home[c] \in alive /\ session[home[c]] = NIL
    /\ Start("recover", c, home[c])
    /\ UNCHANGED <<dataVars, cache, lbVars, alive, clock, failures>>

\* v floods e to w, which starts ApplyIncomingElements.  (Sending it again is
\* the subject of WorkerMesh.)
Send(v, w, e) ==
    /\ v # w /\ {v, w} \subseteq alive
    /\ e \in flood[v] /\ <<v, w, e>> \notin sent
    /\ Start("apply", <<v, e>>, w)
    /\ sent' = sent \cup {<<v, w, e>>}
    /\ UNCHANGED <<session, modified, saving, flood, file, cache, lbVars, alive, clock, failures>>

\* saveModifiedSessionsToFS: the session is encoded and sent ...
BeginSave(w) ==
    /\ w \in alive /\ modified[w] # NIL /\ ~saving[w]
    /\ \/ /\ file' = modified[w]
          /\ saving' = [saving EXCEPT ![w] = TRUE]
          /\ UNCHANGED failures
       \/ Fail /\ UNCHANGED <<file, saving>>
    /\ UNCHANGED <<session, modified, flood, sent, cacheVars, handlers, lbVars, alive, clock>>

\* ... and taken out of the map when the reply is there.
EndSave(w) ==
    /\ w \in alive /\ saving[w]
    /\ saving' = [saving EXCEPT ![w] = FALSE]
    /\ modified' = [modified EXCEPT ![w] = NIL]
    /\ UNCHANGED <<session, flood, sent, file, cacheVars, handlers, lbVars, alive, clock, failures>>

Expired(x, now) == now - x.stamp >= EXPIRY_THRESHOLD

\* Faulty Cleaned: when the first element has expired, all go.
CleanedAll(s, now) == IF s # <<>> /\ Expired(s[1], now) THEN <<>> ELSE s

\* Cache.clean ranges over the slice that remove shifts to the front: pass i
\* (from 0) looks at what was at 2i, or at the last element, which stays behind
\* the shortened slice; it then removes the first one that is left.
Cleaned(s, now) ==
    LET n        == Len(s)
        lookedAt == [i \in 0..n-1 |-> s[IF 2 * i < n THEN 2 * i + 1 ELSE n]]
        passes   == {k \in 0..n : \A i \in 0..k-1 : Expired(lookedAt[i], now)}
    IN  SubSeq(s, Cardinality(passes), n)

\* Cache.Maintain
Maintain(w) ==
    /\ w \in alive /\ pending[w] # "true"
    /\ cache' = [cache EXCEPT ![w] = Cleaned(@, clock)]
    /\ UNCHANGED <<dataVars, pending, handlers, lbVars, alive, clock, failures>>

Tick ==
    /\ clock < MaxClock
    /\ clock' = clock + 1
    /\ UNCHANGED <<dataVars, cacheVars, handlers, lbVars, alive, failures>>

Crash(w) ==
    /\ w \in alive /\ Fail
    /\ End(w)
    /\ UNCHANGED <<dataVars, cacheVars, lbVars, clock>>

Step(h) ==
    \/ \E v \in Workers : AskPeer(h, v)
    \/ AskFileServer(h) \/ Assign(h) \/ EndFetch(h)
    \/ FinishApply(h) \/ FinishLoad(h) \/ FinishRecover(h)

Next ==
    \/ \E h \in handlers : Step(h)
    \/ \E c \in Clients : Register(c) \/ Recover(c)
    \/ \E w \in Workers : Create(w) \/ Load(w)
    \/ GiveUp
    \/ \E e \in Elements : Type(e)
    \/ \E v, w \in Workers, e \in Elements : Send(v, w, e)
    \/ \E w \in Workers : BeginSave(w) \/ EndSave(w) \/ Maintain(w) \/ Crash(w)
    \/ Tick

Spec == Init /\ [][Next]_vars

\* The load balancer goes on with the client it registers, and the worker with
\* the load it has been asked for.
FairSpec ==
    /\ Spec
    /\ WF_vars(\E h \in handlers : h.kind = "load" /\ Step(h))
    /\ WF_vars(\E w \in Workers : Create(w) \/ Load(w)) /\ WF_vars(GiveUp)

-----------------------------------------------------------------------------
TypeOK ==
    /\ session \in [Workers -> ElementSetOrNil] /\ modified \in [Workers -> ElementSetOrNil]
    /\ saving \in [Workers -> BOOLEAN] /\ file \in ElementSetOrNil
    /\ flood \in [Workers -> SUBSET Elements]
    /\ sent \subseteq Workers \X Workers \X Elements
    /\ cache \in [Workers -> Seq(Entry)]
    /\ pending \in [Workers -> {"absent", "true", "false"}]
    /\ handlers \subseteq Handler
    /\ created \in BOOLEAN /\ locked \in Clients \cup {NIL}
    /\ home \in [Clients -> Workers \cup {NIL}]
    /\ alive \subseteq Workers /\ clock \in 0..MaxClock /\ failures \in 0..MaxFailures
    /\ \A h \in handlers : h.kind = "load" => h.for = locked

\* Unless something fails, a client is sent to a worker that has the session,
\* although LoadSession reports no error and others fetch at the same time.
HandedOutHasSession ==
    failures = 0 => \A c \in Clients : home[c] \in alive => session[home[c]] # NIL

\* Types, and that a client is sent where its session is (RegisterNewClient).
LoadInv == TypeOK /\ HandedOutHasSession

\* An element leaves the cache only when it has been there for EXPIRY_THRESHOLD:
\* until then recoveryHandler hands it to clients that come back.
YoungStay ==
    [][\A w \in Workers : \A x \in Range(cache[w]) :
           x \in Range(cache'[w]) \/ Expired(x, clock)]_vars

\* The load balancer gives its lock back.
LockReleased == (locked # NIL) ~> (locked = NIL)
=============================================================================
