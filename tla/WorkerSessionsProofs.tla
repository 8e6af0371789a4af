------------------------- MODULE WorkerSessionsProofs -------------------------
(***************************************************************************)
(* Proofs about WorkerSessions, for any number of elements and workers.    *)
(*                                                                         *)
(* The cache: although clean ranges over a slice that it shifts, it only   *)
(* takes out what has expired.  This rests on the order of the timestamps: *)
(* clean looks at an element no older than the one it removes.             *)
(*                                                                         *)
(* The sessions: as long as nothing fails, a client is handed to a worker  *)
(* that has the session.  This rests on what a handler that found no       *)
(* session, or found another one fetching it, will still find.             *)
(***************************************************************************)
EXTENDS WorkerSessions, FiniteSetTheorems, TLAPS

Sorted(s) == \A i, j \in 1..Len(s) : i <= j => s[i].stamp <= s[j].stamp
NotAfter(s, now) == \A i \in 1..Len(s) : s[i].stamp <= now

\* What is applied is an element.
IsHandler(h) ==
    /\ DOMAIN h = {"kind", "for", "on", "left", "at", "got"}
    /\ h = [f \in DOMAIN h |-> h[f]]
    /\ h.kind = "apply" => h.for \in Workers \X Elements

HandlersInv == \A h \in handlers : IsHandler(h)

CacheInv ==
    /\ clock \in 0..MaxClock
    /\ cache \in [Workers -> Seq(Entry)]
    /\ \A w \in Workers : Sorted(cache[w]) /\ NotAfter(cache[w], clock)
    /\ HandlersInv

LookedAt(s) == [i \in 0..Len(s)-1 |-> s[IF 2 * i < Len(s) THEN 2 * i + 1 ELSE Len(s)]]
Passes(s, now) == {k \in 0..Len(s) : \A i \in 0..k-1 : Expired(LookedAt(s)[i], now)}

\* How many elements clean removes: at least none, and no more than there are.
LEMMA PassesBound ==
    ASSUME NEW s \in Seq(Entry), NEW now \in Int
    PROVE  Cardinality(Passes(s, now)) \in 1..Len(s)+1
<1> DEFINE P == Passes(s, now)
<1>1. P \subseteq 0..Len(s) /\ 0 \in P
  BY DEF Passes
<1>2. IsFiniteSet(0..Len(s)) /\ Cardinality(0..Len(s)) = Len(s) + 1
  BY FS_Interval
<1>3. IsFiniteSet(P) /\ Cardinality(P) <= Len(s) + 1 /\ Cardinality(P) \in Nat
  BY <1>1, <1>2, FS_Subset, FS_CardinalityType
<1>4. Cardinality(P) # 0
  BY <1>1, <1>3, FS_EmptySet
<1> QED
  BY <1>3, <1>4

\* An element that has not expired is at or behind the first one that is kept.
LEMMA PassesStop ==
    ASSUME NEW s \in Seq(Entry), NEW now \in Int, Sorted(s),
           NEW j \in 1..Len(s), ~Expired(s[j], now)
    PROVE  Cardinality(Passes(s, now)) <= j
<1> DEFINE P == Passes(s, now)
           seen == IF 2 * (j - 1) < Len(s) THEN 2 * (j - 1) + 1 ELSE Len(s)
<1>1. seen \in j..Len(s) /\ LookedAt(s)[j - 1] = s[seen]
  BY DEF LookedAt
<1>2. s[j].stamp \in Int /\ s[seen].stamp \in Int /\ s[j].stamp <= s[seen].stamp
  <2>1. s[j] \in Entry /\ s[seen] \in Entry /\ j \in 1..Len(s) /\ seen \in 1..Len(s)
    BY <1>1
  <2>2. s[j].stamp <= s[seen].stamp
    BY <2>1, <1>1 DEF Sorted
  <2> HIDE DEF seen
  <2>3. s[j].stamp \in 0..MaxClock /\ s[seen].stamp \in 0..MaxClock
    BY <2>1 DEF Entry
  <2> QED
    BY <2>2, <2>3, SessionsAssumption
<1>3. ~Expired(LookedAt(s)[j - 1], now)
  <2> HIDE DEF seen
  <2> QED
    BY <1>1, <1>2, SessionsAssumption DEF Expired
<1>4. P \subseteq 0..j-1
  BY <1>3 DEF Passes
<1>5. IsFiniteSet(0..j-1) /\ Cardinality(0..j-1) = j
  <2>1. 0 \in Int /\ j - 1 \in Int /\ ~(0 > j - 1) /\ (j - 1) - 0 + 1 = j
    OBVIOUS
  <2> QED
    BY <2>1, FS_Interval
<1> QED
  BY <1>4, <1>5, FS_Subset

\* What clean keeps: the later part of the slice, which has the same properties,
\* and in it all that has not expired.
LEMMA CleanedKeeps ==
    ASSUME NEW s \in Seq(Entry), NEW now \in Int, Sorted(s), NotAfter(s, now)
    PROVE  /\ Cleaned(s, now) \in Seq(Entry)
           /\ Sorted(Cleaned(s, now)) /\ NotAfter(Cleaned(s, now), now)
           /\ \A x \in Range(s) : x \in Range(Cleaned(s, now)) \/ Expired(x, now)
<1> DEFINE m == Cardinality(Passes(s, now))
           r == SubSeq(s, m, Len(s))
<1>1. Cleaned(s, now) = r
  BY DEF Cleaned, Passes, LookedAt
<1>2. m \in 1..Len(s)+1
  BY PassesBound
<1> HIDE DEF m
<1>3. r \in Seq(Entry) /\ Len(r) = Len(s) + 1 - m /\ \A i \in 1..Len(r) : r[i] = s[m + i - 1]
  BY <1>2
<1> HIDE DEF r
<1>4. Sorted(r) /\ NotAfter(r, now)
  <2>1. ASSUME NEW i \in 1..Len(r)
        PROVE  m + i - 1 \in 1..Len(s) /\ r[i] = s[m + i - 1]
    BY <1>2, <1>3
  <2>2. NotAfter(r, now)
    BY <2>1 DEF NotAfter
  <2>3. ASSUME NEW i \in 1..Len(r), NEW j \in 1..Len(r), i <= j
        PROVE  r[i].stamp <= r[j].stamp
    <3>1. m + i - 1 <= m + j - 1
      BY <2>3, <1>2
    <3> QED
      BY <2>1, <3>1 DEF Sorted
  <2> QED
    BY <2>2, <2>3 DEF Sorted
<1>5. ASSUME NEW x \in Range(s), ~Expired(x, now)
      PROVE  x \in Range(r)
  <2>1. PICK j \in 1..Len(s) : x = s[j]
    BY DEF Range
  <2>2. m <= j
    BY <2>1, <1>5, PassesStop DEF m
  <2>3. j - m + 1 \in 1..Len(r) /\ r[j - m + 1] = x
    BY <2>1, <2>2, <1>2, <1>3
  <2> QED
    BY <2>3, <1>3 DEF Range
<1> QED
  BY <1>1, <1>3, <1>4, <1>5

\* Cache.Add puts what is not there behind the rest, with the present time.
LEMMA CacheAddKeeps ==
    ASSUME NEW s \in Seq(Entry), clock \in 0..MaxClock, Sorted(s), NotAfter(s, clock),
           NEW e \in Elements
    PROVE  /\ CacheAdd(s, e) \in Seq(Entry)
           /\ Sorted(CacheAdd(s, e)) /\ NotAfter(CacheAdd(s, e), clock)
           /\ Range(s) \subseteq Range(CacheAdd(s, e))
<1>1. CASE Cached(s, e)
  BY <1>1 DEF CacheAdd
<1>2. CASE ~Cached(s, e)
  <2> DEFINE new == [el |-> e, stamp |-> clock]
             r == Append(s, new)
  <2>1. new \in Entry /\ new.stamp = clock /\ CacheAdd(s, e) = r
    BY <1>2 DEF Entry, CacheAdd
  <2>2. r \in Seq(Entry) /\ Len(r) = Len(s) + 1 /\ r[Len(s) + 1] = new
        /\ \A i \in 1..Len(s) : r[i] = s[i]
    BY <2>1
  <2> HIDE DEF r, new
  <2>3. \A i \in 1..Len(r) : r[i].stamp <= clock
    BY <2>1, <2>2, SessionsAssumption DEF NotAfter
  <2>4. ASSUME NEW i \in 1..Len(r), NEW j \in 1..Len(r), i <= j
        PROVE  r[i].stamp <= r[j].stamp
    <3>1. CASE j = Len(s) + 1
      BY <3>1, <2>1, <2>2, <2>3
    <3>2. CASE j \in 1..Len(s)
      BY <3>2, <2>2, <2>4 DEF Sorted
    <3> QED
      BY <3>1, <3>2, <2>2
  <2>5. Range(s) \subseteq Range(r)
    BY <2>2 DEF Range
  <2> QED
    BY <2>1, <2>2, <2>3, <2>4, <2>5 DEF Sorted, NotAfter
<1> QED
  BY <1>1, <1>2

\* A handler that goes on stays one, and so does the set of handlers.
LEMMA MoveStep ==
    ASSUME HandlersInv, NEW h \in handlers, NEW g,
           g \in {[h EXCEPT !.at = a] : a \in {"end", "done"}}
                 \cup {[h EXCEPT !.left = @ \ {v}] : v \in Workers}
                 \cup {[h EXCEPT !.got = x, !.at = "assign"] : x \in {file} \cup {session[v] : v \in Workers}},
           Move(h, g)
    PROVE  HandlersInv'
<1>1. IsHandler(h)
  BY DEF HandlersInv
<1>2. IsHandler(g)
  BY <1>1 DEF IsHandler
<1> QED
  BY <1>2 DEF HandlersInv, Move, IsHandler

LEMMA StartStep ==
    ASSUME HandlersInv, NEW kind, NEW for, NEW w,
           kind = "apply" => for \in Workers \X Elements,
           Start(kind, for, w)
    PROVE  HandlersInv'
<1> DEFINE h == [kind |-> kind, for |-> for, on |-> w, left |-> Workers \ {w},
                 at |-> IF session[w] = NIL THEN "peers" ELSE "done", got |-> NIL]
<1>1. IsHandler(h)
  BY DEF IsHandler
<1>2. handlers' = handlers \cup {h}
  BY DEF Start
<1> QED
  BY <1>1, <1>2 DEF HandlersInv, IsHandler

LEMMA HandlersStep ==
    ASSUME HandlersInv, Next
    PROVE  HandlersInv'
<1>1. ASSUME handlers' \subseteq handlers
      PROVE  HandlersInv'
  BY <1>1 DEF HandlersInv, IsHandler
<1>2. ASSUME NEW h \in handlers, Step(h)
      PROVE  HandlersInv'
  <2>1. ASSUME NEW v \in Workers, AskPeer(h, v)
        PROVE  HandlersInv'
    BY <2>1, MoveStep DEF AskPeer
  <2>2. CASE AskFileServer(h)
    BY <2>2, <1>1, MoveStep DEF AskFileServer, End
  <2>3. CASE Assign(h)
    BY <2>3, MoveStep DEF Assign
  <2>4. CASE EndFetch(h)
    BY <2>4, MoveStep DEF EndFetch
  <2>5. CASE FinishApply(h) \/ FinishLoad(h) \/ FinishRecover(h)
    BY <2>5, <1>1 DEF FinishApply, FinishLoad, FinishRecover
  <2> QED
    BY <1>2, <2>1, <2>2, <2>3, <2>4, <2>5 DEF Step
<1>3. ASSUME NEW c \in Clients, Register(c) \/ Recover(c)
      PROVE  HandlersInv'
  BY <1>1, <1>3, StartStep DEF Register, Recover
<1>4. ASSUME NEW w \in Workers, Create(w) \/ Load(w)
      PROVE  HandlersInv'
  BY <1>1, <1>4, StartStep DEF Create, Load, End
<1>5. ASSUME GiveUp \/ Tick \/ \E e \in Elements : Type(e)
      PROVE  HandlersInv'
  BY <1>1, <1>5 DEF GiveUp, Tick, Type
<1>6. ASSUME NEW v \in Workers, NEW w \in Workers, NEW e \in Elements, Send(v, w, e)
      PROVE  HandlersInv'
  BY <1>6, StartStep DEF Send
<1>7. ASSUME NEW w \in Workers, BeginSave(w) \/ EndSave(w) \/ Maintain(w) \/ Crash(w)
      PROVE  HandlersInv'
  BY <1>1, <1>7 DEF BeginSave, EndSave, Maintain, Crash, End
<1> QED
  BY <1>2, <1>3, <1>4, <1>5, <1>6, <1>7 DEF Next

\* What every step does to the caches and the clock, and what it keeps.
Kept ==
    /\ clock' \in 0..MaxClock /\ clock <= clock'
    /\ cache' \in [Workers -> Seq(Entry)]
    /\ \A w \in Workers :
        /\ Sorted(cache'[w]) /\ NotAfter(cache'[w], clock')
        /\ \A x \in Range(cache[w]) : x \in Range(cache'[w]) \/ Expired(x, clock)

\* Time passes, or nothing happens.
LEMMA ClockStep ==
    ASSUME CacheInv, cache' = cache, clock' \in 0..MaxClock, clock <= clock'
    PROVE  Kept
<1>1. ASSUME NEW w \in Workers
      PROVE  Sorted(cache'[w]) /\ NotAfter(cache'[w], clock')
  <2>1. Sorted(cache[w])
    BY DEF CacheInv
  <2>2. ASSUME NEW i \in 1..Len(cache[w])
        PROVE  cache[w][i].stamp <= clock'
    <3>1. cache[w] \in Seq(Entry) /\ cache[w][i].stamp <= clock /\ clock \in 0..MaxClock
      BY DEF CacheInv, NotAfter
    <3>2. cache[w][i] \in Entry
      BY <3>1
    <3>3. cache[w][i].stamp \in 0..MaxClock
      BY <3>2 DEF Entry
    <3> QED
      BY <3>1, <3>3, SessionsAssumption
  <2> QED
    BY <2>1, <2>2 DEF NotAfter
<1> QED
  BY <1>1 DEF CacheInv, Kept

\* One cache changes, to one that has what it should.
LEMMA OneCacheStep ==
    ASSUME CacheInv, clock' = clock, NEW w \in Workers, NEW s \in Seq(Entry),
           Sorted(s), NotAfter(s, clock),
           \A x \in Range(cache[w]) : x \in Range(s) \/ Expired(x, clock),
           cache' = [cache EXCEPT ![w] = s]
    PROVE  Kept
<1>1. cache' \in [Workers -> Seq(Entry)] /\ cache'[w] = s
      /\ \A v \in Workers \ {w} : cache'[v] = cache[v]
  BY DEF CacheInv
<1>2. ASSUME NEW v \in Workers
      PROVE  /\ Sorted(cache'[v]) /\ NotAfter(cache'[v], clock)
             /\ \A x \in Range(cache[v]) : x \in Range(cache'[v]) \/ Expired(x, clock)
  BY <1>1 DEF CacheInv
<1>3. clock \in 0..MaxClock /\ clock <= clock
  BY SessionsAssumption DEF CacheInv
<1> QED
  BY <1>1, <1>2, <1>3 DEF Kept

LEMMA ApplyKeeps ==
    ASSUME CacheInv, NEW h \in handlers, FinishApply(h)
    PROVE  Kept
<1>1. cache' = [cache EXCEPT ![h.on] = CacheAdd(@, h.for[2])] /\ clock' = clock
  BY DEF FinishApply
<1>2. h.for[2] \in Elements
  BY DEF FinishApply, CacheInv, HandlersInv, IsHandler
<1>3. clock \in 0..MaxClock /\ cache \in [Workers -> Seq(Entry)]
  BY DEF CacheInv
<1>4. CASE h.on \in Workers
  <2> DEFINE s == CacheAdd(cache[h.on], h.for[2])
  <2>1. cache[h.on] \in Seq(Entry) /\ Sorted(cache[h.on]) /\ NotAfter(cache[h.on], clock)
    BY <1>4 DEF CacheInv
  <2>2. s \in Seq(Entry) /\ Sorted(s) /\ NotAfter(s, clock)
        /\ Range(cache[h.on]) \subseteq Range(s)
    BY <2>1, <1>2, <1>3, CacheAddKeeps
  <2>3. cache' = [cache EXCEPT ![h.on] = s]
    BY <1>1, <1>3, <1>4
  <2> HIDE DEF s
  <2> QED
    BY <2>2, <2>3, <1>1, <1>4, OneCacheStep
<1>5. CASE h.on \notin Workers
  <2>1. cache' = cache
    BY <1>1, <1>3, <1>5
  <2>2. clock <= clock
    BY <1>3, SessionsAssumption
  <2> QED
    BY <2>1, <2>2, <1>1, <1>3, ClockStep
<1> QED
  BY <1>4, <1>5

LEMMA MaintainKeeps ==
    ASSUME CacheInv, NEW w \in Workers, Maintain(w)
    PROVE  Kept
<1> DEFINE s == Cleaned(cache[w], clock)
<1>1. cache[w] \in Seq(Entry) /\ Sorted(cache[w]) /\ NotAfter(cache[w], clock) /\ clock \in Int
  BY SessionsAssumption DEF CacheInv
<1>2. s \in Seq(Entry) /\ Sorted(s) /\ NotAfter(s, clock)
      /\ \A x \in Range(cache[w]) : x \in Range(s) \/ Expired(x, clock)
  BY <1>1, CleanedKeeps
<1>3. cache' = [cache EXCEPT ![w] = s] /\ clock' = clock
  BY DEF Maintain, CacheInv
<1> HIDE DEF s
<1> QED
  BY <1>2, <1>3, OneCacheStep

LEMMA StepKeeps ==
    ASSUME CacheInv, [Next]_vars
    PROVE  Kept /\ CacheInv'
<1>0. clock \in 0..MaxClock /\ clock <= clock
  BY SessionsAssumption DEF CacheInv
<1>1. ASSUME UNCHANGED <<cache, clock>>
      PROVE  Kept
  BY <1>0, <1>1, ClockStep
<1>2. ASSUME NEW h \in handlers, Step(h)
      PROVE  Kept
  <2>1. CASE FinishApply(h)
    BY <2>1, ApplyKeeps
  <2>2. CASE (\E v \in Workers : AskPeer(h, v)) \/ AskFileServer(h) \/ Assign(h)
    BY <2>2, <1>1 DEF AskPeer, AskFileServer, Assign, cacheVars
  <2>3. CASE EndFetch(h) \/ FinishLoad(h) \/ FinishRecover(h)
    BY <2>3, <1>1 DEF EndFetch, FinishLoad, FinishRecover, cacheVars
  <2> QED
    BY <1>2, <2>1, <2>2, <2>3 DEF Step
<1>3. ASSUME NEW c \in Clients, Register(c) \/ Recover(c)
      PROVE  Kept
  BY <1>1, <1>3 DEF Register, Recover, cacheVars
<1>4. ASSUME NEW w \in Workers, Create(w) \/ Load(w)
      PROVE  Kept
  BY <1>1, <1>4 DEF Create, Load, cacheVars
<1>5. ASSUME GiveUp \/ \E e \in Elements : Type(e)
      PROVE  Kept
  BY <1>1, <1>5 DEF GiveUp, Type, cacheVars
<1>6. ASSUME NEW v \in Workers, NEW w \in Workers, NEW e \in Elements, Send(v, w, e)
      PROVE  Kept
  BY <1>1, <1>6 DEF Send
<1>7. ASSUME NEW w \in Workers, BeginSave(w) \/ EndSave(w) \/ Crash(w)
      PROVE  Kept
  BY <1>1, <1>7 DEF BeginSave, EndSave, Crash, cacheVars
<1>8. ASSUME Tick
      PROVE  Kept
  <2>1. cache' = cache /\ clock' \in 0..MaxClock /\ clock <= clock'
    BY <1>0, <1>8, SessionsAssumption DEF Tick, cacheVars
  <2> QED
    BY <2>1, ClockStep
<1>9. Kept
  BY <1>1, <1>2, <1>3, <1>4, <1>5, <1>6, <1>7, <1>8, MaintainKeeps DEF Next, vars, cacheVars
<1>10. HandlersInv'
  <2>1. CASE Next
    BY <2>1, HandlersStep DEF CacheInv
  <2>2. CASE UNCHANGED vars
    BY <2>2 DEF CacheInv, HandlersInv, IsHandler, vars
  <2> QED
    BY <2>1, <2>2
<1> QED
  BY <1>9, <1>10 DEF Kept, CacheInv

\* The caches are in the order of time.
THEOREM CacheSorted == Spec => []CacheInv
<1>1. Init => CacheInv
  <2> SUFFICES ASSUME Init PROVE CacheInv
    OBVIOUS
  <2>1. clock \in 0..MaxClock /\ cache \in [Workers -> Seq(Entry)]
        /\ \A w \in Workers : cache[w] = << >>
    BY SessionsAssumption DEF Init
  <2>2. Sorted(<< >>) /\ NotAfter(<< >>, clock)
    BY DEF Sorted, NotAfter
  <2>3. HandlersInv
    BY DEF Init, HandlersInv
  <2> QED
    BY <2>1, <2>2, <2>3 DEF CacheInv
<1>2. CacheInv /\ [Next]_vars => CacheInv'
  BY StepKeeps
<1> QED
  BY <1>1, <1>2, PTL DEF Spec

\* No step of any action takes an element that has not expired out of a cache,
\* Cache.clean (cache.go:20-39) included.
THEOREM YoungStayCorrect == Spec => YoungStay
<1> DEFINE Stay == \A w \in Workers : \A x \in Range(cache[w]) :
                       x \in Range(cache'[w]) \/ Expired(x, clock)
<1>1. CacheInv /\ [Next]_vars => [Stay]_vars
  BY StepKeeps DEF Kept
<1> QED
  BY <1>1, CacheSorted, PTL DEF Spec, YoungStay

-----------------------------------------------------------------------------
(***************************************************************************)
(* That a client is sent where its session is: nothing is asked for before *)
(* the load balancer knows the session, at most one handler loads it for   *)
(* the load balancer, and a handler that comes to its end without a        *)
(* failure leaves a session, which nobody takes away.                      *)
(***************************************************************************)
Quiet == ~created => /\ handlers = {} /\ \A c \in Clients : home[c] = NIL
                     /\ \A w \in Workers : flood[w] = {}
Running == \A h \in handlers : h.on \in alive /\ (h.at = "assign" => h.got # NIL)
OneLoad == \A g, h \in handlers : g.kind = "load" /\ h.kind = "load" => g = h
Fetched == failures = 0 => \A h \in handlers : h.at \in {"end", "done"} => session[h.on] # NIL

LInv == TypeOK /\ Quiet /\ Running /\ OneLoad /\ Fetched /\ HandedOutHasSession

\* What a handler is, whatever it has come to.
LEMMA HandlerFields ==
    ASSUME NEW h \in Handler
    PROVE  /\ h.on \in Workers /\ h.left \in SUBSET Workers /\ h.got \in ElementSetOrNil /\ h.at \in Steps
           /\ h.kind \in {"load", "recover"} => h.for \in Clients
           /\ h.kind = "apply" => h.for \in Workers \X Elements
           /\ h.kind \in {"load", "recover", "apply"}
<1>1. CASE h \in Serving
  BY <1>1 DEF Serving
<1>2. CASE h \in Applying
  BY <1>2 DEF Applying
<1> QED
  BY <1>1, <1>2 DEF Handler

LEMMA HandlerMoves ==
    ASSUME NEW h \in Handler
    PROVE  /\ \A a \in Steps :
                 /\ [h EXCEPT !.at = a] \in Handler
                 /\ [h EXCEPT !.at = a].at = a /\ [h EXCEPT !.at = a].on = h.on
                 /\ [h EXCEPT !.at = a].kind = h.kind /\ [h EXCEPT !.at = a].for = h.for
           /\ \A v : LET g == [h EXCEPT !.left = @ \ {v}]
                     IN  g \in Handler /\ g.at = h.at /\ g.on = h.on /\ g.kind = h.kind /\ g.for = h.for /\ g.got = h.got
           /\ \A x \in ElementSetOrNil :
                 LET g == [h EXCEPT !.got = x, !.at = "assign"]
                 IN  g \in Handler /\ g.at = "assign" /\ g.on = h.on /\ g.kind = h.kind /\ g.for = h.for /\ g.got = x
<1>1. CASE h \in Serving
  <2>1. \A a \in Steps : [h EXCEPT !.at = a] \in Serving
    BY <1>1 DEF Serving
  <2>2. \A v : [h EXCEPT !.left = @ \ {v}] \in Serving
    BY <1>1 DEF Serving
  <2>3. \A x \in ElementSetOrNil : [h EXCEPT !.got = x, !.at = "assign"] \in Serving
    BY <1>1 DEF Serving, Steps
  <2>4. /\ \A a : LET g == [h EXCEPT !.at = a] IN g.at = a /\ g.on = h.on /\ g.kind = h.kind /\ g.for = h.for
        /\ \A v : LET g == [h EXCEPT !.left = @ \ {v}]
                  IN  g.at = h.at /\ g.on = h.on /\ g.kind = h.kind /\ g.for = h.for /\ g.got = h.got
        /\ \A x : LET g == [h EXCEPT !.got = x, !.at = "assign"]
                  IN  g.at = "assign" /\ g.on = h.on /\ g.kind = h.kind /\ g.for = h.for /\ g.got = x
    BY <1>1 DEF Serving
  <2> QED
    BY <2>1, <2>2, <2>3, <2>4 DEF Handler
<1>2. CASE h \in Applying
  <2>1. \A a \in Steps : [h EXCEPT !.at = a] \in Applying
    BY <1>2 DEF Applying
  <2>2. \A v : [h EXCEPT !.left = @ \ {v}] \in Applying
    BY <1>2 DEF Applying
  <2>3. \A x \in ElementSetOrNil : [h EXCEPT !.got = x, !.at = "assign"] \in Applying
    BY <1>2 DEF Applying, Steps
  <2>4. /\ \A a : LET g == [h EXCEPT !.at = a] IN g.at = a /\ g.on = h.on /\ g.kind = h.kind /\ g.for = h.for
        /\ \A v : LET g == [h EXCEPT !.left = @ \ {v}]
                  IN  g.at = h.at /\ g.on = h.on /\ g.kind = h.kind /\ g.for = h.for /\ g.got = h.got
        /\ \A x : LET g == [h EXCEPT !.got = x, !.at = "assign"]
                  IN  g.at = "assign" /\ g.on = h.on /\ g.kind = h.kind /\ g.for = h.for /\ g.got = x
    BY <1>2 DEF Applying
  <2> QED
    BY <2>1, <2>2, <2>3, <2>4 DEF Handler
<1> QED
  BY <1>1, <1>2 DEF Handler

\* A step of one handler keeps what all handlers have in common.
LEMMA MoveKeeps ==
    ASSUME LInv, NEW h \in handlers, NEW g \in Handler, Move(h, g),
           g.on = h.on, g.kind = h.kind, g.for = h.for, g.at = "assign" => g.got # NIL,
           failures' \in Nat, failures <= failures', failures \in Nat,
           failures' = 0 /\ g.at \in {"end", "done"} => session'[g.on] # NIL,
           \A w \in Workers : session[w] # NIL => session'[w] # NIL,
           UNCHANGED <<created, home, locked, alive>>
    PROVE  /\ handlers' \subseteq Handler /\ \A x \in handlers' : x.kind = "load" => x.for = locked'
           /\ Running' /\ OneLoad' /\ Fetched' /\ created
<1>1. handlers' = (handlers \ {h}) \cup {g} /\ created /\ handlers \subseteq Handler
  BY DEF Move, LInv, Quiet, TypeOK
<1>2. \A x \in handlers : x.on \in Workers
  BY <1>1, HandlerFields
<1>3. \A x \in handlers' : x.kind = "load" => x.for = locked'
  BY <1>1 DEF LInv, TypeOK
<1>4. Running'
  BY <1>1 DEF LInv, Running
<1>5. OneLoad'
  BY <1>1 DEF LInv, OneLoad
<1>6. Fetched'
  <2>1. failures' = 0 => failures = 0
    OBVIOUS
  <2> QED
    BY <1>1, <1>2, <2>1 DEF LInv, Fetched
<1> QED
  BY <1>1, <1>3, <1>4, <1>5, <1>6

\* Handlers that are over are missed by nobody.
LEMMA FewerHandlers ==
    ASSUME LInv, handlers' \subseteq handlers,
           \A x \in handlers' : x.on \in alive',
           failures' \in Nat, failures <= failures', failures \in Nat,
           \A w \in Workers : session[w] # NIL => session'[w] # NIL
    PROVE  handlers' \subseteq Handler /\ Running' /\ OneLoad' /\ Fetched'
<1>1. handlers' \subseteq Handler /\ \A x \in handlers' : x.on \in Workers
  BY HandlerFields DEF LInv, TypeOK
<1>2. Running' /\ OneLoad'
  BY DEF LInv, Running, OneLoad
<1>3. Fetched'
  <2>1. failures' = 0 => failures = 0
    OBVIOUS
  <2> QED
    BY <1>1, <2>1 DEF LInv, Fetched
<1> QED
  BY <1>1, <1>2, <1>3

\* A new handler.
LEMMA StartKeeps ==
    ASSUME LInv, NEW kind, NEW for, NEW w \in Workers, Start(kind, for, w), w \in alive, created,
           \/ kind = "load" /\ for = locked /\ locked # NIL /\ ~Loading
           \/ kind = "recover" /\ for \in Clients
           \/ kind = "apply" /\ for \in Workers \X Elements,
           UNCHANGED <<session, created, home, locked, alive, failures, flood>>
    PROVE  /\ handlers' \subseteq Handler /\ \A x \in handlers' : x.kind = "load" => x.for = locked'
           /\ pending' \in [Workers -> {"absent", "true", "false"}]
           /\ Quiet' /\ Running' /\ OneLoad' /\ Fetched' /\ HandedOutHasSession'
<1> DEFINE h == [kind |-> kind, for |-> for, on |-> w, left |-> Workers \ {w},
                 at |-> IF session[w] = NIL THEN "peers" ELSE "done", got |-> NIL]
<1>1. handlers' = handlers \cup {h} /\ handlers \subseteq Handler
  BY DEF Start, LInv, TypeOK
<1>2. h \in Handler
  <2>1. /\ (IF session[w] = NIL THEN "peers" ELSE "done") \in Steps
        /\ NIL \in ElementSetOrNil /\ Workers \ {w} \in SUBSET Workers
    BY DEF Steps, ElementSetOrNil
  <2>2. kind \in {"load", "recover"} /\ for \in Clients => h \in Serving
    BY <2>1 DEF Serving
  <2>3. kind = "apply" /\ for \in Workers \X Elements => h \in Applying
    BY <2>1 DEF Applying
  <2>4. locked \in Clients \cup {NIL}
    BY DEF LInv, TypeOK
  <2> QED
    BY <2>2, <2>3, <2>4 DEF Handler
<1>3. /\ h.on = w /\ h.kind = kind /\ h.for = for /\ h.at # "assign"
      /\ h.at \in {"end", "done"} => session[w] # NIL
  OBVIOUS
<1> HIDE DEF h
<1>4. \A x \in handlers' : x.kind = "load" => x.for = locked'
  BY <1>1, <1>3 DEF LInv, TypeOK
<1>5. pending' \in [Workers -> {"absent", "true", "false"}]
  BY DEF Start, LInv, TypeOK
<1>6. Running' /\ Fetched' /\ Quiet'
  BY <1>1, <1>3 DEF LInv, Running, Fetched, Quiet
<1>7. OneLoad'
  BY <1>1, <1>3 DEF LInv, OneLoad, Loading
<1>8. HandedOutHasSession'
  BY DEF LInv, HandedOutHasSession
<1> QED
  BY <1>1, <1>2, <1>4, <1>5, <1>6, <1>7, <1>8

\* addToSession changes a session only into one with more elements.
LEMMA AddKeeps ==
    ASSUME LInv, NEW w \in Workers, NEW els \in SUBSET Elements, AddToSession(w, els)
    PROVE  /\ session' \in [Workers -> ElementSetOrNil] /\ modified' \in [Workers -> ElementSetOrNil]
           /\ flood' \in [Workers -> SUBSET Elements]
           /\ \A x \in Workers : session[x] # NIL => session'[x] # NIL
<1>1. CASE session[w] = NIL \/ els \subseteq session[w]
  BY <1>1 DEF AddToSession, LInv, TypeOK
<1>2. CASE ~(session[w] = NIL \/ els \subseteq session[w])
  <2>1. session[w] \in SUBSET Elements
    BY <1>2 DEF LInv, TypeOK, ElementSetOrNil
  <2>2. session[w] \cup els \in SUBSET Elements /\ session[w] \cup els # NIL /\ els \ session[w] \in SUBSET Elements
    <3>1. session[w] \cup els \in SUBSET Elements /\ els \ session[w] \in SUBSET Elements
      BY <2>1
    <3> QED
      BY <3>1, SessionsAssumption
  <2>0. /\ session \in [Workers -> ElementSetOrNil] /\ modified \in [Workers -> ElementSetOrNil]
        /\ session[w] \cup els \in ElementSetOrNil
    BY <2>2 DEF LInv, TypeOK, ElementSetOrNil
  <2>3. session' = [session EXCEPT ![w] = session[w] \cup els] /\ session' \in [Workers -> ElementSetOrNil]
    <3>1. session' = [session EXCEPT ![w] = session[w] \cup els]
      BY <1>2 DEF AddToSession
    <3> QED
      BY <2>0, <3>1
  <2>4. modified' \in [Workers -> ElementSetOrNil]
    <3>1. modified' = [modified EXCEPT ![w] = session[w] \cup els]
      BY <1>2 DEF AddToSession
    <3> QED
      BY <2>0, <3>1
  <2>5. flood' \in [Workers -> SUBSET Elements]
    <3>1. flood' = [flood EXCEPT ![w] = @ \cup (els \ session[w])] /\ flood \in [Workers -> SUBSET Elements]
      BY <1>2 DEF AddToSession, LInv, TypeOK
    <3>2. flood[w] \cup (els \ session[w]) \in SUBSET Elements
      BY <2>2, <3>1
    <3> QED
      BY <3>1, <3>2
  <2>6. \A x \in Workers : session[x] # NIL => session'[x] # NIL
    BY <2>2, <2>3 DEF LInv, TypeOK
  <2> QED
    BY <2>3, <2>4, <2>5, <2>6
<1> QED
  BY <1>1, <1>2

LEMMA FailCounts ==
    ASSUME LInv
    PROVE  /\ failures \in Nat /\ failures \in 0..MaxFailures
           /\ (Fail \/ UNCHANGED failures) => failures' \in 0..MaxFailures /\ failures' \in Nat /\ failures <= failures'
           /\ Fail => failures' # 0
<1>1. failures \in 0..MaxFailures /\ MaxFailures \in Nat
  BY SessionsAssumption DEF LInv, TypeOK
<1> QED
  BY <1>1 DEF Fail

\* What a client has been given stays good when sessions do.
LEMMA HomesStay ==
    ASSUME LInv, home' = home, alive' \subseteq alive, failures \in Nat, failures' \in Nat, failures <= failures',
           \A w \in Workers : session[w] # NIL => session'[w] # NIL
    PROVE  HandedOutHasSession'
<1>1. failures' = 0 => failures = 0
  OBVIOUS
<1>2. alive \subseteq Workers
  BY DEF LInv, TypeOK
<1> QED
  BY <1>1, <1>2 DEF LInv, HandedOutHasSession

LEMMA NextLInv == LInv /\ CacheInv /\ [Next]_vars => LInv'
<1> SUFFICES ASSUME LInv, CacheInv, [Next]_vars PROVE LInv'
  OBVIOUS
<1>0. /\ clock' \in 0..MaxClock /\ cache' \in [Workers -> Seq(Entry)]
  BY StepKeeps DEF CacheInv
<1>t. /\ session \in [Workers -> ElementSetOrNil] /\ modified \in [Workers -> ElementSetOrNil]
      /\ saving \in [Workers -> BOOLEAN] /\ file \in ElementSetOrNil
      /\ flood \in [Workers -> SUBSET Elements]
      /\ sent \subseteq Workers \X Workers \X Elements
      /\ pending \in [Workers -> {"absent", "true", "false"}]
      /\ handlers \subseteq Handler
      /\ created \in BOOLEAN /\ locked \in Clients \cup {NIL}
      /\ home \in [Clients -> Workers \cup {NIL}]
      /\ alive \subseteq Workers /\ failures \in 0..MaxFailures
      /\ \A h \in handlers : h.kind = "load" => h.for = locked
  BY DEF LInv, TypeOK
<1>f. /\ failures \in Nat /\ failures <= failures
      /\ (Fail \/ UNCHANGED failures) => failures' \in 0..MaxFailures /\ failures' \in Nat /\ failures <= failures'
      /\ Fail => failures' # 0
  BY FailCounts
\* Steps that leave the handlers and what the load balancer knows.
<1>r. ASSUME UNCHANGED <<handlers, created, home, alive, failures>>,
             locked' = locked \/ (locked' \in Clients \cup {NIL} /\ ~Loading),
             session' \in [Workers -> ElementSetOrNil], modified' \in [Workers -> ElementSetOrNil],
             saving' \in [Workers -> BOOLEAN], file' \in ElementSetOrNil,
             flood' \in [Workers -> SUBSET Elements],
             created \/ flood' = flood, sent' = sent, pending' = pending,
             \A w \in Workers : session[w] # NIL => session'[w] # NIL
      PROVE  LInv'
  <2>1. \A h \in handlers' : h.kind = "load" => h.for = locked'
    BY <1>r, <1>t DEF Loading
  <2>2. TypeOK'
    BY <1>0, <1>r, <1>t, <2>1 DEF TypeOK
  <2>3. Quiet'
    BY <1>r DEF LInv, Quiet
  <2>4. Running' /\ OneLoad' /\ Fetched'
    BY <1>r, <1>f, FewerHandlers DEF LInv, Running
  <2>5. HandedOutHasSession'
    BY <1>r, <1>f, HomesStay
  <2> QED
    BY <2>2, <2>3, <2>4, <2>5 DEF LInv
<1>m. ASSUME NEW h \in handlers, NEW g \in Handler, Move(h, g),
             g.on = h.on, g.kind = h.kind, g.for = h.for, g.at = "assign" => g.got # NIL,
             Fail \/ UNCHANGED failures,
             failures' = 0 /\ g.at \in {"end", "done"} => session'[g.on] # NIL,
             \A w \in Workers : session[w] # NIL => session'[w] # NIL,
             UNCHANGED <<created, home, locked, alive, saving, file, sent>>,
             session' \in [Workers -> ElementSetOrNil], modified' \in [Workers -> ElementSetOrNil],
             flood' \in [Workers -> SUBSET Elements],
             pending' \in [Workers -> {"absent", "true", "false"}]
      PROVE  LInv'
  <2>1. /\ handlers' \subseteq Handler /\ \A x \in handlers' : x.kind = "load" => x.for = locked'
        /\ Running' /\ OneLoad' /\ Fetched' /\ created
    BY <1>m, <1>f, MoveKeeps
  <2>2. TypeOK'
    BY <1>0, <1>f, <1>m, <1>t, <2>1 DEF TypeOK
  <2>3. Quiet'
    BY <1>m, <2>1 DEF Quiet
  <2>4. HandedOutHasSession'
    BY <1>m, <1>f, HomesStay
  <2> QED
    BY <2>1, <2>2, <2>3, <2>4 DEF LInv
\* The end of a worker, or of a handler that has panicked.
<1>e. ASSUME NEW w \in Workers,
             End(w) \/ (handlers' \subseteq handlers /\ UNCHANGED alive), Fail \/ UNCHANGED failures,
             UNCHANGED <<dataVars, pending, created, home, locked>>
      PROVE  LInv'
  <2>1. /\ handlers' \subseteq handlers /\ alive' \subseteq alive
        /\ \A x \in handlers' : x.on \in alive'
    BY <1>e DEF End, LInv, Running
  <2>2. UNCHANGED <<session, modified, saving, flood, sent, file>>
    BY <1>e DEF dataVars
  <2>3. handlers' \subseteq Handler /\ Running' /\ OneLoad' /\ Fetched'
    BY <1>e, <1>f, <2>1, <2>2, FewerHandlers
  <2>4. TypeOK'
    BY <1>0, <1>e, <1>f, <1>t, <2>1, <2>2, <2>3 DEF TypeOK
  <2>5. Quiet'
    BY <1>e, <2>1, <2>2 DEF LInv, Quiet
  <2>6. HandedOutHasSession'
    BY <1>e, <1>f, <2>1, <2>2, HomesStay
  <2> QED
    BY <2>3, <2>4, <2>5, <2>6 DEF LInv
\* A handler that is over.
<1>o. ASSUME NEW h \in handlers, handlers' = handlers \ {h},
             UNCHANGED <<created, alive, failures, saving, file, sent, pending>>,
             \/ UNCHANGED <<home, locked>>
             \/ h.kind = "load" /\ h.at = "done" /\ home' = [home EXCEPT ![h.for] = h.on] /\ locked' = NIL,
             session' \in [Workers -> ElementSetOrNil], modified' \in [Workers -> ElementSetOrNil],
             flood' \in [Workers -> SUBSET Elements],
             \A w \in Workers : session[w] # NIL => session'[w] # NIL
      PROVE  LInv'
  <2>1. h \in Handler /\ h.on \in Workers /\ created
    BY <1>t, HandlerFields DEF LInv, Quiet
  <2>2. handlers' \subseteq Handler /\ Running' /\ OneLoad' /\ Fetched'
    BY <1>o, <1>f, FewerHandlers DEF LInv, Running
  <2>3. \A x \in handlers' : x.kind = "load" => x.for = locked'
    BY <1>o, <1>t DEF LInv, OneLoad
  <2>4. home' \in [Clients -> Workers \cup {NIL}] /\ locked' \in Clients \cup {NIL}
    BY <1>o, <1>t, <2>1
  <2>5. TypeOK'
    BY <1>0, <1>o, <1>t, <2>2, <2>3, <2>4 DEF TypeOK
  <2>6. Quiet'
    BY <1>o, <2>1 DEF Quiet
  <2>7. HandedOutHasSession'
    <3>1. CASE home' = home
      BY <1>o, <1>f, <3>1, HomesStay
    <3>2. CASE h.kind = "load" /\ h.at = "done" /\ home' = [home EXCEPT ![h.for] = h.on]
      <4>1. failures = 0 => session'[h.on] # NIL
        BY <1>o, <2>1, <3>2 DEF LInv, Fetched
      <4>2. \A c \in Clients : home'[c] = home[c] \/ home'[c] = h.on
        BY <3>2, <1>t
      <4> QED
        BY <1>o, <1>t, <4>1, <4>2 DEF LInv, HandedOutHasSession
    <3> QED
      BY <1>o, <3>1, <3>2
  <2> QED
    BY <2>2, <2>5, <2>6, <2>7 DEF LInv
\* A handler that begins.
<1>n. ASSUME NEW kind, NEW for, NEW w \in Workers, Start(kind, for, w), w \in alive, created,
             \/ kind = "load" /\ for = locked /\ locked # NIL /\ ~Loading
             \/ kind = "recover" /\ for \in Clients
             \/ kind = "apply" /\ for \in Workers \X Elements,
             UNCHANGED <<session, modified, saving, flood, file, created, home, locked, alive, failures>>,
             sent' \subseteq Workers \X Workers \X Elements
      PROVE  LInv'
  <2>1. /\ handlers' \subseteq Handler /\ \A x \in handlers' : x.kind = "load" => x.for = locked'
        /\ pending' \in [Workers -> {"absent", "true", "false"}]
        /\ Quiet' /\ Running' /\ OneLoad' /\ Fetched' /\ HandedOutHasSession'
    BY <1>n, StartKeeps
  <2>2. TypeOK'
    BY <1>0, <1>n, <1>t, <2>1 DEF TypeOK
  <2> QED
    BY <2>1, <2>2 DEF LInv
<1>h. \A h \in handlers : h \in Handler /\ h.on \in Workers /\ h.got \in ElementSetOrNil
  BY <1>t, HandlerFields
<1>1. CASE UNCHANGED vars
  BY <1>1, <1>r, <1>t DEF vars, dataVars, cacheVars, lbVars
<1>2. ASSUME NEW h \in handlers, NEW v \in Workers, AskPeer(h, v) PROVE LInv'
  <2>0. UNCHANGED <<session, modified, saving, flood, sent, file, pending, created, locked, home, alive>>
    BY <1>2 DEF AskPeer, dataVars, cacheVars, lbVars
  <2>1. CASE /\ session[v] # NIL
             /\ Move(h, [h EXCEPT !.got = session[v], !.at = "assign"])
             /\ UNCHANGED failures
    <3> DEFINE g == [h EXCEPT !.got = session[v], !.at = "assign"]
    <3>1. g \in Handler /\ g.at = "assign" /\ g.on = h.on /\ g.kind = h.kind /\ g.for = h.for /\ g.got = session[v]
      <4>1. session[v] \in ElementSetOrNil /\ h \in Handler
        BY <1>h, <1>t
      <4> QED
        BY <4>1, HandlerMoves
    <3> HIDE DEF g
    <3>2. Move(h, g)
      BY <2>1 DEF g
    <3>3. g.at \notin {"end", "done"} /\ g.got # NIL
      BY <2>1, <3>1
    <3> QED
      BY <1>m, <1>t, <2>0, <2>1, <3>1, <3>2, <3>3
  <2>2. CASE /\ Fail \/ UNCHANGED failures
             /\ Move(h, [h EXCEPT !.left = @ \ {v}])
    <3> DEFINE g == [h EXCEPT !.left = @ \ {v}]
    <3>1. g \in Handler /\ g.at = h.at /\ g.on = h.on /\ g.kind = h.kind /\ g.for = h.for
      BY <1>h, <1>t, HandlerMoves
    <3> HIDE DEF g
    <3>2. Move(h, g) /\ g.at = "peers"
      BY <1>2, <2>2, <3>1 DEF g, AskPeer
    <3> QED
      BY <1>m, <1>t, <2>0, <2>2, <3>1, <3>2
  <2> QED
    BY <1>2, <2>1, <2>2 DEF AskPeer
<1>3. ASSUME NEW h \in handlers, AskFileServer(h) PROVE LInv'
  <2>0. UNCHANGED <<session, modified, saving, flood, sent, file, pending, created, locked, home>>
    BY <1>3 DEF AskFileServer, dataVars, cacheVars, lbVars
  <2>1. CASE /\ session[h.on] # NIL \/ Fail
             /\ Move(h, [h EXCEPT !.at = "end"])
             /\ UNCHANGED failures \/ Fail
             /\ UNCHANGED alive
    <3> DEFINE g == [h EXCEPT !.at = "end"]
    <3>1. g \in Handler /\ g.at = "end" /\ g.on = h.on /\ g.kind = h.kind /\ g.for = h.for
      BY <1>h, HandlerMoves DEF Steps
    <3> HIDE DEF g
    <3>2. Move(h, g)
      BY <2>1 DEF g
    <3> QED
      BY <1>m, <1>f, <1>t, <2>0, <2>1, <3>1, <3>2
  <2>2. CASE /\ file # NIL
             /\ Move(h, [h EXCEPT !.got = file, !.at = "assign"])
             /\ UNCHANGED <<alive, failures>>
    <3> DEFINE g == [h EXCEPT !.got = file, !.at = "assign"]
    <3>1. g \in Handler /\ g.at = "assign" /\ g.on = h.on /\ g.kind = h.kind /\ g.for = h.for /\ g.got = file
      <4>1. file \in ElementSetOrNil /\ h \in Handler
        BY <1>h, <1>t
      <4> QED
        BY <4>1, HandlerMoves
    <3> HIDE DEF g
    <3>2. Move(h, g)
      BY <2>2 DEF g
    <3> QED
      BY <1>m, <1>t, <2>0, <2>2, <3>1, <3>2
  <2>3. CASE (End(h.on) \/ (handlers' = handlers \ {h} /\ UNCHANGED alive)) /\ (UNCHANGED failures \/ Fail)
    <3>1. h.on \in Workers /\ (End(h.on) \/ (handlers' \subseteq handlers /\ UNCHANGED alive))
      BY <1>h, <2>3
    <3> QED
      BY <1>e, <2>0, <2>3, <3>1 DEF dataVars
  <2> QED
    BY <1>3, <2>1, <2>2, <2>3 DEF AskFileServer
<1>4. ASSUME NEW h \in handlers, Assign(h) PROVE LInv'
  <2> DEFINE g == [h EXCEPT !.at = "done"]
  <2>0. UNCHANGED <<modified, saving, flood, sent, file, pending, created, locked, home, alive, failures>>
    BY <1>4 DEF Assign, cacheVars, lbVars
  <2>1. g \in Handler /\ g.at = "done" /\ g.on = h.on /\ g.kind = h.kind /\ g.for = h.for
    BY <1>h, HandlerMoves DEF Steps
  <2>2. h.got # NIL
    BY <1>4 DEF Assign, LInv, Running
  <2> HIDE DEF g
  <2>3. Move(h, g) /\ session' = [session EXCEPT ![h.on] = h.got]
    BY <1>4 DEF Assign, g
  <2>4. session' \in [Workers -> ElementSetOrNil] /\ session'[h.on] # NIL
        /\ \A w \in Workers : session[w] # NIL => session'[w] # NIL
    BY <1>h, <1>t, <2>2, <2>3
  <2> QED
    BY <1>m, <1>t, <2>0, <2>1, <2>3, <2>4
<1>c. \A w \in Workers : {x.el : x \in Range(cache[w])} \in SUBSET Elements
  <2>1. ASSUME NEW w \in Workers, NEW x \in Range(cache[w]) PROVE x.el \in Elements
    <3>1. cache[w] \in Seq(Entry)
      BY DEF CacheInv
    <3>2. x \in Entry
      BY <3>1 DEF Range
    <3> QED
      BY <3>2 DEF Entry
  <2> QED
    BY <2>1
<1>5. ASSUME NEW h \in handlers, EndFetch(h) PROVE LInv'
  <2> DEFINE g == [h EXCEPT !.at = "done"]
  <2>0. UNCHANGED <<saving, sent, file, created, locked, home, alive, failures>>
        /\ pending' \in [Workers -> {"absent", "true", "false"}]
    BY <1>5, <1>t DEF EndFetch, lbVars
  <2>1. g \in Handler /\ g.at = "done" /\ g.on = h.on /\ g.kind = h.kind /\ g.for = h.for
    BY <1>h, HandlerMoves DEF Steps
  <2>2. failures = 0 => session[h.on] # NIL
    BY <1>5 DEF EndFetch, LInv, Fetched
  <2> HIDE DEF g
  <2>3. Move(h, g) /\ AddToSession(h.on, {x.el : x \in Range(cache[h.on])})
    BY <1>5 DEF EndFetch, g
  <2>4. /\ session' \in [Workers -> ElementSetOrNil] /\ modified' \in [Workers -> ElementSetOrNil]
        /\ flood' \in [Workers -> SUBSET Elements]
        /\ \A x \in Workers : session[x] # NIL => session'[x] # NIL
    BY <1>c, <1>h, <2>3, AddKeeps
  <2> QED
    BY <1>h, <1>m, <2>0, <2>1, <2>2, <2>3, <2>4
<1>6. ASSUME NEW h \in handlers, FinishApply(h) PROVE LInv'
  <2>1. h.for[2] \in Elements
    BY <1>6, <1>h, HandlerFields DEF FinishApply
  <2>2. /\ session' \in [Workers -> ElementSetOrNil] /\ modified' \in [Workers -> ElementSetOrNil]
        /\ flood' \in [Workers -> SUBSET Elements]
        /\ \A x \in Workers : session[x] # NIL => session'[x] # NIL
    <3>1. {h.for[2]} \in SUBSET Elements
      BY <2>1
    <3> QED
      BY <1>6, <1>h, <3>1, AddKeeps DEF FinishApply
  <2> QED
    BY <1>6, <1>o, <2>2 DEF FinishApply, lbVars
<1>7. ASSUME NEW h \in handlers, FinishLoad(h) \/ FinishRecover(h) PROVE LInv'
  BY <1>7, <1>o, <1>t DEF FinishLoad, FinishRecover, dataVars, cacheVars, lbVars
<1>8. ASSUME NEW c \in Clients, Register(c) PROVE LInv'
  <2>1. ~Loading
    <3>1. \A h \in handlers : h.kind # "load"
      BY <1>8, <1>t, HandlerFields, SessionsAssumption DEF Register
    <3> QED
      BY <3>1 DEF Loading
  <2> QED
    BY <1>8, <1>r, <1>t, <2>1 DEF Register, dataVars, cacheVars
<1>d. \A c \in Clients : home[c] \in alive => created /\ home[c] \in Workers
  BY <1>t, SessionsAssumption DEF LInv, Quiet
<1>9. ASSUME NEW c \in Clients, Recover(c) PROVE LInv'
  BY <1>9, <1>d, <1>n, <1>t DEF Recover, dataVars, lbVars
<1>10. ASSUME NEW w \in Workers, Create(w) PROVE LInv'
  <2>1. /\ UNCHANGED <<modified, saving, flood, sent, pending>> /\ created' = TRUE /\ handlers = {}
        /\ locked \in Clients /\ w \in alive
    BY <1>10, <1>t DEF Create, cacheVars, LInv, Quiet
  <2>2. {} \in ElementSetOrNil /\ {} # NIL
    BY SessionsAssumption DEF ElementSetOrNil
  <2>3. CASE /\ session' = [session EXCEPT ![w] = {}]
             /\ \/ file' = {} /\ UNCHANGED failures
                \/ Fail /\ UNCHANGED file
             /\ home' = [home EXCEPT ![locked] = w]
             /\ locked' = NIL
             /\ UNCHANGED <<handlers, alive>>
    <3>1. session' \in [Workers -> ElementSetOrNil] /\ file' \in ElementSetOrNil /\ session'[w] # NIL
          /\ \A x \in Workers : session[x] # NIL => session'[x] # NIL
      BY <1>t, <2>2, <2>3
    <3>2. home' \in [Clients -> Workers \cup {NIL}] /\ \A c \in Clients : home'[c] = home[c] \/ home'[c] = w
      BY <1>t, <2>1, <2>3
    <3>3. TypeOK'
      BY <1>0, <1>f, <1>t, <2>1, <2>3, <3>1, <3>2 DEF TypeOK
    <3>4. Quiet' /\ Running' /\ OneLoad' /\ Fetched'
      BY <2>1, <2>3 DEF Quiet, Running, OneLoad, Fetched
    <3>5. HandedOutHasSession'
      <4>1. failures' = 0 => failures = 0
        BY <1>f, <2>3
      <4> QED
        BY <1>t, <2>3, <3>1, <3>2, <4>1 DEF LInv, HandedOutHasSession
    <3> QED
      BY <3>3, <3>4, <3>5 DEF LInv
  <2>4. CASE Fail /\ End(w) /\ UNCHANGED <<session, file, home, locked>>
    <3>1. handlers' = {} /\ alive' \subseteq alive
      BY <2>1, <2>4 DEF End
    <3>2. TypeOK'
      BY <1>0, <1>f, <1>t, <2>1, <2>4, <3>1 DEF TypeOK
    <3>3. Quiet' /\ Running' /\ OneLoad' /\ Fetched'
      BY <2>1, <3>1 DEF Quiet, Running, OneLoad, Fetched
    <3>4. HandedOutHasSession'
      BY <1>f, <2>4, <3>1, HomesStay
    <3> QED
      BY <3>2, <3>3, <3>4 DEF LInv
  <2> QED
    BY <1>10, <2>3, <2>4 DEF Create
<1>11. ASSUME NEW w \in Workers, Load(w) PROVE LInv'
  BY <1>11, <1>n, <1>t DEF Load, dataVars, lbVars
<1>12. CASE GiveUp
  <2>1. ~Loading
    BY <1>12 DEF GiveUp, Loading, LInv, Running
  <2> QED
    BY <1>12, <1>r, <1>t, <2>1 DEF GiveUp, dataVars, cacheVars
<1>13. ASSUME NEW e \in Elements, Type(e) PROVE LInv'
  <2> DEFINE w == home[Author[e]]
  <2>1. w \in Workers /\ created
    BY <1>13, <1>d, SessionsAssumption DEF Type
  <2> HIDE DEF w
  <2>2. /\ session' \in [Workers -> ElementSetOrNil] /\ modified' \in [Workers -> ElementSetOrNil]
        /\ flood' \in [Workers -> SUBSET Elements]
        /\ \A x \in Workers : session[x] # NIL => session'[x] # NIL
    <3>1. CASE flood' = [flood EXCEPT ![w] = @ \cup {e}] /\ UNCHANGED <<session, modified>>
      BY <1>t, <2>1, <3>1
    <3>2. CASE AddToSession(w, {e})
      <4>1. {e} \in SUBSET Elements
        OBVIOUS
      <4> QED
        BY <2>1, <3>2, <4>1, AddKeeps
    <3> QED
      BY <1>13, <3>1, <3>2 DEF Type, w
  <2> QED
    BY <1>13, <1>r, <1>t, <2>1, <2>2 DEF Type, cacheVars, lbVars
<1>14. ASSUME NEW v \in Workers, NEW w \in Workers, NEW e \in Elements, Send(v, w, e) PROVE LInv'
  <2>1. created
    BY <1>14 DEF Send, LInv, Quiet
  <2>2. sent' \subseteq Workers \X Workers \X Elements
    BY <1>14, <1>t DEF Send
  <2> QED
    BY <1>14, <1>n, <2>1, <2>2 DEF Send, lbVars
<1>15. ASSUME NEW w \in Workers, BeginSave(w) PROVE LInv'
  <2>0. UNCHANGED <<session, modified, flood, sent, pending, handlers, created, locked, home, alive>>
    BY <1>15 DEF BeginSave, cacheVars, lbVars
  <2>1. file' \in ElementSetOrNil /\ saving' \in [Workers -> BOOLEAN] /\ (Fail \/ UNCHANGED failures)
    <3>1. CASE file' = modified[w] /\ saving' = [saving EXCEPT ![w] = TRUE] /\ UNCHANGED failures
      <4>1. modified[w] \in ElementSetOrNil
        BY <1>t
      <4> QED
        BY <1>t, <3>1, <4>1
    <3>2. CASE Fail /\ UNCHANGED <<file, saving>>
      BY <1>t, <3>2
    <3> QED
      BY <1>15, <3>1, <3>2 DEF BeginSave
  <2>2. TypeOK'
    BY <1>0, <1>f, <1>t, <2>0, <2>1 DEF TypeOK
  <2>3. Quiet'
    BY <2>0 DEF LInv, Quiet
  <2>4. Running' /\ OneLoad' /\ Fetched'
    BY <1>f, <2>0, <2>1, FewerHandlers DEF LInv, Running
  <2>5. HandedOutHasSession'
    BY <1>f, <2>0, <2>1, HomesStay
  <2> QED
    BY <2>2, <2>3, <2>4, <2>5 DEF LInv
<1>16. ASSUME NEW w \in Workers, EndSave(w) \/ Maintain(w) PROVE LInv'
  <2>1. CASE EndSave(w)
    <3>1. modified' \in [Workers -> ElementSetOrNil] /\ saving' \in [Workers -> BOOLEAN]
      BY <1>t, <2>1 DEF EndSave, ElementSetOrNil
    <3> QED
      BY <1>r, <1>t, <2>1, <3>1 DEF EndSave, cacheVars, lbVars
  <2>2. CASE Maintain(w)
    BY <1>r, <1>t, <2>2 DEF Maintain, dataVars, lbVars
  <2> QED
    BY <1>16, <2>1, <2>2
<1>17. ASSUME NEW w \in Workers, Crash(w) PROVE LInv'
  BY <1>17, <1>e DEF Crash, cacheVars, lbVars
<1>18. CASE Tick
  BY <1>18, <1>r, <1>t DEF Tick, dataVars, cacheVars, lbVars
<1> QED
  BY <1>1, <1>2, <1>3, <1>4, <1>5, <1>6, <1>7, <1>8, <1>9, <1>10, <1>11, <1>12, <1>13, <1>14,
     <1>15, <1>16, <1>17, <1>18 DEF Next, Step

LEMMA InitLInv == Init => LInv
<1> SUFFICES ASSUME Init PROVE LInv
  OBVIOUS
<1>1. TypeOK
  <2>1. NIL \in ElementSetOrNil /\ 0 \in 0..MaxClock /\ 0 \in 0..MaxFailures /\ <<>> \in Seq(Entry)
    BY SessionsAssumption DEF ElementSetOrNil
  <2> QED
    BY <2>1 DEF Init, TypeOK
<1>2. Quiet /\ Running /\ OneLoad /\ Fetched
  BY DEF Init, Quiet, Running, OneLoad, Fetched
<1>3. HandedOutHasSession
  BY SessionsAssumption DEF Init, HandedOutHasSession
<1> QED
  BY <1>1, <1>2, <1>3 DEF LInv

\* Types, and that unless something fails RegisterNewClient sends a client to a
\* worker that has the session, whoever fetches it at the same time.
THEOREM LoadCorrect == Spec => []LoadInv
<1>1. LInv => LoadInv
  BY DEF LInv, LoadInv
<1>2. LInv /\ CacheInv /\ [Next]_vars => LInv'
  BY NextLInv
<1> QED
  BY <1>1, <1>2, InitLInv, CacheSorted, PTL DEF Spec
=============================================================================
