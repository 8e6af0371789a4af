------------------------------ MODULE WorkerMesh ------------------------------
(***************************************************************************)
(* The mesh of workers (worker/worker.go).  A worker applies what its      *)
(* clients type, keeps it in localElements for the next round of           *)
(* sendLocalElements, and in elementsToAck until a round has reached       *)
(* MinNumWorkerConnections other workers; only then the client is told.  A *)
(* worker that receives an element it did not have floods it in turn.      *)
(*                                                                         *)
(* All elements belong to one session, which every worker has loaded, and  *)
(* fit into one chunk.  Where an element stands in the list is the subject *)
(* of Session; here it matters only which elements a worker has, and that  *)
(* the worker dies of an element whose PrevID it does not have.  Appending *)
(* to a slice is one step: the updates that goroutines can lose by doing   *)
(* it at the same time are left out.  got and recounted are not in the     *)
(* code: they keep apart the workers that it counts (numSuccess).          *)
(***************************************************************************)
EXTENDS Integers, FiniteSets, SequencesExt

CONSTANTS
    Workers,
    Clients,
    Elements,
    NIL,
    Home,           \* the worker each client is connected to
    Author,         \* the client that types each element
    PrevOf,         \* the element it is typed behind
    MinNumWorkerConnections,
    Senders,        \* bound: the workers that start rounds
    MaxBreaks,      \* bound: connections that break
    MaxMissed,      \* bound: attempts to dial a worker that fail though it runs
    MaxCrashes,     \* bound: workers that end by themselves
    MaxLeaves       \* bound: clients that go away

ASSUME MeshAssumption ==
    /\ IsFiniteSet(Workers)
    /\ Home \in [Clients -> Workers] /\ Author \in [Elements -> Clients]
    /\ NIL \notin Elements /\ PrevOf \in [Elements -> Elements \cup {NIL}]
    /\ MinNumWorkerConnections \in Nat /\ Senders \subseteq Workers
    /\ {MaxBreaks, MaxMissed, MaxCrashes, MaxLeaves} \subseteq Nat

VARIABLES
    session,    \* the elements in each worker's copy of the session
    local,      \* localElements
    toAck,      \* elementsToAck
    handling,   \* elements that onElement has applied but not yet put there
    link,       \* workers: the connection object to each peer
    round,      \* where each worker's sendLocalElements stands
    calls,      \* the calls of ApplyIncomingElements
    alive,      \* the workers that run
    online,     \* the clients whose websocket is open
    acked,      \* the elements their clients have been told of
    recounted,  \* those of them for which a worker was counted twice
    faults      \* how many of each of the bounded events have happened

dataVars == <<session, local, toAck, handling, acked, recounted>>
vars == <<dataVars, link, round, calls, alive, online, faults>>

HomeOf(e) == Home[Author[e]]
Peers(v) == {w \in Workers : link[v][w] # "none"}
Reaches(v, w) == w \in alive /\ link[v][w] = "live"

Idle == [at |-> "idle", locals |-> 0, acks |-> 0, queue |-> <<>>, first |-> {}, seen |-> {},
         success |-> 0, got |-> {}]
Round == [at : {"idle", "loop", "calling"}, locals : Nat, acks : Nat, queue : Seq(Elements),
          first : SUBSET Workers, seen : SUBSET Workers, success : Nat, got : SUBSET Workers]
Call == [from : Workers, to : Workers, rest : Seq(Elements), live : BOOLEAN]
Faults == [breaks : 0..MaxBreaks, missed : 0..MaxMissed, crashes : 0..MaxCrashes, leaves : 0..MaxLeaves]

Init ==
    /\ session = [w \in Workers |-> {}]
    /\ local = [w \in Workers |-> <<>>]
    /\ toAck = [w \in Workers |-> <<>>]
    /\ handling = {} /\ acked = {} /\ recounted = {} /\ calls = {}
    /\ link = [v \in Workers |-> [w \in Workers |-> IF v = w THEN "none" ELSE "live"]]
    /\ round = [w \in Workers |-> Idle]
    /\ alive = Workers /\ online = Clients
    /\ faults = [breaks |-> 0, missed |-> 0, crashes |-> 0, leaves |-> 0]

(***************************************************************************)
(* Elements reach a worker.                                                *)
(***************************************************************************)

\* addToSession of an element the worker can place and does not have.
Add(w, e) ==
    /\ session' = [session EXCEPT ![w] = @ \cup {e}]
    /\ local' = [local EXCEPT ![w] = Append(@, e)]

\* onElement: a client types behind an element it has from its worker.
Handle(e) ==
    /\ HomeOf(e) \in alive /\ Author[e] \in online
    /\ e \notin session[HomeOf(e)]
    /\ PrevOf[e] \in session[HomeOf(e)] \cup {NIL}
    /\ \A d \in handling : Author[d] # Author[e]
    /\ Add(HomeOf(e), e)
    /\ handling' = handling \cup {e}
    /\ UNCHANGED <<toAck, acked, recounted, link, round, calls, alive, online, faults>>

\* ... and after the broadcast puts the element behind those to acknowledge.
QueueAck(e) ==
    /\ e \in handling /\ HomeOf(e) \in alive
    /\ handling' = handling \ {e}
    /\ toAck' = [toAck EXCEPT ![HomeOf(e)] = Append(@, e)]
    /\ UNCHANGED <<session, local, acked, recounted, link, round, calls, alive, online, faults>>

\* The process of w is gone; whoever waits for an answer from it gets an
\* error.  The calls it has made itself are still served.
End(w) ==
    /\ alive' = alive \ {w}
    /\ calls' = {IF c.from = w THEN [c EXCEPT !.live = FALSE] ELSE c :
                    c \in {d \in calls : d.to # w}}
    /\ round' = [v \in Workers |->
                    IF v = w THEN Idle
                    ELSE IF \E c \in calls : c.from = v /\ c.to = w /\ c.live
                    THEN [round[v] EXCEPT !.at = "loop"] ELSE round[v]]
    /\ handling' = {e \in handling : HomeOf(e) # w}

\* Faulty Apply: what another worker has sent is not sent on.
ApplyUnflooded(c) ==
    /\ c \in calls /\ c.rest # <<>>
    /\ Head(c.rest) \in session[c.to] \/ PrevOf[Head(c.rest)] \in session[c.to] \cup {NIL}
    /\ session' = [session EXCEPT ![c.to] = @ \cup {Head(c.rest)}]
    /\ calls' = (calls \ {c}) \cup {[c EXCEPT !.rest = Tail(@)]}
    /\ UNCHANGED <<local, handling, round, alive, toAck, acked, recounted, link, online, faults>>

\* ApplyIncomingElements takes the next element: it places it, skips it when
\* it has it already, or Session.Add dereferences nil.
Apply(c) ==
    /\ c \in calls /\ c.rest # <<>>
    /\ LET w == c.to  e == Head(c.rest) IN
       \/ /\ e \in session[w] \/ PrevOf[e] \in session[w] \cup {NIL}
          /\ IF e \in session[w] THEN UNCHANGED <<session, local>> ELSE Add(w, e)
          /\ calls' = (calls \ {c}) \cup {[c EXCEPT !.rest = Tail(@)]}
          /\ UNCHANGED <<handling, round, alive>>
       \/ /\ e \notin session[w] /\ PrevOf[e] \notin session[w] \cup {NIL}
          /\ End(w)
          /\ UNCHANGED <<session, local>>
    /\ UNCHANGED <<toAck, acked, recounted, link, online, faults>>

(***************************************************************************)
(* One round of sendLocalElements.                                         *)
(***************************************************************************)

\* What is there is counted and collected to be sent.  (The lengths are taken
\* first: an element that comes in between is sent now and again next time.)
Collect(v) ==
    /\ v \in alive \cap Senders /\ round[v].at = "idle"
    /\ local[v] # <<>> \/ toAck[v] # <<>>
    /\ round' = [round EXCEPT ![v] =
           [at |-> "loop", locals |-> Len(local[v]), acks |-> Len(toAck[v]),
            queue |-> local[v] \o toAck[v], first |-> Peers(v), seen |-> {}, success |-> 0,
            got |-> {}]]
    /\ UNCHANGED <<dataVars, link, calls, alive, online, faults>>

\* The next peer answers the ping and is sent the elements.
Visit(v, w) ==
    /\ v \in alive /\ round[v].at = "loop"
    /\ w \in Peers(v) \ round[v].seen /\ Reaches(v, w)
    /\ round' = [round EXCEPT ![v].at = "calling", ![v].seen = @ \cup {w}]
    /\ calls' = calls \cup {[from |-> v, to |-> w, rest |-> round[v].queue, live |-> TRUE]}
    /\ UNCHANGED <<dataVars, link, alive, online, faults>>

Reply(c) ==
    /\ c \in calls /\ c.rest = <<>>
    /\ calls' = calls \ {c}
    /\ round' = IF c.live
                THEN [round EXCEPT ![c.from].at = "loop", ![c.from].success = @ + 1,
                                   ![c.from].got = @ \cup {c.to}]
                ELSE round
    /\ UNCHANGED <<dataVars, link, alive, online, faults>>

\* GetNodes of the load balancer: the workers it knows other than the one that asks.
Offered(v) == alive \ {v}

\* The next peer does not answer.  It is forgotten, and if too few are left
\* the load balancer is asked for workers (getWorkers): other lost peers are
\* forgotten too, and workers that can be dialled connected in both directions
\* (BidirectionalSetup), unless they cannot dial back and forget the one that
\* asks.  The elements go to the lost connection, in vain.  A peer that is put
\* in the map while a loop runs over it comes up in the loop, though it may
\* have before, or does not.
PingFails(v, w) ==
    /\ v \in alive /\ round[v].at = "loop"
    /\ w \in Peers(v) \ round[v].seen /\ ~Reaches(v, w)
    /\ LET left == Peers(v) \ {w}
           kept == {x \in left : Reaches(v, x)}
           free == Offered(v) \ kept
       IN  IF Cardinality(left) >= MinNumWorkerConnections
           THEN /\ link' = [link EXCEPT ![v][w] = "none"]
                /\ round' = [round EXCEPT ![v].seen = @ \cup {w}]
                /\ UNCHANGED faults
           ELSE \E missed \in SUBSET free : \E deaf \in SUBSET (free \ missed) :
                /\ faults.missed + Cardinality(missed \cup deaf) <= MaxMissed
                /\ faults' = [faults EXCEPT !.missed = @ + Cardinality(missed \cup deaf)]
                /\ link' = [x \in Workers |-> [y \in Workers |->
                       IF x = v THEN IF y \in kept \cup (free \ missed) THEN "live" ELSE "none"
                       ELSE IF y = v /\ x \in deaf THEN "none"
                       ELSE IF y = v /\ x \in free \ missed THEN "live" ELSE link[x][y]]]
                /\ LET new(x) == IF x = v THEN free \ missed
                                 ELSE IF x \in free \ (missed \cup deaf) /\ link[x][v] = "none" THEN {v} ELSE {}
                   IN  \E skipped \in SUBSET (free \ missed), twice \in SUBSET {x \in free \ missed : v \in new(x)} :
                       round' = [x \in Workers |->
                           IF round[x].at = "idle" THEN round[x]
                           ELSE IF x = v THEN [round[x] EXCEPT !.seen = ((@ \cup {w}) \ new(x)) \cup skipped]
                           ELSE [round[x] EXCEPT !.seen = IF x \in twice THEN @ \ new(x) ELSE @ \cup new(x)]]
    /\ UNCHANGED <<dataVars, calls, alive, online>>

\* The elements that cleanAcks removes from the first n of s, because their
\* clients are gone: each removal moves the next element under the index that
\* has just been looked at, so that it is not looked at itself.
Cleaned(s, n) ==
    LET removed[i \in 0..n] == i > 0 /\ Author[s[i]] \notin online /\ ~removed[i - 1]
    IN  {i \in 1..n : removed[i]}

KeepIndices(s, keep) ==
    LET rank == [i \in keep |-> Cardinality({j \in keep : j <= i})]
    IN  [k \in 1..Cardinality(keep) |-> s[CHOOSE i \in keep : rank[i] = k]]

\* Faulty EndRound: what has been put there meanwhile is acknowledged as well.
EndRoundRecount(v) ==
    /\ v \in alive /\ round[v].at = "loop"
    /\ round[v].first \cap Peers(v) \subseteq round[v].seen
    /\ LET gone == Cleaned(toAck[v], Len(toAck[v]))
           kept == KeepIndices(toAck[v], DOMAIN toAck[v] \ gone)
           n    == Len(kept)
           told == {kept[i] : i \in 1..n}
       IN  IF round[v].success >= MinNumWorkerConnections
           THEN /\ acked' = acked \cup {e \in told : Author[e] \in online}
                /\ recounted' = recounted \cup IF Cardinality(round[v].got) = round[v].success THEN {} ELSE told
                /\ toAck' = [toAck EXCEPT ![v] = SubSeq(kept, n + 1, Len(kept))]
           ELSE /\ toAck' = [toAck EXCEPT ![v] = kept]
                /\ UNCHANGED <<acked, recounted>>
    /\ local' = [local EXCEPT ![v] = SubSeq(@, round[v].locals + 1, Len(@))]
    /\ round' = [round EXCEPT ![v] = Idle]
    /\ UNCHANGED <<session, handling, link, calls, alive, online, faults>>

\* Faulty EndRound: the number of elements before cleanAcks is cut off.
EndRoundOldCount(v) ==
    /\ v \in alive /\ round[v].at = "loop"
    /\ round[v].first \cap Peers(v) \subseteq round[v].seen
    /\ LET gone == Cleaned(toAck[v], round[v].acks)
           kept == KeepIndices(toAck[v], DOMAIN toAck[v] \ gone)
           n    == round[v].acks - Cardinality(gone)
           told == {kept[i] : i \in 1..n}
       IN  IF round[v].success >= MinNumWorkerConnections
           THEN /\ acked' = acked \cup {e \in told : Author[e] \in online}
                /\ recounted' = recounted \cup IF Cardinality(round[v].got) = round[v].success THEN {} ELSE told
                /\ toAck' = [toAck EXCEPT ![v] = SubSeq(kept, round[v].acks + 1, Len(kept))]
           ELSE /\ toAck' = [toAck EXCEPT ![v] = kept]
                /\ UNCHANGED <<acked, recounted>>
    /\ local' = [local EXCEPT ![v] = SubSeq(@, round[v].locals + 1, Len(@))]
    /\ round' = [round EXCEPT ![v] = Idle]
    /\ UNCHANGED <<session, handling, link, calls, alive, online, faults>>

\* ackElements, after a round that may have met peers added meanwhile: the
\* elements counted at the start are acknowledged if enough workers got them
\* (not if cleanAcks has left fewer than were counted); localElements are cut
\* off in any case.
EndRound(v) ==
    /\ v \in alive /\ round[v].at = "loop"
    /\ round[v].first \cap Peers(v) \subseteq round[v].seen
    /\ LET gone == Cleaned(toAck[v], round[v].acks)
           kept == KeepIndices(toAck[v], DOMAIN toAck[v] \ gone)
           n    == round[v].acks - Cardinality(gone)
           told == {kept[i] : i \in 1..n}
       IN  IF round[v].acks <= Len(kept) /\ round[v].success >= MinNumWorkerConnections
           THEN /\ acked' = acked \cup {e \in told : Author[e] \in online}
                /\ recounted' = recounted \cup IF Cardinality(round[v].got) = round[v].success THEN {} ELSE told
                /\ toAck' = [toAck EXCEPT ![v] = SubSeq(kept, n + 1, Len(kept))]
           ELSE /\ toAck' = [toAck EXCEPT ![v] = kept]
                /\ UNCHANGED <<acked, recounted>>
    /\ local' = [local EXCEPT ![v] = SubSeq(@, round[v].locals + 1, Len(@))]
    /\ round' = [round EXCEPT ![v] = Idle]
    /\ UNCHANGED <<session, handling, link, calls, alive, online, faults>>

(***************************************************************************)
(* What happens to connections, processes and clients.                     *)
(***************************************************************************)
\* A connection breaks; a call under way fails for its caller, and the request
\* has reached the other side or not.
Break(v, w) ==
    /\ link[v][w] = "live"
    /\ faults.breaks < MaxBreaks
    /\ faults' = [faults EXCEPT !.breaks = @ + 1]
    /\ link' = [link EXCEPT ![v][w] = "broken"]
    /\ LET cut == {c \in calls : c.from = v /\ c.to = w /\ c.live} IN
       /\ \/ calls' = (calls \ cut) \cup {[c EXCEPT !.live = FALSE] : c \in cut}
          \/ cut # {} /\ calls' = calls \ cut
       /\ round' = IF cut = {} THEN round ELSE [round EXCEPT ![v].at = "loop"]
    /\ UNCHANGED <<dataVars, alive, online>>

Crash(w) ==
    /\ w \in alive
    /\ faults.crashes < MaxCrashes
    /\ faults' = [faults EXCEPT !.crashes = @ + 1]
    /\ End(w)
    /\ UNCHANGED <<session, local, toAck, acked, recounted, link, online>>

\* onElement fails to read, or sendToClient to write: deleteClients.
Leave(c) ==
    /\ c \in online
    /\ faults.leaves < MaxLeaves
    /\ faults' = [faults EXCEPT !.leaves = @ + 1]
    /\ online' = online \ {c}
    /\ UNCHANGED <<dataVars, link, round, calls, alive>>

Next ==
    \/ \E e \in Elements : Handle(e) \/ QueueAck(e)
    \/ \E c \in calls : Apply(c) \/ Reply(c)
    \/ \E v \in Workers : Collect(v) \/ EndRound(v) \/ Crash(v)
    \/ \E v, w \in Workers : Visit(v, w) \/ PingFails(v, w) \/ Break(v, w)
    \/ \E c \in Clients : Leave(c)

Spec == Init /\ [][Next]_vars

\* The goroutines run and the network delivers what is not cut off.
FairSpec ==
    /\ Spec
    /\ \A e \in Elements : WF_vars(QueueAck(e))
    /\ \A v, w \in Workers :
          /\ WF_vars(\E c \in calls : c.from = v /\ c.to = w /\ (Apply(c) \/ Reply(c)))
          /\ WF_vars(Visit(v, w) \/ PingFails(v, w))
    /\ \A v \in Workers : WF_vars(Collect(v) \/ EndRound(v))

-----------------------------------------------------------------------------
TypeOK ==
    /\ session \in [Workers -> SUBSET Elements]
    /\ local \in [Workers -> Seq(Elements)] /\ toAck \in [Workers -> Seq(Elements)]
    /\ handling \subseteq Elements /\ acked \subseteq Elements /\ recounted \subseteq Elements
    /\ link \in [Workers -> [Workers -> {"none", "live", "broken"}]]
    /\ \A v \in Workers : v \notin Peers(v)
    /\ round \in [Workers -> Round]
    /\ calls \subseteq Call
    /\ alive \subseteq Workers /\ online \subseteq Clients
    /\ faults \in Faults

\* The other workers that have an element, or have ended.
Holders(e) == {w \in Workers \ {HomeOf(e)} : e \in session[w] \/ w \notin alive}

\* An element is acknowledged only when at least MinNumWorkerConnections other
\* workers have it, or have ended since: after that the client takes it out of
\* its cache and nobody else will send it again (ackElements).  A round that
\* came by a worker twice has counted it twice, and reached at least one.
AckedIsReplicated ==
    \A e \in acked : Cardinality(Holders(e)) >= IF e \in recounted THEN 1 ELSE MinNumWorkerConnections

\* Until it is acknowledged, an element stays among those that are sent in
\* every round, as long as its worker runs and its client is there.
NothingForgotten ==
    \A e \in Elements :
        e \in session[HomeOf(e)] /\ HomeOf(e) \in alive /\ Author[e] \in online =>
            e \in acked \cup handling \cup Range(toAck[HomeOf(e)])

\* Types, and that no element is forgotten by its own worker (cleanAcks).
MeshInv == TypeOK /\ NothingForgotten

\* When no worker ends and no client goes away, whatever is typed comes to be
\* on every worker and acknowledged, although connections break meanwhile.
Undisturbed == alive = Workers /\ online = Clients
EventuallyAcked ==
    []Undisturbed =>
        \A e \in Elements : (e \in session[HomeOf(e)]) ~>
                            (e \in acked /\ \A w \in Workers : e \in session[w])
=============================================================================
