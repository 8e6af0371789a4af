-------------------------- MODULE WorkerMeshProofs --------------------------
(***************************************************************************)
(* Proofs about WorkerMesh, for any finite set of workers, any clients,    *)
(* any elements and any minimum of connections.                            *)
(*                                                                         *)
(* An element is counted for acknowledgement when its round begins and is  *)
(* acknowledged by its place when the round ends.  In between the place    *)
(* moves, because cleanAcks removes others in front of it, and the workers *)
(* that have got it are known to the round by what it has put in its queue *)
(* (RoundInv) and by what is left of the call under way (CallInv).         *)
(***************************************************************************)
EXTENDS WorkerMesh, SequenceLemmas, FiniteSetTheorems, TLAPS

(***************************************************************************)
(* What cleanAcks makes of a sequence.                                     *)
(***************************************************************************)
\* The marks of Cleaned exist for any number of places.
IsMarking(f, s, n) ==
    f = [i \in 0..n |-> i > 0 /\ Author[s[i]] \notin online /\ ~f[i - 1]]

\* There is a marking for any number of places.
LEMMA MarkingExists ==
    ASSUME NEW s, NEW n \in Nat
    PROVE  \E f : IsMarking(f, s, n)
<1> DEFINE Bad == {k \in Nat : ~\E f : IsMarking(f, s, k)}
<1>1. SUFFICES ASSUME Bad # {} PROVE FALSE
  OBVIOUS
<1>2. PICK k \in Bad : \A m \in Bad : k <= m
  BY <1>1, LeastNatural
<1>3. CASE k = 0
  <2> DEFINE f == [i \in 0..0 |-> FALSE]
  <2>1. IsMarking(f, s, 0)
    <3>1. \A i \in 0..0 : ~(i > 0)
      OBVIOUS
    <3> QED
      BY <3>1 DEF IsMarking
  <2> QED
    BY <2>1, <1>2, <1>3
<1>4. CASE k # 0
  <2>1. k \in Nat /\ k - 1 \in Nat /\ k - 1 \notin Bad
    BY <1>2, <1>4
  <2>2. PICK f : IsMarking(f, s, k - 1)
    BY <2>1
  <2> DEFINE last == Author[s[k]] \notin online /\ ~f[k - 1]
             g == [i \in 0..k |-> IF i = k THEN last ELSE f[i]]
  <2>3. \A i \in 0..(k - 1) : f[i] = (i > 0 /\ Author[s[i]] \notin online /\ ~f[i - 1])
    BY <2>2 DEF IsMarking
  <2>4. \A i \in 0..k : g[i] = IF i = k THEN last ELSE f[i]
    OBVIOUS
  <2>5. ASSUME NEW i \in 0..k
        PROVE  g[i] = (i > 0 /\ Author[s[i]] \notin online /\ ~g[i - 1])
    <3>1. CASE i = k
      <4>1. g[i] = last /\ g[i - 1] = f[i - 1] /\ i > 0
        BY <3>1, <2>1, <2>4
      <4> QED
        BY <4>1, <3>1
    <3>2. CASE i # k /\ i > 0
      <4>1. g[i] = f[i] /\ g[i - 1] = f[i - 1] /\ i \in 0..(k - 1)
        BY <3>2, <2>1, <2>4
      <4> QED
        BY <4>1, <3>2, <2>3
    <3>3. CASE i = 0
      <4>1. g[i] = f[i] /\ i \in 0..(k - 1) /\ ~(i > 0)
        BY <3>3, <1>4, <2>1, <2>4
      <4> QED
        BY <4>1, <2>3
    <3> QED
      BY <3>1, <3>2, <3>3
  <2>6. IsMarking(g, s, k)
    <3> DEFINE h == [i \in 0..k |-> i > 0 /\ Author[s[i]] \notin online /\ ~g[i - 1]]
    <3>1. g = h
      <4> HIDE DEF last
      <4>1. \A i \in 0..k : g[i] = h[i]
        BY <2>5
      <4> QED
        BY <4>1
    <3> QED
      BY <3>1 DEF IsMarking
  <2> QED
    BY <2>1, <2>6, <1>2
<1> QED
  BY <1>3, <1>4

\* cleanAcks removes nothing but what is of clients that are gone.
LEMMA CleanedAreOff ==
    ASSUME NEW s, NEW n \in Nat
    PROVE  /\ Cleaned(s, n) \subseteq 1..n
           /\ \A i \in Cleaned(s, n) : Author[s[i]] \notin online
<1> DEFINE removed == CHOOSE f : IsMarking(f, s, n)
<1>1. IsMarking(removed, s, n)
  BY MarkingExists
<1>2. Cleaned(s, n) = {i \in 1..n : removed[i]}
  BY DEF Cleaned, IsMarking
<1> HIDE DEF removed
<1>3. \A i \in 0..n : removed[i] = (i > 0 /\ Author[s[i]] \notin online /\ ~removed[i - 1])
  BY <1>1, Zenon DEF IsMarking
<1>4. \A i \in 1..n : i \in 0..n
  OBVIOUS
<1> QED
  BY <1>2, <1>3, <1>4

LEMMA UpTo ==
    ASSUME NEW n \in Nat
    PROVE  /\ IsFiniteSet(1..n) /\ Cardinality(1..n) = n
           /\ \A S \in SUBSET (1..n) : IsFiniteSet(S) /\ Cardinality(S) \in 0..n
<1>1. IsFiniteSet(1..n) /\ Cardinality(1..n) = IF 1 > n THEN 0 ELSE n - 1 + 1
  BY FS_Interval, 1 \in Int, n \in Int
<1>2. IsFiniteSet(1..n) /\ Cardinality(1..n) = n
  BY <1>1
<1>3. ASSUME NEW S \in SUBSET (1..n) PROVE IsFiniteSet(S) /\ Cardinality(S) \in 0..n
  <2>1. IsFiniteSet(S) /\ Cardinality(S) <= Cardinality(1..n)
    BY <1>2, FS_Subset
  <2>2. Cardinality(S) \in Nat
    BY <2>1, FS_CardinalityType
  <2> QED
    BY <1>2, <2>1, <2>2
<1> QED
  BY <1>2, <1>3

\* KeepIndices lists what is kept in its order.
Rank(i, keep) == Cardinality({j \in keep : j <= i})

LEMMA RankIsBijection ==
    ASSUME NEW m \in Nat, NEW keep \in SUBSET (1..m)
    PROVE  /\ IsFiniteSet(keep) /\ Cardinality(keep) \in Nat
           /\ \A i \in keep : Rank(i, keep) \in 1..Cardinality(keep)
           /\ \A i, j \in keep : Rank(i, keep) = Rank(j, keep) => i = j
           /\ \A k \in 1..Cardinality(keep) : \E i \in keep : Rank(i, keep) = k
<1> DEFINE Below(i) == {j \in keep : j <= i}
           size == Cardinality(keep)
<1>1. IsFiniteSet(keep) /\ size \in Nat
  BY FS_Interval, FS_Subset, FS_CardinalityType, 1 \in Int, m \in Int
<1>2. ASSUME NEW i \in keep PROVE IsFiniteSet(Below(i)) /\ Rank(i, keep) \in 1..size
  <2>1. Below(i) \subseteq keep /\ i \in Below(i)
    OBVIOUS
  <2>2. IsFiniteSet(Below(i)) /\ Cardinality(Below(i)) <= size /\ Cardinality(Below(i)) \in Nat
    BY <1>1, <2>1, FS_Subset, FS_CardinalityType
  <2>3. Cardinality(Below(i)) # 0
    BY <2>1, <2>2, FS_EmptySet
  <2> QED
    BY <1>1, <2>2, <2>3 DEF Rank
<1>3. ASSUME NEW i \in keep, NEW j \in keep, i < j PROVE Rank(i, keep) # Rank(j, keep)
  <2>1. Below(i) \subseteq Below(j) /\ j \in Below(j) /\ j \notin Below(i)
    <3>1. ASSUME NEW x \in keep, x <= i PROVE x <= j
      BY <1>3, <3>1
    <3>2. j <= j /\ ~(j <= i)
      BY <1>3
    <3> QED
      BY <3>1, <3>2
  <2>2. Cardinality(Below(i)) # Cardinality(Below(j))
    <3>1. IsFiniteSet(Below(j)) /\ Below(i) # Below(j)
      BY <1>2, <2>1
    <3> HIDE DEF Below
    <3> QED
      BY <2>1, <3>1, FS_Subset
  <2> QED
    BY <2>2 DEF Rank
<1>4. ASSUME NEW i \in keep, NEW j \in keep, Rank(i, keep) = Rank(j, keep) PROVE i = j
  <2>1. ~(i < j) /\ ~(j < i)
    BY <1>3, <1>4
  <2> QED
    BY <2>1
<1> DEFINE r == [i \in keep |-> Rank(i, keep)]
<1>5. r \in Injection(keep, 1..size)
  BY <1>2, <1>4 DEF Injection, IsInjective
<1>6. Cardinality(1..size) = size /\ IsFiniteSet(1..size)
  BY <1>1, UpTo
<1>7. r \in Surjection(keep, 1..size)
  BY <1>1, <1>5, <1>6, FS_Injection
<1>8. \A k \in 1..size : \E i \in keep : r[i] = k
  BY <1>7 DEF Surjection
<1> QED
  BY <1>1, <1>2, <1>4, <1>8

\* What is kept is what stands at the indices that are kept, in this order.
LEMMA KeepIndicesElements ==
    ASSUME NEW S, NEW s \in Seq(S), NEW keep \in SUBSET DOMAIN s
    PROVE  /\ KeepIndices(s, keep) \in Seq(S)
           /\ Len(KeepIndices(s, keep)) = Cardinality(keep)
           /\ \A i \in keep : KeepIndices(s, keep)[Rank(i, keep)] = s[i]
           /\ \A k \in 1..Cardinality(keep) :
                 \E i \in keep : Rank(i, keep) = k /\ KeepIndices(s, keep)[k] = s[i]
<1> DEFINE size == Cardinality(keep)
           rank == [i \in keep |-> Cardinality({j \in keep : j <= i})]
           at(k) == CHOOSE i \in keep : rank[i] = k
           t == KeepIndices(s, keep)
<1>1. keep \in SUBSET (1..Len(s)) /\ Len(s) \in Nat
  OBVIOUS
<1>2. /\ size \in Nat
      /\ \A i \in keep : Rank(i, keep) \in 1..size
      /\ \A i, j \in keep : Rank(i, keep) = Rank(j, keep) => i = j
      /\ \A k \in 1..size : \E i \in keep : Rank(i, keep) = k
  BY <1>1, RankIsBijection
<1> HIDE DEF size
<1>3. t = [k \in 1..size |-> s[at(k)]]
  BY DEF KeepIndices, size
<1>4. \A i \in keep : rank[i] = Rank(i, keep)
  BY DEF Rank
<1> HIDE DEF rank
<1>5. \A k \in 1..size : at(k) \in keep /\ Rank(at(k), keep) = k
  BY <1>2, <1>4
<1> HIDE DEF at, t
<1>6. \A k \in 1..size : t[k] = s[at(k)] /\ t[k] \in S
  BY <1>3, <1>5
<1>7. t \in Seq(S) /\ Len(t) = size
  BY <1>2, <1>3, <1>6
<1>8. \A i \in keep : t[Rank(i, keep)] = s[i]
  BY <1>2, <1>5, <1>6
<1> QED
  BY <1>5, <1>6, <1>7, <1>8 DEF t, size

\* The first of what cleanAcks leaves, as many as have been counted less the
\* removed ones, are of the first that have been counted.
LEMMA FirstKept ==
    ASSUME NEW m \in Nat, NEW acks \in 0..m, NEW gone \in SUBSET (1..acks),
           NEW i \in (1..m) \ gone, Rank(i, (1..m) \ gone) <= acks - Cardinality(gone)
    PROVE  i \in 1..acks
<1> DEFINE keep == (1..m) \ gone
           below == {j \in keep : j <= i}
           front == (1..acks) \ gone
<1>1. SUFFICES ASSUME i > acks PROVE FALSE
  OBVIOUS
<1>2. IsFiniteSet(1..acks) /\ Cardinality(1..acks) = acks
  BY UpTo
<1>3. IsFiniteSet(gone) /\ (1..acks) \cap gone = gone
  BY <1>2, FS_Subset
<1>4. IsFiniteSet(front) /\ Cardinality(front) = acks - Cardinality(gone)
  BY <1>2, <1>3, FS_Difference
<1>5. i \notin front /\ IsFiniteSet(front \cup {i}) /\ Cardinality(front \cup {i}) = Cardinality(front) + 1
  BY <1>1, <1>4, FS_AddElement
<1>6. front \cup {i} \subseteq below
  BY <1>1
<1>7. IsFiniteSet(below)
  <2>1. below \subseteq 1..m /\ IsFiniteSet(1..m)
    BY FS_Interval, 1 \in Int, m \in Int
  <2> QED
    BY <2>1, FS_Subset
<1>8. Cardinality(front \cup {i}) <= Cardinality(below)
  BY <1>6, <1>7, FS_Subset
<1>9. Cardinality(below) <= acks - Cardinality(gone)
  BY DEF Rank
<1> QED
  <2>1. Cardinality(gone) \in Nat /\ Cardinality(front) \in Nat /\ Cardinality(below) \in Nat
    BY <1>3, <1>4, <1>7, FS_CardinalityType
  <2> HIDE DEF front, below, keep
  <2> QED
    BY <2>1, <1>4, <1>5, <1>8, <1>9

(***************************************************************************)
(* The inductive invariant.                                                *)
(***************************************************************************)
\* Nobody passes on what the worker of its author does not have.
Known(e) == e \in session[HomeOf(e)]
FromHome ==
    /\ \A v \in Workers :
          /\ \A e \in Range(local[v]) \cup Range(round[v].queue) : Known(e)
          /\ \A e \in Range(toAck[v]) : HomeOf(e) = v /\ Known(e)
    /\ \A e \in handling : Known(e)
    /\ \A c \in calls : \A e \in Range(c.rest) : Known(e)

\* The call that a round waits for: what its worker does not have of the
\* elements of the round is still to be applied.
CallInv ==
    /\ \A c \in calls :
          /\ c.from # c.to
          /\ c.live => /\ round[c.from].at = "calling"
                       /\ \A e \in Range(round[c.from].queue) : e \in session[c.to] \cup Range(c.rest)
    /\ \A c, d \in calls : c.live /\ d.live /\ c.from = d.from => c = d

\* What a round will acknowledge is what it sends, and those it has got an
\* answer from have it.
Counts(v) ==
    /\ round[v].acks <= Len(toAck[v])
    /\ \A i \in 1..round[v].acks : toAck[v][i] \in Range(round[v].queue)
    /\ v \notin round[v].got
    /\ \A w \in round[v].got : \A e \in Range(round[v].queue) : e \in session[w] \/ w \notin alive
    /\ Cardinality(round[v].got) <= round[v].success
    /\ round[v].success > 0 => round[v].got # {}
RoundInv == \A v \in Workers : Counts(v)

Replicated ==
    /\ \A e \in recounted : Holders(e) # {}
    /\ \A e \in acked \ recounted : Cardinality(Holders(e)) >= MinNumWorkerConnections

MInv == TypeOK /\ FromHome /\ CallInv /\ RoundInv /\ NothingForgotten /\ Replicated

-----------------------------------------------------------------------------
(***************************************************************************)
(* Types.                                                                  *)
(***************************************************************************)
LEMMA IdleIsRound == Idle \in Round
  BY DEF Idle, Round

\* The updates of a round that the actions make.
LEMMA RoundUpdates ==
    ASSUME NEW r \in Round
    PROVE  /\ [r EXCEPT !.at = "loop"] \in Round
           /\ \A S \in SUBSET Workers : /\ [r EXCEPT !.seen = S] \in Round
                                        /\ [r EXCEPT !.at = "calling", !.seen = S] \in Round
           /\ \A w \in Workers :
                 [r EXCEPT !.at = "loop", !.success = @ + 1, !.got = @ \cup {w}] \in Round
           /\ r.seen \in SUBSET Workers /\ r.got \in SUBSET Workers /\ r.success \in Nat
           /\ r.acks \in Nat /\ r.locals \in Nat /\ r.queue \in Seq(Elements)
<1>1. /\ r.seen \in SUBSET Workers /\ r.got \in SUBSET Workers /\ r.success \in Nat
      /\ r.acks \in Nat /\ r.locals \in Nat /\ r.queue \in Seq(Elements)
  BY DEF Round
<1>2. [r EXCEPT !.at = "loop"] \in Round
  BY DEF Round
<1>3. ASSUME NEW S \in SUBSET Workers
      PROVE  [r EXCEPT !.seen = S] \in Round /\ [r EXCEPT !.at = "calling", !.seen = S] \in Round
  BY DEF Round
<1>4. ASSUME NEW w \in Workers
      PROVE  [r EXCEPT !.at = "loop", !.success = @ + 1, !.got = @ \cup {w}] \in Round
  <2>1. r.success + 1 \in Nat /\ r.got \cup {w} \in SUBSET Workers
    BY <1>1
  <2> QED
    BY <2>1 DEF Round
<1> QED
  BY <1>1, <1>2, <1>3, <1>4

\* How often each of the bounded events has happened, with one more.
LEMMA FaultUpdates ==
    ASSUME TypeOK
    PROVE  /\ faults.breaks < MaxBreaks => [faults EXCEPT !.breaks = @ + 1] \in Faults
           /\ faults.crashes < MaxCrashes => [faults EXCEPT !.crashes = @ + 1] \in Faults
           /\ faults.leaves < MaxLeaves => [faults EXCEPT !.leaves = @ + 1] \in Faults
           /\ \A n \in Nat : faults.missed + n <= MaxMissed => [faults EXCEPT !.missed = @ + n] \in Faults
<1>1. MaxBreaks \in Nat /\ MaxMissed \in Nat /\ MaxCrashes \in Nat /\ MaxLeaves \in Nat
  BY MeshAssumption
<1>2. /\ faults.breaks \in 0..MaxBreaks /\ faults.missed \in 0..MaxMissed
      /\ faults.crashes \in 0..MaxCrashes /\ faults.leaves \in 0..MaxLeaves
  BY DEF TypeOK, Faults
<1>3. /\ faults.breaks < MaxBreaks => faults.breaks + 1 \in 0..MaxBreaks
      /\ faults.crashes < MaxCrashes => faults.crashes + 1 \in 0..MaxCrashes
      /\ faults.leaves < MaxLeaves => faults.leaves + 1 \in 0..MaxLeaves
      /\ \A n \in Nat : faults.missed + n <= MaxMissed => faults.missed + n \in 0..MaxMissed
  BY <1>1, <1>2
<1>4. faults \in Faults
  BY DEF TypeOK
<1> QED
  BY <1>3, <1>4 DEF Faults

LEMMA HomeOfType == \A e \in Elements : HomeOf(e) \in Workers /\ Author[e] \in Clients
  BY MeshAssumption DEF HomeOf

LEMMA CallUpdates ==
    ASSUME NEW c \in Call
    PROVE  /\ c.from \in Workers /\ c.to \in Workers /\ c.rest \in Seq(Elements) /\ c.live \in BOOLEAN
           /\ [c EXCEPT !.live = FALSE] \in Call
           /\ c.rest # <<>> => /\ Head(c.rest) \in Elements
                               /\ Tail(c.rest) \in Seq(Elements)
                               /\ [c EXCEPT !.rest = Tail(@)] \in Call
<1>1. /\ c.from \in Workers /\ c.to \in Workers /\ c.rest \in Seq(Elements) /\ c.live \in BOOLEAN
      /\ [c EXCEPT !.live = FALSE] \in Call
  BY DEF Call
<1>2. c.rest # <<>> => Head(c.rest) \in Elements /\ Tail(c.rest) \in Seq(Elements)
  BY <1>1
<1>3. \A s \in Seq(Elements) : [c EXCEPT !.rest = s] \in Call
  BY DEF Call
<1> QED
  BY <1>1, <1>2, <1>3

LEMMA EndTypes ==
    ASSUME TypeOK, NEW w \in Workers, End(w)
    PROVE  /\ round' \in [Workers -> Round] /\ calls' \subseteq Call
           /\ alive' \subseteq Workers /\ handling' \subseteq Elements
<1>1. calls' \subseteq Call
  BY CallUpdates DEF End, TypeOK
<1>2. round' \in [Workers -> Round]
  <2>1. \A v \in Workers : round[v] \in Round /\ [round[v] EXCEPT !.at = "loop"] \in Round
    BY RoundUpdates DEF TypeOK
  <2> QED
    BY <2>1, IdleIsRound DEF End
<1> QED
  BY <1>1, <1>2 DEF End, TypeOK

LEMMA NextTypes == TypeOK /\ [Next]_vars => TypeOK'
<1> SUFFICES ASSUME TypeOK, [Next]_vars PROVE TypeOK'
  OBVIOUS
<1> USE DEF TypeOK
<1>1. CASE UNCHANGED vars
  BY <1>1 DEF vars, dataVars, Peers
<1>2. ASSUME NEW e \in Elements, Handle(e) PROVE TypeOK'
  <2>1. session' \in [Workers -> SUBSET Elements] /\ local' \in [Workers -> Seq(Elements)]
    BY <1>2, HomeOfType DEF Handle, Add
  <2> QED
    BY <1>2, <2>1 DEF Handle, Peers
<1>3. ASSUME NEW e \in Elements, QueueAck(e) PROVE TypeOK'
  <2>1. toAck' \in [Workers -> Seq(Elements)] /\ handling' \subseteq Elements
    BY <1>3, HomeOfType DEF QueueAck
  <2> QED
    BY <1>3, <2>1 DEF QueueAck, Peers
<1>4. ASSUME NEW c \in calls, Apply(c) PROVE TypeOK'
  <2> DEFINE e == Head(c.rest)
  <2>1. c \in Call /\ c.to \in Workers /\ e \in Elements /\ [c EXCEPT !.rest = Tail(@)] \in Call
    BY <1>4, CallUpdates DEF Apply
  <2>2. CASE End(c.to) /\ UNCHANGED <<session, local>>
    BY <1>4, <2>1, <2>2, EndTypes DEF Apply, Peers
  <2>3. CASE /\ UNCHANGED <<session, local>> \/ Add(c.to, e)
             /\ calls' = (calls \ {c}) \cup {[c EXCEPT !.rest = Tail(@)]}
             /\ UNCHANGED <<handling, round, alive>>
    <3>1. session' \in [Workers -> SUBSET Elements] /\ local' \in [Workers -> Seq(Elements)]
      <4> HIDE DEF e
      <4>1. CASE UNCHANGED <<session, local>>
        BY <4>1
      <4>2. CASE Add(c.to, e)
        BY <2>1, <4>2 DEF Add
      <4> QED
        BY <2>3, <4>1, <4>2
    <3> QED
      BY <1>4, <2>1, <2>3, <3>1 DEF Apply, Peers
  <2> QED
    BY <1>4, <2>2, <2>3 DEF Apply
<1>5. ASSUME NEW c \in calls, Reply(c) PROVE TypeOK'
  <2>1. c \in Call /\ c.from \in Workers /\ c.to \in Workers
    BY CallUpdates
  <2>2. round' \in [Workers -> Round]
    <3>1. [round[c.from] EXCEPT !.at = "loop", !.success = @ + 1, !.got = @ \cup {c.to}] \in Round
      BY <2>1, RoundUpdates
    <3> QED
      BY <1>5, <2>1, <3>1 DEF Reply
  <2> QED
    BY <1>5, <2>2 DEF Reply, dataVars, Peers
<1>6. ASSUME NEW v \in Workers, Collect(v) PROVE TypeOK'
  <2>1. [at |-> "loop", locals |-> Len(local[v]), acks |-> Len(toAck[v]),
         queue |-> local[v] \o toAck[v], first |-> Peers(v), seen |-> {}, success |-> 0,
         got |-> {}] \in Round
    BY DEF Round, Peers
  <2> QED
    BY <1>6, <2>1 DEF Collect, dataVars, Peers
<1>7. ASSUME NEW v \in Workers, EndRound(v) PROVE TypeOK'
  <2> DEFINE gone == Cleaned(toAck[v], round[v].acks)
             kept == KeepIndices(toAck[v], DOMAIN toAck[v] \ gone)
             n    == round[v].acks - Cardinality(gone)
             told == {kept[i] : i \in 1..n}
  <2> HIDE DEF gone
  <2>1. toAck[v] \in Seq(Elements) /\ local[v] \in Seq(Elements) /\ round[v].acks \in Nat /\ round[v].locals \in Nat
    BY RoundUpdates
  <2>2. kept \in Seq(Elements) /\ Len(kept) \in Nat
    BY <2>1, KeepIndicesElements
  <2>3. gone \subseteq 1..round[v].acks /\ Cardinality(gone) \in 0..round[v].acks /\ n \in Nat
    <3>1. gone \subseteq 1..round[v].acks
      BY <2>1, CleanedAreOff DEF gone
    <3>2. Cardinality(gone) \in 0..round[v].acks
      BY <2>1, <3>1, UpTo
    <3> QED
      BY <2>1, <3>1, <3>2
  <2> HIDE DEF kept, n
  <2>4. round' \in [Workers -> Round] /\ local' \in [Workers -> Seq(Elements)]
    BY <1>7, <2>1, IdleIsRound DEF EndRound
  <2>5. toAck' \in [Workers -> Seq(Elements)] /\ acked' \subseteq Elements /\ recounted' \subseteq Elements
    <3>1. CASE /\ round[v].acks <= Len(kept) /\ round[v].success >= MinNumWorkerConnections
               /\ acked' = acked \cup {e \in told : Author[e] \in online}
               /\ recounted' \subseteq recounted \cup told
               /\ toAck' = [toAck EXCEPT ![v] = SubSeq(kept, n + 1, Len(kept))]
      <4>1. n <= Len(kept)
        BY <2>1, <2>2, <2>3, <3>1 DEF n
      <4>2. told \subseteq Elements
        BY <2>2, <2>3, <4>1
      <4>3. SubSeq(kept, n + 1, Len(kept)) \in Seq(Elements)
        BY <2>2, <2>3, <4>1
      <4> QED
        BY <3>1, <4>2, <4>3
    <3>2. CASE toAck' = [toAck EXCEPT ![v] = kept] /\ UNCHANGED <<acked, recounted>>
      BY <2>2, <3>2
    <3> QED
      BY <1>7, <3>1, <3>2 DEF EndRound, gone, kept, n
  <2> QED
    BY <1>7, <2>4, <2>5 DEF EndRound, Peers
<1>8. ASSUME NEW v \in Workers, Crash(v) PROVE TypeOK'
  <2>1. faults' \in Faults
    BY <1>8, FaultUpdates DEF Crash
  <2> QED
    BY <1>8, <2>1, EndTypes DEF Crash, Peers
<1>9. ASSUME NEW v \in Workers, NEW w \in Workers, Visit(v, w) PROVE TypeOK'
  <2>1. round' \in [Workers -> Round]
    <3>1. [round[v] EXCEPT !.at = "calling", !.seen = @ \cup {w}] \in Round
      <4>1. round[v].seen \cup {w} \in SUBSET Workers
        BY RoundUpdates
      <4> QED
        BY <4>1, RoundUpdates
    <3> QED
      BY <1>9, <3>1 DEF Visit
  <2>2. calls' \subseteq Call
    <3>1. [from |-> v, to |-> w, rest |-> round[v].queue, live |-> TRUE] \in Call
      BY RoundUpdates DEF Call
    <3> QED
      BY <1>9, <3>1 DEF Visit
  <2> QED
    BY <1>9, <2>1, <2>2 DEF Visit, dataVars, Peers
<1>10. ASSUME NEW v \in Workers, NEW w \in Workers, PingFails(v, w) PROVE TypeOK'
  <2> DEFINE left == Peers(v) \ {w}
             kept == {x \in left : Reaches(v, x)}
             free == Offered(v) \ kept
             new(missed, deaf, x) == IF x = v THEN free \ missed
                               ELSE IF x \in free \ (missed \cup deaf) /\ link[x][v] = "none" THEN {v} ELSE {}
  <2>1. CASE /\ link' = [link EXCEPT ![v][w] = "none"]
             /\ round' = [round EXCEPT ![v].seen = @ \cup {w}]
             /\ UNCHANGED faults
    <3>1. [round[v] EXCEPT !.seen = @ \cup {w}] \in Round
      <4>1. round[v].seen \cup {w} \in SUBSET Workers
        BY RoundUpdates
      <4> QED
        BY <4>1, RoundUpdates
    <3>2. round' \in [Workers -> Round]
      BY <2>1, <3>1
    <3>3. link' \in [Workers -> [Workers -> {"none", "live", "broken"}]] /\ \A x \in Workers : link'[x][x] = "none"
      BY <2>1 DEF Peers
    <3> QED
      BY <1>10, <2>1, <3>2, <3>3 DEF PingFails, dataVars, Peers
  <2>2. CASE Cardinality(left) >= MinNumWorkerConnections
    BY <1>10, <2>1, <2>2 DEF PingFails
  <2>3. CASE ~(Cardinality(left) >= MinNumWorkerConnections)
    <3>a. PICK missed \in SUBSET free : \E deaf \in SUBSET (free \ missed) :
            /\ faults.missed + Cardinality(missed \cup deaf) <= MaxMissed
            /\ faults' = [faults EXCEPT !.missed = @ + Cardinality(missed \cup deaf)]
            /\ link' = [x \in Workers |-> [y \in Workers |->
                       IF x = v THEN IF y \in kept \cup (free \ missed) THEN "live" ELSE "none"
                       ELSE IF y = v /\ x \in deaf THEN "none"
                       ELSE IF y = v /\ x \in free \ missed THEN "live" ELSE link[x][y]]]
            /\ \E skipped \in SUBSET (free \ missed), twice \in SUBSET {x \in free \ missed : v \in new(missed, deaf, x)} :
                   round' = [x \in Workers |->
                           IF round[x].at = "idle" THEN round[x]
                           ELSE IF x = v THEN [round[x] EXCEPT !.seen = ((@ \cup {w}) \ new(missed, deaf, x)) \cup skipped]
                           ELSE [round[x] EXCEPT !.seen = IF x \in twice THEN @ \ new(missed, deaf, x) ELSE @ \cup new(missed, deaf, x)]]
      BY <1>10, <2>3, Zenon DEF PingFails
    <3>d. PICK deaf \in SUBSET (free \ missed) :
            /\ faults.missed + Cardinality(missed \cup deaf) <= MaxMissed
            /\ faults' = [faults EXCEPT !.missed = @ + Cardinality(missed \cup deaf)]
            /\ link' = [x \in Workers |-> [y \in Workers |->
                       IF x = v THEN IF y \in kept \cup (free \ missed) THEN "live" ELSE "none"
                       ELSE IF y = v /\ x \in deaf THEN "none"
                       ELSE IF y = v /\ x \in free \ missed THEN "live" ELSE link[x][y]]]
            /\ \E skipped \in SUBSET (free \ missed), twice \in SUBSET {x \in free \ missed : v \in new(missed, deaf, x)} :
                   round' = [x \in Workers |->
                           IF round[x].at = "idle" THEN round[x]
                           ELSE IF x = v THEN [round[x] EXCEPT !.seen = ((@ \cup {w}) \ new(missed, deaf, x)) \cup skipped]
                           ELSE [round[x] EXCEPT !.seen = IF x \in twice THEN @ \ new(missed, deaf, x) ELSE @ \cup new(missed, deaf, x)]]
      BY <3>a
    <3>b. PICK skipped \in SUBSET (free \ missed), twice \in SUBSET {x \in free \ missed : v \in new(missed, deaf, x)} :
                   round' = [x \in Workers |->
                           IF round[x].at = "idle" THEN round[x]
                           ELSE IF x = v THEN [round[x] EXCEPT !.seen = ((@ \cup {w}) \ new(missed, deaf, x)) \cup skipped]
                           ELSE [round[x] EXCEPT !.seen = IF x \in twice THEN @ \ new(missed, deaf, x) ELSE @ \cup new(missed, deaf, x)]]
      BY <3>d
    <3>1. free \subseteq Workers \ {v} /\ v \notin kept
      BY DEF Offered, Peers
    <3>2. IsFiniteSet(missed \cup deaf) /\ Cardinality(missed \cup deaf) \in Nat
      BY <3>1, MeshAssumption, FS_Subset, FS_CardinalityType
    <3>3. faults' \in Faults
      BY <3>d, <3>b, <3>2, FaultUpdates
    <3>4. \A x \in Workers, y \in Workers : link'[x][y] \in {"none", "live", "broken"}
      BY <3>d, <3>b
    <3>5. link' \in [Workers -> [Workers -> {"none", "live", "broken"}]]
      <4> HIDE DEF kept, free
      <4> QED
        BY <3>d, <3>b, <3>4
    <3>6. \A x \in Workers : link'[x][x] = "none"
      BY <3>d, <3>b, <3>1 DEF Peers
    <3>7. \A x \in Workers : round'[x] \in Round
      <4> SUFFICES ASSUME NEW x \in Workers PROVE round'[x] \in Round
        OBVIOUS
      <4>0. new(missed, deaf, x) \subseteq Workers
        BY <3>1
      <4> HIDE DEF free, kept, new
      <4>1. round[x].seen \in SUBSET Workers /\ new(missed, deaf, x) \in SUBSET Workers /\ skipped \in SUBSET Workers
        BY <3>1, <4>0, RoundUpdates
      <4>2. /\ ((round[x].seen \cup {w}) \ new(missed, deaf, x)) \cup skipped \in SUBSET Workers
            /\ round[x].seen \ new(missed, deaf, x) \in SUBSET Workers
            /\ round[x].seen \cup new(missed, deaf, x) \in SUBSET Workers
        BY <4>1
      <4>3. /\ [round[x] EXCEPT !.seen = ((@ \cup {w}) \ new(missed, deaf, x)) \cup skipped] \in Round
            /\ [round[x] EXCEPT !.seen = IF x \in twice THEN @ \ new(missed, deaf, x) ELSE @ \cup new(missed, deaf, x)] \in Round
        BY <4>2, RoundUpdates
      <4> QED
        BY <3>d, <3>b, <4>3
    <3>8. round' \in [Workers -> Round]
      BY <3>d, <3>b, <3>7
    <3> QED
      BY <1>10, <3>3, <3>5, <3>6, <3>8 DEF PingFails, dataVars, Peers
  <2> QED
    BY <2>2, <2>3
<1>11. ASSUME NEW v \in Workers, NEW w \in Workers, Break(v, w) PROVE TypeOK'
  <2>1. faults' \in Faults
    BY <1>11, FaultUpdates DEF Break
  <2>2. calls' \subseteq Call
    <3>1. \A c \in calls : [c EXCEPT !.live = FALSE] \in Call
      BY CallUpdates
    <3> QED
      BY <1>11, <3>1 DEF Break
  <2>3. round' \in [Workers -> Round]
    BY <1>11, RoundUpdates DEF Break
  <2>4. link' \in [Workers -> [Workers -> {"none", "live", "broken"}]] /\ \A x \in Workers : link'[x][x] = "none"
    BY <1>11 DEF Break, Peers
  <2> QED
    BY <1>11, <2>1, <2>2, <2>3, <2>4 DEF Break, dataVars, Peers
<1>12. ASSUME NEW c \in Clients, Leave(c) PROVE TypeOK'
  <2>1. faults' \in Faults
    BY <1>12, FaultUpdates DEF Leave
  <2> QED
    BY <1>12, <2>1 DEF Leave, dataVars, Peers
<1> QED
  BY <1>1, <1>2, <1>3, <1>4, <1>5, <1>6, <1>7, <1>8, <1>9, <1>10, <1>11, <1>12 DEF Next

(***************************************************************************)
(* What the steps do to sequences and sets.                                *)
(***************************************************************************)
LEMMA RangeOf ==
    ASSUME NEW S, NEW s \in Seq(S)
    PROVE  /\ Range(s) \subseteq S
           /\ \A i \in 1..Len(s) : s[i] \in Range(s)
           /\ \A x \in Range(s) : \E i \in 1..Len(s) : s[i] = x
  BY DEF Range

LEMMA RangeOfAppend ==
    ASSUME NEW S, NEW s \in Seq(S), NEW e \in S
    PROVE  Range(Append(s, e)) = Range(s) \cup {e}
<1> DEFINE t == Append(s, e)
<1>1. t \in Seq(S) /\ Len(t) = Len(s) + 1 /\ t[Len(s) + 1] = e /\ \A i \in 1..Len(s) : t[i] = s[i]
  OBVIOUS
<1> HIDE DEF t
<1>2. Len(s) \in Nat
  OBVIOUS
<1>3. ASSUME NEW x \in Range(t) PROVE x \in Range(s) \cup {e}
  <2>1. PICK i \in 1..Len(t) : t[i] = x
    BY <1>1, RangeOf
  <2>2. CASE i \in 1..Len(s)
    BY <2>1, <2>2, <1>1, RangeOf
  <2>3. CASE i = Len(s) + 1
    BY <2>1, <2>3, <1>1
  <2> QED
    BY <1>1, <1>2, <2>2, <2>3
<1>4. ASSUME NEW x \in Range(s) PROVE x \in Range(t)
  <2>1. PICK i \in 1..Len(s) : s[i] = x
    BY RangeOf
  <2>2. i \in 1..Len(t) /\ t[i] = x
    BY <1>1, <1>2, <2>1
  <2> QED
    BY <1>1, <2>2, RangeOf
<1>5. e \in Range(t)
  <2>1. Len(s) + 1 \in 1..Len(t)
    BY <1>1, <1>2
  <2> QED
    BY <1>1, <2>1, RangeOf
<1> QED
  BY <1>3, <1>4, <1>5 DEF t

LEMMA RangeOfConcat ==
    ASSUME NEW S, NEW s \in Seq(S), NEW t \in Seq(S)
    PROVE  /\ s \o t \in Seq(S)
           /\ Range(s \o t) = Range(s) \cup Range(t)
<1> DEFINE u == s \o t
<1>1. /\ u \in Seq(S) /\ Len(u) = Len(s) + Len(t) /\ Len(s) \in Nat /\ Len(t) \in Nat
      /\ \A i \in 1..Len(s) : u[i] = s[i]
      /\ \A i \in (Len(s) + 1)..Len(u) : u[i] = t[i - Len(s)]
  OBVIOUS
<1> HIDE DEF u
<1>2. ASSUME NEW x \in Range(u) PROVE x \in Range(s) \cup Range(t)
  <2>1. PICK i \in 1..Len(u) : u[i] = x
    BY <1>1, RangeOf
  <2>2. CASE i \in 1..Len(s)
    BY <2>1, <2>2, <1>1, RangeOf
  <2>3. CASE i \in (Len(s) + 1)..Len(u)
    <3>1. i - Len(s) \in 1..Len(t) /\ t[i - Len(s)] = x
      BY <2>1, <2>3, <1>1
    <3> QED
      BY <3>1, RangeOf
  <2> QED
    BY <1>1, <2>2, <2>3
<1>3. ASSUME NEW x \in Range(s) PROVE x \in Range(u)
  <2>1. PICK i \in 1..Len(s) : s[i] = x
    BY RangeOf
  <2>2. i \in 1..Len(u) /\ u[i] = x
    BY <1>1, <2>1
  <2> QED
    BY <1>1, <2>2, RangeOf
<1>4. ASSUME NEW x \in Range(t) PROVE x \in Range(u)
  <2>1. PICK i \in 1..Len(t) : t[i] = x
    BY RangeOf
  <2>2. i + Len(s) \in 1..Len(u) /\ u[i + Len(s)] = x
    <3>1. i + Len(s) \in (Len(s) + 1)..Len(u) /\ (i + Len(s)) - Len(s) = i
      BY <1>1
    <3> QED
      BY <1>1, <2>1, <3>1
  <2> QED
    BY <1>1, <2>2, RangeOf
<1> QED
  BY <1>1, <1>2, <1>3, <1>4 DEF u

LEMMA RangeOfTail ==
    ASSUME NEW S, NEW s \in Seq(S), s # <<>>
    PROVE  Range(s) = {Head(s)} \cup Range(Tail(s))
<1> DEFINE t == Tail(s)
<1>1. /\ t \in Seq(S) /\ Len(s) \in Nat /\ Len(s) > 0 /\ Len(t) = Len(s) - 1 /\ Head(s) = s[1]
      /\ \A i \in 1..Len(t) : t[i] = s[i + 1]
  OBVIOUS
<1> HIDE DEF t
<1>2. ASSUME NEW x \in Range(s) PROVE x \in {Head(s)} \cup Range(t)
  <2>1. PICK i \in 1..Len(s) : s[i] = x
    BY RangeOf
  <2>2. CASE i = 1
    BY <1>1, <2>1, <2>2
  <2>3. CASE i # 1
    <3>1. i - 1 \in 1..Len(t) /\ t[i - 1] = x
      BY <1>1, <2>1, <2>3
    <3> QED
      BY <1>1, <3>1, RangeOf
  <2> QED
    BY <2>2, <2>3
<1>3. Head(s) \in Range(s)
  BY <1>1, RangeOf
<1>4. ASSUME NEW x \in Range(t) PROVE x \in Range(s)
  <2>1. PICK i \in 1..Len(t) : t[i] = x
    BY <1>1, RangeOf
  <2>2. i + 1 \in 1..Len(s) /\ s[i + 1] = x
    BY <1>1, <2>1
  <2> QED
    BY <2>2, RangeOf
<1> QED
  BY <1>2, <1>3, <1>4 DEF t

\* What is left of a sequence without its first n, and what these are.
LEMMA RangeOfRest ==
    ASSUME NEW S, NEW s \in Seq(S), NEW n \in Nat
    PROVE  /\ SubSeq(s, n + 1, Len(s)) \in Seq(S)
           /\ Range(SubSeq(s, n + 1, Len(s))) \subseteq Range(s)
           /\ \A i \in 1..Len(s) : i > n => s[i] \in Range(SubSeq(s, n + 1, Len(s)))
<1> DEFINE t == SubSeq(s, n + 1, Len(s))
<1>1. t \in Seq(S) /\ Len(s) \in Nat
  OBVIOUS
<1>2. CASE n >= Len(s)
  <2>1. t = <<>>
    BY <1>2
  <2> HIDE DEF t
  <2>2. Range(t) = {}
    BY <2>1 DEF Range
  <2> QED
    BY <1>1, <1>2, <2>2 DEF t
<1>3. CASE n < Len(s)
  <2>1. Len(t) = Len(s) - n /\ \A i \in 1..Len(t) : t[i] = s[i + n]
    BY <1>3
  <2> HIDE DEF t
  <2>2. ASSUME NEW x \in Range(t) PROVE x \in Range(s)
    <3>1. PICK i \in 1..Len(t) : t[i] = x
      BY <1>1, RangeOf
    <3>2. i + n \in 1..Len(s) /\ s[i + n] = x
      BY <1>1, <1>3, <2>1, <3>1
    <3> QED
      BY <3>2, RangeOf
  <2>3. ASSUME NEW i \in 1..Len(s), i > n PROVE s[i] \in Range(t)
    <3>1. i - n \in 1..Len(t) /\ (i - n) + n = i
      BY <1>1, <2>1, <2>3
    <3>2. t[i - n] = s[i]
      BY <2>1, <3>1
    <3> QED
      BY <1>1, <3>1, <3>2, RangeOf
  <2> QED
    BY <1>1, <2>2, <2>3 DEF t
<1> QED
  BY <1>1, <1>2, <1>3

\* Sessions only grow; workers and clients that are gone do not come back.
LEMMA NextGrows ==
    ASSUME TypeOK, [Next]_vars
    PROVE  /\ \A w \in Workers : session[w] \subseteq session'[w]
           /\ alive' \subseteq alive /\ online' \subseteq online
<1> USE DEF TypeOK
<1>1. CASE UNCHANGED vars
  BY <1>1 DEF vars, dataVars
<1>2. ASSUME NEW e \in Elements, Handle(e) \/ QueueAck(e)
      PROVE  (\A w \in Workers : session[w] \subseteq session'[w]) /\ alive' = alive /\ online' = online
  BY <1>2, HomeOfType DEF Handle, QueueAck, Add
<1>3. ASSUME NEW c \in calls, Apply(c)
      PROVE  (\A w \in Workers : session[w] \subseteq session'[w]) /\ alive' \subseteq alive /\ online' = online
  <2>1. \A e : Add(c.to, e) => \A w \in Workers : session[w] \subseteq session'[w]
    BY DEF Add
  <2>2. End(c.to) => alive' \subseteq alive
    BY DEF End
  <2> QED
    BY <1>3, <2>1, <2>2 DEF Apply
<1>4. ASSUME NEW c \in calls, Reply(c)
      PROVE  UNCHANGED <<session, alive, online>>
  BY <1>4 DEF Reply, dataVars
<1>5. ASSUME NEW v \in Workers, Collect(v) \/ EndRound(v)
      PROVE  UNCHANGED <<session, alive, online>>
  BY <1>5 DEF Collect, EndRound, dataVars
<1>6. ASSUME NEW v \in Workers, Crash(v)
      PROVE  session' = session /\ alive' \subseteq alive /\ online' = online
  BY <1>6 DEF Crash, End
<1>7. ASSUME NEW v \in Workers, NEW w \in Workers, Visit(v, w) \/ PingFails(v, w) \/ Break(v, w)
      PROVE  UNCHANGED <<session, alive, online>>
  <2>1. Visit(v, w) => UNCHANGED <<session, alive, online>>
    BY DEF Visit, dataVars
  <2>2. PingFails(v, w) => UNCHANGED <<session, alive, online>>
    BY DEF PingFails, dataVars
  <2>3. Break(v, w) => UNCHANGED <<session, alive, online>>
    BY DEF Break, dataVars
  <2> QED
    BY <1>7, <2>1, <2>2, <2>3
<1>8. ASSUME NEW c \in Clients, Leave(c)
      PROVE  session' = session /\ alive' = alive /\ online' \subseteq online
  BY <1>8 DEF Leave, dataVars
<1> QED
  BY <1>1, <1>2, <1>3, <1>4, <1>5, <1>6, <1>7, <1>8 DEF Next

\* A ping that fails leaves everything but connections and what the loops
\* have seen.
LEMMA PingFailsRounds ==
    ASSUME TypeOK, NEW v \in Workers, NEW w \in Workers, PingFails(v, w)
    PROVE  /\ UNCHANGED <<session, local, toAck, handling, acked, recounted, calls, alive, online>>
           /\ \A x \in Workers :
                 /\ round'[x].at = round[x].at /\ round'[x].acks = round[x].acks
                 /\ round'[x].queue = round[x].queue /\ round'[x].got = round[x].got
                 /\ round'[x].success = round[x].success
<1>1. UNCHANGED <<session, local, toAck, handling, acked, recounted, calls, alive, online>>
  BY DEF PingFails, dataVars
<1>2. \A x \in Workers : round'[x] = round[x] \/ \E S : round'[x] = [round[x] EXCEPT !.seen = S]
  <2> DEFINE left == Peers(v) \ {w}
             kept == {x \in left : Reaches(v, x)}
             free == Offered(v) \ kept
             new(missed, deaf, x) == IF x = v THEN free \ missed
                               ELSE IF x \in free \ (missed \cup deaf) /\ link[x][v] = "none" THEN {v} ELSE {}
  <2>1. CASE Cardinality(left) >= MinNumWorkerConnections
    <3>1. round' = [round EXCEPT ![v].seen = @ \cup {w}]
      BY <2>1 DEF PingFails
    <3> QED
      BY <3>1 DEF TypeOK
  <2>2. CASE ~(Cardinality(left) >= MinNumWorkerConnections)
    <3>1. PICK missed \in SUBSET free : \E deaf \in SUBSET (free \ missed) :
            \E skipped \in SUBSET (free \ missed), twice \in SUBSET {x \in free \ missed : v \in new(missed, deaf, x)} :
                   round' = [x \in Workers |->
                           IF round[x].at = "idle" THEN round[x]
                           ELSE IF x = v THEN [round[x] EXCEPT !.seen = ((@ \cup {w}) \ new(missed, deaf, x)) \cup skipped]
                           ELSE [round[x] EXCEPT !.seen = IF x \in twice THEN @ \ new(missed, deaf, x) ELSE @ \cup new(missed, deaf, x)]]
      BY <2>2, Zenon DEF PingFails
    <3>d. PICK deaf \in SUBSET (free \ missed) :
            \E skipped \in SUBSET (free \ missed), twice \in SUBSET {x \in free \ missed : v \in new(missed, deaf, x)} :
                   round' = [x \in Workers |->
                           IF round[x].at = "idle" THEN round[x]
                           ELSE IF x = v THEN [round[x] EXCEPT !.seen = ((@ \cup {w}) \ new(missed, deaf, x)) \cup skipped]
                           ELSE [round[x] EXCEPT !.seen = IF x \in twice THEN @ \ new(missed, deaf, x) ELSE @ \cup new(missed, deaf, x)]]
      BY <3>1
    <3>2. PICK skipped \in SUBSET (free \ missed), twice \in SUBSET {x \in free \ missed : v \in new(missed, deaf, x)} :
                   round' = [x \in Workers |->
                           IF round[x].at = "idle" THEN round[x]
                           ELSE IF x = v THEN [round[x] EXCEPT !.seen = ((@ \cup {w}) \ new(missed, deaf, x)) \cup skipped]
                           ELSE [round[x] EXCEPT !.seen = IF x \in twice THEN @ \ new(missed, deaf, x) ELSE @ \cup new(missed, deaf, x)]]
      BY <3>d
    <3> HIDE DEF new
    <3> QED
      BY <3>2
  <2> QED
    BY <2>1, <2>2
<1>3. \A x \in Workers : round[x] \in Round
  BY DEF TypeOK
<1> QED
  BY <1>1, <1>2, <1>3 DEF Round

\* The end of a round: what it acknowledges is of what it has counted, and
\* nothing else is lost of clients that are there.
LEMMA EndRoundAcks ==
    ASSUME TypeOK, NEW v \in Workers, EndRound(v), round[v].acks <= Len(toAck[v])
    PROVE  /\ toAck' = [toAck EXCEPT ![v] = toAck'[v]]
           /\ Range(toAck'[v]) \subseteq Range(toAck[v])
           /\ \E told :
                 /\ \A e \in told : \E i \in 1..round[v].acks : toAck[v][i] = e
                 /\ \A e \in Range(toAck[v]) : Author[e] \in online => e \in told \cup Range(toAck'[v])
                 /\ \/ told = {} /\ UNCHANGED <<acked, recounted>>
                    \/ /\ round[v].success >= MinNumWorkerConnections
                       /\ acked' = acked \cup {e \in told : Author[e] \in online}
                       /\ recounted' = recounted \cup
                            IF Cardinality(round[v].got) = round[v].success THEN {} ELSE told
<1> DEFINE s    == toAck[v]
           acks == round[v].acks
           gone == Cleaned(s, acks)
           keep == DOMAIN s \ gone
           kept == KeepIndices(s, keep)
           n    == acks - Cardinality(gone)
           told == {kept[i] : i \in 1..n}
<1> HIDE DEF gone, kept, keep, n
<1>1. s \in Seq(Elements) /\ Len(s) \in Nat /\ DOMAIN s = 1..Len(s) /\ acks \in 0..Len(s)
  <2>1. s \in Seq(Elements) /\ round[v] \in Round
    BY DEF TypeOK
  <2>2. acks \in Nat
    BY <2>1 DEF Round
  <2>3. Len(s) \in Nat /\ DOMAIN s = 1..Len(s)
    BY <2>1
  <2> HIDE DEF s, acks
  <2>4. acks <= Len(s)
    BY DEF s, acks
  <2> QED
    BY <2>1, <2>2, <2>3, <2>4
<1>2. gone \in SUBSET (1..acks) /\ \A i \in gone : Author[s[i]] \notin online
  BY <1>1, CleanedAreOff DEF gone
<1>3. Cardinality(gone) \in 0..acks /\ n \in Nat /\ n <= acks
  BY <1>1, <1>2, UpTo DEF n
<1>4. keep \in SUBSET DOMAIN s /\ keep = (1..Len(s)) \ gone
  BY <1>1 DEF keep
<1>5. /\ kept \in Seq(Elements) /\ Len(kept) = Cardinality(keep)
      /\ \A i \in keep : kept[Rank(i, keep)] = s[i]
      /\ \A k \in 1..Cardinality(keep) : \E i \in keep : Rank(i, keep) = k /\ kept[k] = s[i]
  <2>1. s \in Seq(Elements) /\ keep \in SUBSET DOMAIN s
    BY <1>1, <1>4
  <2>2. kept = KeepIndices(s, keep)
    BY DEF kept
  <2> HIDE DEF s
  <2>3. /\ KeepIndices(s, keep) \in Seq(Elements) /\ Len(KeepIndices(s, keep)) = Cardinality(keep)
        /\ \A i \in keep : KeepIndices(s, keep)[Rank(i, keep)] = s[i]
        /\ \A k \in 1..Cardinality(keep) :
              \E i \in keep : Rank(i, keep) = k /\ KeepIndices(s, keep)[k] = s[i]
    BY <2>1, KeepIndicesElements
  <2> QED
    BY <2>2, <2>3
<1>6. Range(kept) \subseteq Range(s)
  <2>1. ASSUME NEW x \in Range(kept) PROVE x \in Range(s)
    <3>1. PICK k \in 1..Len(kept) : kept[k] = x
      BY <1>5, RangeOf
    <3>2. PICK i \in keep : kept[k] = s[i]
      BY <1>5, <3>1
    <3> QED
      BY <1>1, <1>4, <3>1, <3>2, RangeOf
  <2> QED
    BY <2>1
<1>7. \A e \in Range(s) : Author[e] \in online => \E k \in 1..Len(kept) : kept[k] = e
  <2>1. ASSUME NEW e \in Range(s), Author[e] \in online
        PROVE  \E k \in 1..Len(kept) : kept[k] = e
    <3>1. PICK i \in 1..Len(s) : s[i] = e
      BY <1>1, RangeOf
    <3>2. i \in keep
      BY <1>2, <1>4, <2>1, <3>1
    <3>3. Rank(i, keep) \in 1..Cardinality(keep)
      BY <1>1, <1>4, <3>2, RankIsBijection
    <3> QED
      BY <1>5, <3>1, <3>2, <3>3
  <2> QED
    BY <2>1
<1>8. CASE /\ acks <= Len(kept)
           /\ round[v].success >= MinNumWorkerConnections
           /\ acked' = acked \cup {e \in told : Author[e] \in online}
           /\ recounted' = recounted \cup IF Cardinality(round[v].got) = round[v].success THEN {} ELSE told
           /\ toAck' = [toAck EXCEPT ![v] = SubSeq(kept, n + 1, Len(kept))]
  <2>1. /\ toAck'[v] = SubSeq(kept, n + 1, Len(kept))
        /\ toAck' = [toAck EXCEPT ![v] = toAck'[v]]
    BY <1>8 DEF TypeOK
  <2>2. /\ Range(toAck'[v]) \subseteq Range(kept)
        /\ \A k \in 1..Len(kept) : k > n => kept[k] \in Range(toAck'[v])
    BY <1>3, <1>5, <2>1, RangeOfRest
  <2>3. ASSUME NEW e \in told PROVE \E i \in 1..acks : s[i] = e
    <3>1. PICK k \in 1..n : kept[k] = e
      OBVIOUS
    <3>2. k \in 1..Cardinality(keep) /\ k <= n
      <4>1. Len(kept) \in Nat /\ acks \in Nat
        BY <1>1, <1>5
      <4> HIDE DEF acks
      <4> QED
        BY <1>3, <1>5, <1>8, <3>1, <4>1
    <3>3. PICK i \in keep : Rank(i, keep) = k /\ kept[k] = s[i]
      BY <1>5, <3>2
    <3>4. i \in 1..acks
      BY <1>1, <1>2, <1>4, <3>2, <3>3, FirstKept DEF n
    <3> QED
      BY <3>1, <3>3, <3>4
  <2>4. \A e \in Range(s) : Author[e] \in online => e \in told \cup Range(toAck'[v])
    <3>1. ASSUME NEW e \in Range(s), Author[e] \in online PROVE e \in told \cup Range(toAck'[v])
      <4>1. PICK k \in 1..Len(kept) : kept[k] = e
        BY <1>7, <3>1
      <4>2. CASE k > n
        BY <2>2, <4>1, <4>2
      <4>3. CASE ~(k > n)
        BY <1>3, <4>1, <4>3
      <4> QED
        BY <4>2, <4>3
    <3> QED
      BY <3>1
  <2> HIDE DEF told
  <2> QED
    BY <1>6, <1>8, <2>1, <2>2, <2>3, <2>4
<1>9. CASE toAck' = [toAck EXCEPT ![v] = kept] /\ UNCHANGED <<acked, recounted>>
  <2>1. toAck'[v] = kept /\ toAck' = [toAck EXCEPT ![v] = toAck'[v]]
    BY <1>9 DEF TypeOK
  <2>2. \A e \in Range(s) : Author[e] \in online => e \in {} \cup Range(toAck'[v])
    BY <1>5, <1>7, <2>1, RangeOf
  <2> QED
    BY <1>6, <1>9, <2>1, <2>2
<1> QED
  BY <1>8, <1>9 DEF EndRound, gone, kept, keep, n

-----------------------------------------------------------------------------
(***************************************************************************)
(* The steps keep the other parts of the invariant.                        *)
(***************************************************************************)
\* A worker that ends: calls to it are over, and its own are nobody's.
LEMMA EndCalls ==
    ASSUME TypeOK, NEW w \in Workers, End(w)
    PROVE  /\ \A c \in calls' : \E d \in calls :
                 /\ d.to # w /\ c.from = d.from /\ c.to = d.to /\ c.rest = d.rest
                 /\ c.live => c = d /\ d.from # w
           /\ \A v \in Workers : IF v = w THEN round'[v] = Idle
                 ELSE IF \E c \in calls : c.from = v /\ c.to = w /\ c.live
                 THEN round'[v] = [round[v] EXCEPT !.at = "loop"] ELSE round'[v] = round[v]
           /\ \A v \in Workers :
                 \/ round'[v] = Idle
                 \/ /\ round'[v].acks = round[v].acks /\ round'[v].queue = round[v].queue
                    /\ round'[v].got = round[v].got /\ round'[v].success = round[v].success
           /\ handling' = {e \in handling : HomeOf(e) # w} /\ alive' = alive \ {w}
<1>1. ASSUME NEW c \in calls'
      PROVE \E d \in calls : /\ d.to # w /\ c.from = d.from /\ c.to = d.to /\ c.rest = d.rest
                             /\ c.live => c = d /\ d.from # w
  <2>1. PICK d \in calls : d.to # w /\ c = IF d.from = w THEN [d EXCEPT !.live = FALSE] ELSE d
    BY DEF End
  <2>2. d \in Call
    BY DEF TypeOK
  <2>3. CASE d.from = w
    <3>1. c.from = d.from /\ c.to = d.to /\ c.rest = d.rest /\ c.live = FALSE
      BY <2>1, <2>2, <2>3 DEF Call
    <3> QED
      BY <2>1, <3>1
  <2> QED
    BY <2>1, <2>3
<1>2. \A v \in Workers : IF v = w THEN round'[v] = Idle
                 ELSE IF \E c \in calls : c.from = v /\ c.to = w /\ c.live
                 THEN round'[v] = [round[v] EXCEPT !.at = "loop"] ELSE round'[v] = round[v]
  BY DEF End
<1>3. \A v \in Workers : round[v] \in Round
  BY DEF TypeOK
<1>4. \A v \in Workers :
         \/ round'[v] = Idle
         \/ /\ round'[v].acks = round[v].acks /\ round'[v].queue = round[v].queue
            /\ round'[v].got = round[v].got /\ round'[v].success = round[v].success
  <2>1. ASSUME NEW r \in Round, NEW n, n = [r EXCEPT !.at = "loop"]
        PROVE  n.acks = r.acks /\ n.queue = r.queue /\ n.got = r.got /\ n.success = r.success
    BY <2>1 DEF Round
  <2> SUFFICES ASSUME NEW v \in Workers, round'[v] # Idle
               PROVE  /\ round'[v].acks = round[v].acks /\ round'[v].queue = round[v].queue
                      /\ round'[v].got = round[v].got /\ round'[v].success = round[v].success
    OBVIOUS
  <2>2. CASE round'[v] = round[v]
    BY <2>2
  <2>3. CASE round'[v] = [round[v] EXCEPT !.at = "loop"]
    BY <1>3, <2>1, <2>3
  <2> QED
    BY <1>2, <2>2, <2>3
<1>5. handling' = {e \in handling : HomeOf(e) # w} /\ alive' = alive \ {w}
  BY DEF End
<1> QED
  BY <1>1, <1>2, <1>4, <1>5

LEMMA IdleFacts ==
    /\ Idle.at = "idle" /\ Idle.acks = 0 /\ Idle.success = 0 /\ Idle.got = {}
    /\ Idle.queue = <<>> /\ Range(<<>>) = {}
  BY DEF Idle, Range

\* What is known stays known.
LEMMA KnownStays ==
    ASSUME TypeOK, [Next]_vars, NEW e \in Elements, Known(e)
    PROVE  Known(e)'
  BY HomeOfType, NextGrows DEF Known, HomeOf

\* A worker sends on only what its author's worker has.
LEMMA NextFromHome == TypeOK /\ RoundInv /\ FromHome /\ [Next]_vars => FromHome'
<1> SUFFICES ASSUME TypeOK, RoundInv, FromHome, [Next]_vars PROVE FromHome'
  OBVIOUS
<1>0. TypeOK' /\ \A e \in Elements : Known(e) => Known(e)'
  BY NextTypes, KnownStays
<1>t. /\ \A v \in Workers : /\ local[v] \in Seq(Elements) /\ toAck[v] \in Seq(Elements)
                            /\ round[v] \in Round /\ round[v].queue \in Seq(Elements)
                            /\ Range(local[v]) \cup Range(toAck[v]) \cup Range(round[v].queue) \subseteq Elements
      /\ handling \subseteq Elements
      /\ \A c \in calls : c \in Call /\ c.rest \in Seq(Elements) /\ Range(c.rest) \subseteq Elements
                          /\ c.from \in Workers /\ c.to \in Workers
  <2>1. \A v \in Workers : local[v] \in Seq(Elements) /\ toAck[v] \in Seq(Elements) /\ round[v] \in Round
    BY DEF TypeOK
  <2>2. \A v \in Workers : round[v].queue \in Seq(Elements)
    BY <2>1, RoundUpdates
  <2>3. \A c \in calls : c \in Call /\ c.rest \in Seq(Elements) /\ c.from \in Workers /\ c.to \in Workers
    BY CallUpdates DEF TypeOK
  <2>4. handling \subseteq Elements
    BY DEF TypeOK
  <2>5. \A s \in Seq(Elements) : Range(s) \subseteq Elements
    BY RangeOf
  <2> QED
    BY <2>1, <2>2, <2>3, <2>4, <2>5
<1>h. \A e : HomeOf(e)' = HomeOf(e)
  BY DEF HomeOf
\* The parts, each of which a step changes or leaves.
<1> DEFINE Locals(v) == \A e \in Range(local'[v]) : e \in Range(local[v]) \/ (e \in Elements /\ Known(e)')
           Acks(v)   == \A e \in Range(toAck'[v]) : e \in Range(toAck[v]) \/ (HomeOf(e) = v /\ Known(e)')
           Queues(v) == \A e \in Range(round'[v].queue) :
                           e \in Range(round[v].queue) \cup Range(local[v]) \cup Range(toAck[v])
           Handled   == \A e \in handling' : e \in handling \/ Known(e)'
           Calls     == \A c \in calls' : \A e \in Range(c.rest) :
                           \/ \E d \in calls : e \in Range(d.rest)
                           \/ \E v \in Workers : e \in Range(round[v].queue)
<1>a. ASSUME \A v \in Workers : Locals(v) /\ Acks(v) /\ Queues(v), Handled, Calls
      PROVE  FromHome'
  <2>1. \A v \in Workers : \A e \in Range(local'[v]) \cup Range(round'[v].queue) : Known(e)'
    BY <1>0, <1>t, <1>a DEF FromHome
  <2>2. \A v \in Workers : \A e \in Range(toAck'[v]) : HomeOf(e) = v /\ Known(e)'
    BY <1>0, <1>t, <1>a DEF FromHome
  <2>3. \A e \in handling' : Known(e)'
    BY <1>0, <1>t, <1>a DEF FromHome
  <2>4. \A c \in calls' : \A e \in Range(c.rest) : Known(e)'
    BY <1>0, <1>t, <1>a DEF FromHome
  <2> QED
    BY <2>1, <2>2, <2>3, <2>4, <1>h DEF FromHome
<1> HIDE DEF Locals, Acks, Queues, Handled, Calls
<1>b. /\ local' = local => \A v \in Workers : Locals(v)
      /\ toAck' = toAck => \A v \in Workers : Acks(v)
      /\ (\A v \in Workers : round'[v].queue = round[v].queue \/ round'[v] = Idle) => \A v \in Workers : Queues(v)
      /\ handling' \subseteq handling => Handled
      /\ calls' \subseteq calls => Calls
  BY IdleFacts DEF Locals, Acks, Queues, Handled, Calls
<1>c. ASSUME NEW w \in Workers, End(w)
      PROVE  (\A v \in Workers : Queues(v)) /\ Handled /\ Calls
  <2>1. \A v \in Workers : round'[v].queue = round[v].queue \/ round'[v] = Idle
    BY <1>c, EndCalls
  <2>2. Calls
    BY <1>c, EndCalls DEF Calls
  <2>3. handling' \subseteq handling
    BY <1>c, EndCalls
  <2> QED
    BY <1>b, <2>1, <2>2, <2>3
<1>1. CASE UNCHANGED vars
  BY <1>1, <1>a, <1>b DEF vars, dataVars
<1>2. ASSUME NEW e \in Elements, Handle(e) PROVE FromHome'
  <2>1. HomeOf(e) \in Workers /\ Known(e)'
    BY <1>2, HomeOfType, <1>h DEF Handle, Add, Known, TypeOK
  <2>2. ASSUME NEW v \in Workers PROVE Locals(v)
    <3>1. CASE v = HomeOf(e)
      <4>1. local'[v] = Append(local[v], e)
        BY <1>2, <3>1 DEF Handle, Add, TypeOK
      <4> QED
        BY <4>1, <2>1, <1>t, RangeOfAppend DEF Locals
    <3>2. CASE v # HomeOf(e)
      BY <1>2, <3>2, <2>1 DEF Handle, Add, TypeOK, Locals
    <3> QED
      BY <3>1, <3>2
  <2>3. Handled
    BY <1>2, <2>1 DEF Handle, Handled
  <2> QED
    BY <1>2, <1>a, <1>b, <2>2, <2>3 DEF Handle
<1>3. ASSUME NEW e \in Elements, QueueAck(e) PROVE FromHome'
  <2>1. HomeOf(e) \in Workers /\ Known(e)'
    BY <1>3, <1>0, HomeOfType DEF QueueAck, FromHome
  <2>2. ASSUME NEW v \in Workers PROVE Acks(v)
    <3>1. CASE v = HomeOf(e)
      <4>1. toAck'[v] = Append(toAck[v], e)
        BY <1>3, <3>1 DEF QueueAck, TypeOK
      <4> QED
        BY <4>1, <2>1, <3>1, <1>t, RangeOfAppend DEF Acks
    <3>2. CASE v # HomeOf(e)
      BY <1>3, <3>2, <2>1 DEF QueueAck, TypeOK, Acks
    <3> QED
      BY <3>1, <3>2
  <2> QED
    BY <1>3, <1>a, <1>b, <2>2 DEF QueueAck
<1>4. ASSUME NEW c \in calls, Apply(c) PROVE FromHome'
  <2> DEFINE e == Head(c.rest)
  <2>1. c.rest # <<>> /\ c.to \in Workers /\ e \in Elements /\ e \in Range(c.rest) /\ Known(e)
    BY <1>4, <1>t, CallUpdates, RangeOfTail DEF Apply, FromHome
  <2> HIDE DEF e
  <2>2. CASE End(c.to) /\ UNCHANGED <<session, local>>
    BY <1>4, <2>1, <2>2, <1>a, <1>b, <1>c DEF Apply
  <2>3. CASE /\ UNCHANGED <<session, local>> \/ Add(c.to, e)
             /\ calls' = (calls \ {c}) \cup {[c EXCEPT !.rest = Tail(@)]}
             /\ UNCHANGED <<handling, round, alive>>
    <3>1. ASSUME NEW v \in Workers PROVE Locals(v)
      <4>1. CASE Add(c.to, e) /\ v = c.to
        <5>1. local'[v] = Append(local[v], e)
          BY <4>1, <2>1 DEF Add, TypeOK
        <5> QED
          BY <5>1, <2>1, <1>0, <1>t, RangeOfAppend DEF Locals
      <4>2. CASE UNCHANGED <<session, local>> \/ v # c.to
        <5>1. local'[v] = local[v]
          BY <4>2, <2>3, <2>1 DEF Add, TypeOK
        <5> QED
          BY <5>1 DEF Locals
      <4> QED
        BY <2>3, <4>1, <4>2
    <3>2. Calls
      <4>1. [c EXCEPT !.rest = Tail(@)].rest = Tail(c.rest)
        BY <1>t DEF Call
      <4>2. Range(Tail(c.rest)) \subseteq Range(c.rest)
        BY <1>t, <2>1, RangeOfTail
      <4> QED
        BY <2>3, <4>1, <4>2 DEF Calls
    <3> QED
      BY <1>4, <2>3, <3>1, <3>2, <1>a, <1>b DEF Apply
  <2> QED
    BY <1>4, <2>2, <2>3 DEF Apply, e
<1>5. ASSUME NEW c \in calls, Reply(c) PROVE FromHome'
  <2>1. \A v \in Workers : round'[v].queue = round[v].queue
    BY <1>5, <1>t DEF Reply, Round, TypeOK
  <2> QED
    BY <1>5, <2>1, <1>a, <1>b DEF Reply, dataVars
<1>6. ASSUME NEW v \in Workers, Collect(v) PROVE FromHome'
  <2>1. /\ round'[v].queue = local[v] \o toAck[v]
        /\ \A x \in Workers \ {v} : round'[x] = round[x]
    BY <1>6 DEF Collect, TypeOK
  <2>2. Range(local[v] \o toAck[v]) = Range(local[v]) \cup Range(toAck[v])
    BY <1>t, RangeOfConcat
  <2>3. \A x \in Workers : Queues(x)
    BY <2>1, <2>2 DEF Queues
  <2> QED
    BY <1>6, <2>3, <1>a, <1>b DEF Collect, dataVars
<1>7. ASSUME NEW v \in Workers, EndRound(v) PROVE FromHome'
  <2>1. /\ toAck' = [toAck EXCEPT ![v] = toAck'[v]]
        /\ Range(toAck'[v]) \subseteq Range(toAck[v])
    BY <1>7, EndRoundAcks DEF RoundInv, Counts
  <2>2. ASSUME NEW x \in Workers PROVE Acks(x)
    <3>1. CASE x = v
      BY <2>1, <3>1 DEF Acks
    <3>2. CASE x # v
      <4>1. toAck'[x] = toAck[x]
        BY <2>1, <3>2 DEF TypeOK
      <4> QED
        BY <4>1 DEF Acks
    <3> QED
      BY <3>1, <3>2
  <2>3. ASSUME NEW x \in Workers PROVE Locals(x)
    <3>1. CASE x = v
      <4>1. local'[v] = SubSeq(local[v], round[v].locals + 1, Len(local[v])) /\ round[v].locals \in Nat
        BY <1>7, RoundUpdates DEF EndRound, TypeOK
      <4> QED
        BY <1>t, <3>1, <4>1, RangeOfRest DEF Locals
    <3>2. CASE x # v
      <4>1. local'[x] = local[x]
        BY <1>7, <3>2 DEF EndRound, TypeOK
      <4> QED
        BY <4>1 DEF Locals
    <3> QED
      BY <3>1, <3>2
  <2>4. \A x \in Workers : round'[x].queue = round[x].queue \/ round'[x] = Idle
    BY <1>7 DEF EndRound, TypeOK
  <2> QED
    BY <1>7, <2>2, <2>3, <2>4, <1>a, <1>b DEF EndRound
<1>8. ASSUME NEW v \in Workers, Crash(v) PROVE FromHome'
  BY <1>8, <1>a, <1>b, <1>c DEF Crash
<1>9. ASSUME NEW v \in Workers, NEW w \in Workers, Visit(v, w) PROVE FromHome'
  <2>1. \A x \in Workers : round'[x].queue = round[x].queue
    BY <1>9, <1>t DEF Visit, Round, TypeOK
  <2>2. Calls
    BY <1>9 DEF Visit, Calls
  <2> QED
    BY <1>9, <2>1, <2>2, <1>a, <1>b DEF Visit, dataVars
<1>10. ASSUME NEW v \in Workers, NEW w \in Workers, PingFails(v, w) PROVE FromHome'
  BY <1>10, <1>a, <1>b, PingFailsRounds
<1>11. ASSUME NEW v \in Workers, NEW w \in Workers, Break(v, w) PROVE FromHome'
  <2>1. \A x \in Workers : round'[x].queue = round[x].queue
    BY <1>11, <1>t DEF Break, Round, TypeOK
  <2>2. Calls
    <3>1. \A c \in calls : [c EXCEPT !.live = FALSE].rest = c.rest
      BY <1>t DEF Call
    <3>2. \A c \in calls' : \E d \in calls : c = d \/ c = [d EXCEPT !.live = FALSE]
      BY <1>11 DEF Break
    <3> QED
      BY <3>1, <3>2 DEF Calls
  <2> QED
    BY <1>11, <2>1, <2>2, <1>a, <1>b DEF Break, dataVars
<1>12. ASSUME NEW c \in Clients, Leave(c) PROVE FromHome'
  BY <1>12, <1>a, <1>b DEF Leave, dataVars
<1> QED
  BY <1>1, <1>2, <1>3, <1>4, <1>5, <1>6, <1>7, <1>8, <1>9, <1>10, <1>11, <1>12 DEF Next

\* What has been sent in the call of a round stays sent or to be applied.
LEMMA EndCallInv ==
    ASSUME TypeOK, CallInv, NEW w \in Workers, End(w), session' = session
    PROVE  CallInv'
<1>1. ASSUME NEW c \in calls', c.live PROVE c \in calls /\ c.from # w /\ c.to # w /\ round'[c.from] = round[c.from]
  <2>1. c \in calls /\ c.from # w /\ c.to # w
    BY <1>1, EndCalls
  <2>2. c.from \in Workers /\ ~\E d \in calls : d.from = c.from /\ d.to = w /\ d.live
    BY <1>1, <2>1, CallUpdates DEF CallInv, TypeOK
  <2> QED
    BY <2>1, <2>2, EndCalls
<1>2. \A c \in calls' : c.from # c.to
  BY EndCalls DEF CallInv
<1> QED
  BY <1>1, <1>2 DEF CallInv

LEMMA NextCallInv == TypeOK /\ CallInv /\ [Next]_vars => CallInv'
<1> SUFFICES ASSUME TypeOK, CallInv, [Next]_vars PROVE CallInv'
  OBVIOUS
<1>t. /\ \A c \in calls : c \in Call /\ c.rest \in Seq(Elements) /\ c.from \in Workers /\ c.to \in Workers
      /\ \A v \in Workers : round[v] \in Round /\ round[v].queue \in Seq(Elements)
      /\ \A w \in Workers : session[w] \subseteq session'[w]
      /\ round \in [Workers -> Round]
  BY CallUpdates, RoundUpdates, NextGrows DEF TypeOK
\* The call of a worker whose round goes on as it was.
<1>a. ASSUME calls' \subseteq calls,
             \A c \in calls' : c.live => /\ round'[c.from].at = round[c.from].at
                                         /\ round'[c.from].queue = round[c.from].queue
      PROVE  CallInv'
  BY <1>a, <1>t DEF CallInv
<1>1. CASE UNCHANGED vars
  BY <1>1, <1>a DEF vars
<1>2. ASSUME NEW e \in Elements, Handle(e) \/ QueueAck(e) PROVE CallInv'
  BY <1>2, <1>a DEF Handle, QueueAck
<1>4. ASSUME NEW c \in calls, Apply(c) PROVE CallInv'
  <2> DEFINE e == Head(c.rest)
             next == [c EXCEPT !.rest = Tail(@)]
  <2>1. c.rest # <<>> /\ c.to \in Workers /\ e \in Elements /\ Range(c.rest) = {e} \cup Range(Tail(c.rest))
    BY <1>4, <1>t, CallUpdates, RangeOfTail DEF Apply
  <2>2. next.from = c.from /\ next.to = c.to /\ next.live = c.live /\ next.rest = Tail(c.rest)
    BY <1>t DEF Call
  <2> HIDE DEF e, next
  <2>3. CASE End(c.to) /\ UNCHANGED <<session, local>>
    BY <1>4, <2>1, <2>3, EndCallInv
  <2>4. CASE /\ (e \in session[c.to] /\ UNCHANGED <<session, local>>) \/ Add(c.to, e)
             /\ calls' = (calls \ {c}) \cup {next}
             /\ UNCHANGED <<handling, round, alive>>
    <3>1. e \in session'[c.to]
      BY <2>1, <2>4 DEF Add, TypeOK
    <3>2. ASSUME NEW d \in calls'
          PROVE  /\ d.from # d.to
                 /\ d.live => /\ round'[d.from].at = "calling"
                              /\ \A x \in Range(round'[d.from].queue) : x \in session'[d.to] \cup Range(d.rest)
      <4>1. CASE d = next
        BY <4>1, <2>1, <2>2, <2>4, <3>1, <1>t DEF CallInv
      <4>2. CASE d # next
        BY <4>2, <2>4, <1>t DEF CallInv
      <4> QED
        BY <4>1, <4>2
    <3>3. \A b, d \in calls' : b.live /\ d.live /\ b.from = d.from => b = d
      BY <2>2, <2>4 DEF CallInv
    <3> QED
      BY <3>2, <3>3 DEF CallInv
  <2> QED
    BY <1>4, <2>3, <2>4 DEF Apply, e, next
<1>5. ASSUME NEW c \in calls, Reply(c) PROVE CallInv'
  <2>1. ASSUME NEW d \in calls', d.live PROVE round'[d.from] = round[d.from]
    <3>1. d # c /\ d \in calls
      BY <1>5 DEF Reply
    <3>2. CASE c.live
      <4>1. d.from # c.from
        BY <2>1, <3>1, <3>2 DEF CallInv
      <4> QED
        BY <1>5, <1>t, <3>1, <4>1 DEF Reply
    <3>3. CASE ~c.live
      BY <1>5, <3>3 DEF Reply
    <3> QED
      BY <3>2, <3>3
  <2> QED
    BY <1>5, <2>1, <1>a DEF Reply
<1>6. ASSUME NEW v \in Workers, Collect(v) \/ EndRound(v) PROVE CallInv'
  <2>1. /\ round[v].at # "calling" /\ calls' = calls
        /\ \A x \in Workers \ {v} : round'[x] = round[x]
    BY <1>6, <1>t DEF Collect, EndRound
  <2>2. \A c \in calls : c.live => c.from # v
    BY <2>1 DEF CallInv
  <2> QED
    BY <2>1, <2>2, <1>a, <1>t
<1>8. ASSUME NEW v \in Workers, Crash(v) PROVE CallInv'
  BY <1>8, EndCallInv DEF Crash
<1>9. ASSUME NEW v \in Workers, NEW w \in Workers, Visit(v, w) PROVE CallInv'
  <2> DEFINE new == [from |-> v, to |-> w, rest |-> round[v].queue, live |-> TRUE]
  <2>1. /\ round[v].at = "loop" /\ v # w /\ calls' = calls \cup {new}
        /\ \A x \in Workers \ {v} : round'[x] = round[x]
        /\ round'[v].at = "calling" /\ round'[v].queue = round[v].queue
    BY <1>9, <1>t DEF Visit, TypeOK, Peers, Round
  <2>2. \A c \in calls : c.live => c.from # v
    BY <2>1 DEF CallInv
  <2>3. new.from = v /\ new.to = w /\ new.rest = round[v].queue
    OBVIOUS
  <2> HIDE DEF new
  <2>4. ASSUME NEW c \in calls'
        PROVE  /\ c.from # c.to
               /\ c.live => /\ round'[c.from].at = "calling"
                            /\ \A e \in Range(round'[c.from].queue) : e \in session'[c.to] \cup Range(c.rest)
    <3>1. CASE c = new
      BY <2>1, <2>3, <3>1
    <3>2. CASE c # new
      BY <2>1, <2>2, <3>2, <1>t DEF CallInv
    <3> QED
      BY <3>1, <3>2
  <2>5. \A c, d \in calls' : c.live /\ d.live /\ c.from = d.from => c = d
    BY <2>1, <2>2, <2>3 DEF CallInv
  <2> QED
    BY <2>4, <2>5 DEF CallInv
<1>10. ASSUME NEW v \in Workers, NEW w \in Workers, PingFails(v, w) PROVE CallInv'
  BY <1>10, <1>a, <1>t, PingFailsRounds
<1>11. ASSUME NEW v \in Workers, NEW w \in Workers, Break(v, w) PROVE CallInv'
  <2> DEFINE cut == {c \in calls : c.from = v /\ c.to = w /\ c.live}
             off(c) == [c EXCEPT !.live = FALSE]
  <2>1. \A c \in calls : off(c).from = c.from /\ off(c).to = c.to /\ off(c).live = FALSE /\ off(c).rest = c.rest
    BY <1>t DEF Call
  <2>2. \A c \in calls' : (c \in calls /\ c \notin cut) \/ \E d \in calls : c = off(d)
    BY <1>11 DEF Break
  <2>3. ASSUME NEW c \in calls', c.live PROVE c \in calls /\ round'[c.from] = round[c.from]
    <3>1. c \in calls /\ c \notin cut
      BY <2>1, <2>2, <2>3
    <3>2. CASE cut = {}
      BY <1>11, <3>1, <3>2 DEF Break
    <3>3. CASE cut # {}
      <4>1. c.from # v
        BY <2>3, <3>1, <3>3 DEF CallInv
      <4> QED
        BY <1>11, <1>t, <3>1, <4>1 DEF Break
    <3> QED
      BY <3>2, <3>3
  <2> HIDE DEF off, cut
  <2>4. \A c \in calls' : c.from # c.to
    BY <2>1, <2>2 DEF CallInv
  <2>5. \A c \in calls' : c.live => /\ round'[c.from].at = "calling"
                                    /\ \A e \in Range(round'[c.from].queue) : e \in session'[c.to] \cup Range(c.rest)
    BY <2>3, <1>t DEF CallInv
  <2>6. \A c, d \in calls' : c.live /\ d.live /\ c.from = d.from => c = d
    BY <2>3 DEF CallInv
  <2> QED
    BY <2>4, <2>5, <2>6 DEF CallInv
<1>12. ASSUME NEW c \in Clients, Leave(c) PROVE CallInv'
  BY <1>12, <1>a DEF Leave
<1> QED
  BY <1>1, <1>2, <1>4, <1>5, <1>6, <1>8, <1>9, <1>10, <1>11, <1>12 DEF Next

\* A round acknowledges what it has sent, and knows who has it.
LEMMA NextRoundInv == TypeOK /\ CallInv /\ RoundInv /\ [Next]_vars => RoundInv'
<1> SUFFICES ASSUME TypeOK, CallInv, \A v \in Workers : Counts(v), [Next]_vars
             PROVE  \A v \in Workers : Counts(v)'
  BY DEF RoundInv
<1>0. TypeOK'
  BY NextTypes
<1>t. /\ \A v \in Workers : round[v] \in Round /\ round[v].queue \in Seq(Elements) /\ toAck[v] \in Seq(Elements)
                            /\ round[v].acks \in Nat /\ round[v].success \in Nat /\ round[v].got \subseteq Workers
      /\ \A w \in Workers : session[w] \subseteq session'[w]
      /\ alive' \subseteq alive
      /\ round \in [Workers -> Round] /\ toAck \in [Workers -> Seq(Elements)]
  BY RoundUpdates, NextGrows DEF TypeOK
<1>i. ASSUME NEW v \in Workers, round'[v] = Idle PROVE Counts(v)'
  <2>1. toAck'[v] \in Seq(Elements)
    BY <1>0 DEF TypeOK
  <2> QED
    BY <1>i, <2>1, IdleFacts, FS_EmptySet DEF Counts
\* A round that goes on.
<1>s. ASSUME NEW v \in Workers, toAck'[v] = toAck[v],
             round'[v].acks = round[v].acks, round'[v].queue = round[v].queue,
             round'[v].got = round[v].got, round'[v].success = round[v].success
      PROVE  Counts(v)'
  BY <1>s, <1>t DEF Counts
<1>e. ASSUME NEW w \in Workers, End(w), toAck' = toAck, NEW v \in Workers PROVE Counts(v)'
  BY <1>e, <1>i, <1>s, EndCalls
<1> SUFFICES ASSUME NEW v \in Workers PROVE Counts(v)'
  OBVIOUS
<1>1. CASE UNCHANGED vars
  BY <1>1, <1>s DEF vars, dataVars
<1>2. ASSUME NEW e \in Elements, Handle(e) PROVE Counts(v)'
  BY <1>2, <1>s DEF Handle
<1>3. ASSUME NEW e \in Elements, QueueAck(e) PROVE Counts(v)'
  <2>1. CASE v = HomeOf(e)
    <3>1. toAck'[v] = Append(toAck[v], e) /\ round' = round /\ UNCHANGED <<session, alive>>
      BY <1>3, <1>t, <2>1 DEF QueueAck
    <3>2. Len(toAck'[v]) = Len(toAck[v]) + 1 /\ \A i \in 1..Len(toAck[v]) : toAck'[v][i] = toAck[v][i]
      BY <1>t, <3>1
    <3>3. Len(toAck[v]) \in Nat /\ \A i \in 1..round[v].acks : i \in 1..Len(toAck[v])
      BY <1>t DEF Counts
    <3> QED
      BY <1>t, <3>1, <3>2, <3>3 DEF Counts
  <2>2. CASE v # HomeOf(e)
    BY <1>3, <1>t, <2>2, <1>s DEF QueueAck
  <2> QED
    BY <2>1, <2>2
<1>4. ASSUME NEW c \in calls, Apply(c) PROVE Counts(v)'
  <2>1. c.to \in Workers
    BY CallUpdates DEF TypeOK
  <2> QED
    BY <1>4, <2>1, <1>e, <1>s DEF Apply
<1>5. ASSUME NEW c \in calls, Reply(c) PROVE Counts(v)'
  <2>1. c \in Call /\ c.from \in Workers /\ c.to \in Workers /\ c.rest = <<>> /\ c.live \in BOOLEAN
    BY <1>5, CallUpdates DEF Reply, TypeOK
  <2>2. CASE c.live /\ v = c.from
    <3>1. /\ round'[v].acks = round[v].acks /\ round'[v].queue = round[v].queue
          /\ round'[v].got = round[v].got \cup {c.to} /\ round'[v].success = round[v].success + 1
          /\ UNCHANGED <<toAck, session, alive>>
      BY <1>5, <1>t, <2>1, <2>2 DEF Reply, Round, dataVars
    <3>2. c.to # v /\ \A e \in Range(round[v].queue) : e \in session[c.to]
      BY <2>1, <2>2, IdleFacts DEF CallInv
    <3>3. Cardinality(round[v].got \cup {c.to}) <= Cardinality(round[v].got) + 1 /\ Cardinality(round[v].got) \in Nat
          /\ Cardinality(round[v].got \cup {c.to}) \in Nat
      <4>1. IsFiniteSet(round[v].got)
        BY <1>t, MeshAssumption, FS_Subset
      <4> DEFINE g == round[v].got
      <4>2. IsFiniteSet(g)
        BY <4>1
      <4> HIDE DEF g
      <4>3. IsFiniteSet(g \cup {c.to}) /\ Cardinality(g \cup {c.to}) = IF c.to \in g THEN Cardinality(g) ELSE Cardinality(g) + 1
        BY <4>2, FS_AddElement
      <4>4. Cardinality(g) \in Nat /\ Cardinality(g \cup {c.to}) \in Nat
        BY <4>2, <4>3, FS_CardinalityType
      <4>5. Cardinality(g \cup {c.to}) <= Cardinality(g) + 1
        BY <4>3, <4>4
      <4> QED
        BY <4>4, <4>5 DEF g
    <3>4. Cardinality(round'[v].got) <= round'[v].success
      <4>1. Cardinality(round[v].got) <= round[v].success
        BY DEF Counts
      <4> QED
        BY <1>t, <3>1, <3>3, <4>1
    <3> QED
      BY <1>t, <3>1, <3>2, <3>4 DEF Counts
  <2>3. CASE ~(c.live /\ v = c.from)
    <3>1. round'[v] = round[v]
      BY <1>5, <1>t, <2>1, <2>3 DEF Reply
    <3> QED
      BY <1>5, <3>1, <1>s DEF Reply, dataVars
  <2> QED
    BY <2>2, <2>3
<1>6. ASSUME NEW u \in Workers, Collect(u) PROVE Counts(v)'
  <2>1. CASE u = v
    <3>1. /\ round'[v].acks = Len(toAck[v]) /\ round'[v].queue = local[v] \o toAck[v]
          /\ round'[v].got = {} /\ round'[v].success = 0 /\ UNCHANGED toAck
      BY <1>6, <1>t, <2>1 DEF Collect, dataVars
    <3>2. local[v] \in Seq(Elements) /\ Range(local[v] \o toAck[v]) = Range(local[v]) \cup Range(toAck[v])
      BY <1>t, RangeOfConcat DEF TypeOK
    <3>3. Len(toAck[v]) \in Nat /\ \A i \in 1..Len(toAck[v]) : toAck[v][i] \in Range(toAck[v])
      BY <1>t, RangeOf
    <3> QED
      BY <3>1, <3>2, <3>3, FS_EmptySet DEF Counts
  <2>2. CASE u # v
    BY <1>6, <1>t, <2>2, <1>s DEF Collect, dataVars
  <2> QED
    BY <2>1, <2>2
<1>7. ASSUME NEW u \in Workers, EndRound(u) PROVE Counts(v)'
  <2>1. CASE u = v
    BY <1>7, <1>t, <2>1, <1>i DEF EndRound
  <2>2. CASE u # v
    <3>1. u \in Workers /\ Counts(u)
      OBVIOUS
    <3>2. toAck' = [toAck EXCEPT ![u] = toAck'[u]]
      BY <1>7, <3>1, EndRoundAcks DEF Counts
    <3> QED
      BY <1>7, <1>t, <2>2, <3>2, <1>s DEF EndRound
  <2> QED
    BY <2>1, <2>2
<1>8. ASSUME NEW u \in Workers, Crash(u) PROVE Counts(v)'
  BY <1>8, <1>e DEF Crash
<1>9. ASSUME NEW u \in Workers, NEW w \in Workers, Visit(u, w) PROVE Counts(v)'
  <2>1. /\ round'[v].acks = round[v].acks /\ round'[v].queue = round[v].queue
        /\ round'[v].got = round[v].got /\ round'[v].success = round[v].success
    BY <1>9, <1>t DEF Visit, Round
  <2> QED
    BY <1>9, <2>1, <1>s DEF Visit, dataVars
<1>10. ASSUME NEW u \in Workers, NEW w \in Workers, PingFails(u, w) PROVE Counts(v)'
  BY <1>10, <1>s, PingFailsRounds
<1>11. ASSUME NEW u \in Workers, NEW w \in Workers, Break(u, w) PROVE Counts(v)'
  <2>1. /\ round'[v].acks = round[v].acks /\ round'[v].queue = round[v].queue
        /\ round'[v].got = round[v].got /\ round'[v].success = round[v].success
    BY <1>11, <1>t DEF Break, Round
  <2> QED
    BY <1>11, <2>1, <1>s DEF Break, dataVars
<1>12. ASSUME NEW c \in Clients, Leave(c) PROVE Counts(v)'
  BY <1>12, <1>s DEF Leave, dataVars
<1> QED
  BY <1>1, <1>2, <1>3, <1>4, <1>5, <1>6, <1>7, <1>8, <1>9, <1>10, <1>11, <1>12 DEF Next

\* Whatever is typed waits with its worker for its acknowledgement: what
\* arrives from others at the worker of its author is there already.
LEMMA NextForgotten ==
    TypeOK /\ FromHome /\ RoundInv /\ NothingForgotten /\ [Next]_vars => NothingForgotten'
<1> SUFFICES ASSUME TypeOK, FromHome, RoundInv, NothingForgotten, [Next]_vars, NEW x \in Elements,
                    x \in session'[HomeOf(x)], HomeOf(x) \in alive', Author[x] \in online'
             PROVE  x \in acked' \cup handling' \cup Range(toAck'[HomeOf(x)])
  BY DEF NothingForgotten, HomeOf
<1> DEFINE home == HomeOf(x)
<1>0. home \in Workers /\ home \in alive /\ Author[x] \in online /\ TypeOK'
  BY HomeOfType, NextGrows, NextTypes
<1>a. ASSUME x \in session[home] PROVE x \in acked \cup handling \cup Range(toAck[home])
  BY <1>0, <1>a DEF NothingForgotten
<1>b. ASSUME session' = session, acked' = acked, handling' = handling, toAck' = toAck
      PROVE  x \in acked' \cup handling' \cup Range(toAck'[home])
  BY <1>a, <1>b
<1>1. CASE UNCHANGED vars
  BY <1>1, <1>b DEF vars, dataVars
<1>2. ASSUME NEW e \in Elements, Handle(e) PROVE x \in acked' \cup handling' \cup Range(toAck'[home])
  <2>1. CASE x = e
    BY <1>2, <2>1 DEF Handle
  <2>2. CASE x # e
    <3>1. x \in session[home]
      BY <1>2, <2>2, <1>0 DEF Handle, Add, TypeOK
    <3> QED
      BY <1>2, <3>1, <1>a DEF Handle
  <2> QED
    BY <2>1, <2>2
<1>3. ASSUME NEW e \in Elements, QueueAck(e) PROVE x \in acked' \cup handling' \cup Range(toAck'[home])
  <2>1. x \in acked \cup handling \cup Range(toAck[home])
    BY <1>3, <1>a DEF QueueAck
  <2>2. HomeOf(e) \in Workers /\ toAck[home] \in Seq(Elements)
    BY <1>0, HomeOfType DEF TypeOK
  <2>3. CASE home = HomeOf(e)
    <3>1. toAck'[home] = Append(toAck[home], e)
      BY <1>3, <2>2, <2>3 DEF QueueAck, TypeOK
    <3>2. Range(toAck'[home]) = Range(toAck[home]) \cup {e}
      BY <2>2, <3>1, RangeOfAppend
    <3> QED
      BY <1>3, <2>1, <3>2 DEF QueueAck
  <2>4. CASE home # HomeOf(e)
    <3>1. toAck'[home] = toAck[home] /\ x # e
      BY <1>0, <1>3, <2>2, <2>4 DEF QueueAck, TypeOK
    <3> QED
      BY <1>3, <2>1, <3>1 DEF QueueAck
  <2> QED
    BY <2>3, <2>4
<1>e. ASSUME NEW w \in Workers, End(w), UNCHANGED <<session, acked, toAck>>
      PROVE  x \in acked' \cup handling' \cup Range(toAck'[home])
  <2>1. home # w /\ handling' = {e \in handling : HomeOf(e) # w}
    BY <1>0, <1>e, EndCalls
  <2> QED
    BY <1>a, <1>e, <2>1
<1>4. ASSUME NEW c \in calls, Apply(c) PROVE x \in acked' \cup handling' \cup Range(toAck'[home])
  <2> DEFINE e == Head(c.rest)
  <2>1. c.rest # <<>> /\ c.to \in Workers /\ c \in Call /\ e \in Elements /\ Range(c.rest) = {e} \cup Range(Tail(c.rest))
    BY <1>4, CallUpdates, RangeOfTail DEF Apply, TypeOK
  <2>2. Known(e)
    BY <2>1 DEF FromHome
  <2> HIDE DEF e
  <2>3. CASE End(c.to) /\ UNCHANGED <<session, local>>
    BY <1>4, <1>e, <2>1, <2>3 DEF Apply
  <2>4. CASE UNCHANGED <<session, handling>>
    BY <1>4, <1>b, <2>4 DEF Apply
  <2>5. CASE Add(c.to, e) /\ UNCHANGED handling
    <3>1. x \in session[home]
      <4>1. CASE x = e
        BY <2>2, <4>1 DEF Known
      <4>2. CASE x # e
        BY <1>0, <2>1, <2>5, <4>2 DEF Add, TypeOK
      <4> QED
        BY <4>1, <4>2
    <3> QED
      BY <1>4, <1>a, <2>5, <3>1 DEF Apply
  <2> QED
    BY <1>4, <2>3, <2>4, <2>5 DEF Apply, e
<1>5. ASSUME NEW c \in calls, Reply(c) PROVE x \in acked' \cup handling' \cup Range(toAck'[home])
  BY <1>5, <1>b DEF Reply, dataVars
<1>6. ASSUME NEW v \in Workers, Collect(v) PROVE x \in acked' \cup handling' \cup Range(toAck'[home])
  BY <1>6, <1>b DEF Collect, dataVars
<1>7. ASSUME NEW v \in Workers, EndRound(v) PROVE x \in acked' \cup handling' \cup Range(toAck'[home])
  <2>1. x \in acked \cup handling \cup Range(toAck[home])
    BY <1>7, <1>a DEF EndRound
  <2>2. round[v].acks <= Len(toAck[v])
    BY DEF RoundInv, Counts
  <2>3. /\ toAck' = [toAck EXCEPT ![v] = toAck'[v]]
        /\ acked \subseteq acked' /\ handling' = handling
        /\ v = home => \A e \in Range(toAck[v]) : Author[e] \in online => e \in acked' \cup Range(toAck'[v])
    <3>1. PICK told :
                 /\ \A e \in Range(toAck[v]) : Author[e] \in online => e \in told \cup Range(toAck'[v])
                 /\ \/ told = {} /\ UNCHANGED <<acked, recounted>>
                    \/ acked' = acked \cup {e \in told : Author[e] \in online}
      BY <1>7, <2>2, EndRoundAcks
    <3>2. toAck' = [toAck EXCEPT ![v] = toAck'[v]] /\ handling' = handling
      BY <1>7, <2>2, EndRoundAcks DEF EndRound
    <3> QED
      BY <3>1, <3>2
  <2>4. CASE home = v
    BY <1>0, <2>1, <2>3, <2>4
  <2>5. CASE home # v
    <3>1. toAck'[home] = toAck[home]
      BY <1>0, <2>3, <2>5 DEF TypeOK
    <3> QED
      BY <2>1, <2>3, <3>1
  <2> QED
    BY <2>4, <2>5
<1>8. ASSUME NEW v \in Workers, Crash(v) PROVE x \in acked' \cup handling' \cup Range(toAck'[home])
  BY <1>8, <1>e DEF Crash
<1>9. ASSUME NEW v \in Workers, NEW w \in Workers, Visit(v, w)
      PROVE  x \in acked' \cup handling' \cup Range(toAck'[home])
  BY <1>9, <1>b DEF Visit, dataVars
<1>10. ASSUME NEW v \in Workers, NEW w \in Workers, PingFails(v, w)
       PROVE  x \in acked' \cup handling' \cup Range(toAck'[home])
  BY <1>10, <1>b, PingFailsRounds
<1>11. ASSUME NEW v \in Workers, NEW w \in Workers, Break(v, w)
       PROVE  x \in acked' \cup handling' \cup Range(toAck'[home])
  BY <1>11, <1>b DEF Break, dataVars
<1>12. ASSUME NEW c \in Clients, Leave(c) PROVE x \in acked' \cup handling' \cup Range(toAck'[home])
  BY <1>12, <1>b DEF Leave, dataVars
<1> QED
  BY <1>1, <1>2, <1>3, <1>4, <1>5, <1>6, <1>7, <1>8, <1>9, <1>10, <1>11, <1>12 DEF Next

\* Who has an element, or has ended, stays so.
LEMMA HoldersGrow ==
    ASSUME TypeOK, [Next]_vars
    PROVE  \A e : /\ Holders(e) \subseteq Holders(e)' /\ IsFiniteSet(Holders(e)) /\ IsFiniteSet(Holders(e)')
                  /\ Cardinality(Holders(e)) <= Cardinality(Holders(e)')
                  /\ Cardinality(Holders(e)) \in Nat /\ Cardinality(Holders(e)') \in Nat
<1>1. \A e : /\ Holders(e) \subseteq Holders(e)'
             /\ Holders(e) \subseteq Workers /\ Holders(e)' \subseteq Workers
  BY NextGrows DEF Holders, HomeOf
<1>2. ASSUME NEW e
      PROVE  /\ IsFiniteSet(Holders(e)) /\ IsFiniteSet(Holders(e)')
             /\ Cardinality(Holders(e)) <= Cardinality(Holders(e)')
             /\ Cardinality(Holders(e)) \in Nat /\ Cardinality(Holders(e)') \in Nat
  <2> DEFINE h == Holders(e)
             k == Holders(e)'
  <2>1. h \subseteq k /\ k \subseteq Workers
    BY <1>1
  <2> HIDE DEF h, k
  <2>2. IsFiniteSet(k)
    BY <2>1, MeshAssumption, FS_Subset
  <2>3. IsFiniteSet(h) /\ Cardinality(h) <= Cardinality(k)
    BY <2>1, <2>2, FS_Subset
  <2>4. Cardinality(h) \in Nat /\ Cardinality(k) \in Nat
    BY <2>2, <2>3, FS_CardinalityType
  <2> QED
    BY <2>2, <2>3, <2>4 DEF h, k
<1> QED
  BY <1>1, <1>2

\* Only the end of a round acknowledges, and what it acknowledges all have that
\* have answered in it.
LEMMA NextReplicated ==
    TypeOK /\ FromHome /\ RoundInv /\ Replicated /\ [Next]_vars => Replicated'
<1> SUFFICES ASSUME TypeOK, FromHome, RoundInv, Replicated, [Next]_vars PROVE Replicated'
  OBVIOUS
<1>a. /\ \A e \in recounted : Holders(e)' # {}
      /\ \A e \in acked \ recounted : Cardinality(Holders(e)') >= MinNumWorkerConnections
  BY HoldersGrow, MeshAssumption DEF Replicated
<1>b. ASSUME acked' = acked, recounted' = recounted PROVE Replicated'
  BY <1>a, <1>b DEF Replicated
<1>1. CASE UNCHANGED vars
  BY <1>1, <1>b DEF vars, dataVars
<1>2. ASSUME NEW e \in Elements, Handle(e) \/ QueueAck(e) PROVE Replicated'
  BY <1>2, <1>b DEF Handle, QueueAck
<1>3. ASSUME NEW c \in calls, Apply(c) \/ Reply(c) PROVE Replicated'
  BY <1>3, <1>b DEF Apply, Reply, dataVars
<1>4. ASSUME NEW v \in Workers, Collect(v) \/ Crash(v) PROVE Replicated'
  BY <1>4, <1>b DEF Collect, Crash, dataVars
<1>5. ASSUME NEW v \in Workers, EndRound(v) PROVE Replicated'
  <2> DEFINE got == round[v].got
  <2>0. Counts(v)
    BY DEF RoundInv
  <2>1. PICK told :
                 /\ \A e \in told : \E i \in 1..round[v].acks : toAck[v][i] = e
                 /\ \/ told = {} /\ UNCHANGED <<acked, recounted>>
                    \/ /\ round[v].success >= MinNumWorkerConnections
                       /\ acked' = acked \cup {e \in told : Author[e] \in online}
                       /\ recounted' = recounted \cup
                            IF Cardinality(round[v].got) = round[v].success THEN {} ELSE told
    BY <1>5, <2>0, EndRoundAcks DEF Counts
  <2>2. /\ got \subseteq Workers /\ round[v].success \in Nat /\ round[v].acks \in Nat
        /\ toAck[v] \in Seq(Elements) /\ IsFiniteSet(got) /\ Cardinality(got) \in Nat
    <3>1. got \subseteq Workers /\ round[v].success \in Nat /\ round[v].acks \in Nat /\ toAck[v] \in Seq(Elements)
      BY RoundUpdates DEF TypeOK
    <3> HIDE DEF got
    <3>2. IsFiniteSet(got)
      BY <3>1, MeshAssumption, FS_Subset
    <3> QED
      BY <3>1, <3>2, FS_CardinalityType
  <2>3. ASSUME NEW e \in told PROVE got \subseteq Holders(e)
    <3>1. PICK i \in 1..round[v].acks : toAck[v][i] = e
      BY <2>1
    <3>2. e \in Range(round[v].queue)
      BY <2>0, <3>1 DEF Counts
    <3>3. e \in Range(toAck[v])
      <4>1. i \in 1..Len(toAck[v])
        BY <2>0, <2>2, <3>1 DEF Counts
      <4> QED
        BY <2>2, <3>1, <4>1, RangeOf
    <3>4. HomeOf(e) = v
      BY <3>3 DEF FromHome
    <3> QED
      BY <2>0, <2>2, <3>2, <3>4 DEF Counts, Holders
  <2>4. ASSUME NEW e \in told
        PROVE  /\ Cardinality(got) <= Cardinality(Holders(e)')
               /\ got # {} => Holders(e)' # {}
    <3>1. got \subseteq Holders(e)' /\ IsFiniteSet(Holders(e)')
      BY <2>3, HoldersGrow
    <3> DEFINE k == Holders(e)'
    <3>2. got \subseteq k /\ IsFiniteSet(k)
      BY <3>1
    <3> HIDE DEF k, got
    <3>3. Cardinality(got) <= Cardinality(k)
      BY <3>2, FS_Subset
    <3> QED
      BY <3>2, <3>3 DEF k
  <2> HIDE DEF got
  <2>5. CASE /\ round[v].success >= MinNumWorkerConnections
             /\ acked' = acked \cup {e \in told : Author[e] \in online}
             /\ recounted' = recounted \cup IF Cardinality(got) = round[v].success THEN {} ELSE told
    <3>1. CASE Cardinality(got) = round[v].success
      <4>1. \A e \in told : Cardinality(Holders(e)') >= MinNumWorkerConnections
        <5>1. \A e : Cardinality(Holders(e)') \in Nat
          BY HoldersGrow
        <5> QED
          BY <2>2, <2>4, <2>5, <3>1, <5>1, MeshAssumption
      <4> QED
        BY <1>a, <2>5, <3>1, <4>1 DEF Replicated
    <3>2. CASE Cardinality(got) # round[v].success
      <4>1. got # {}
        BY <2>0, <2>2, <3>2 DEF Counts, got
      <4> QED
        BY <1>a, <2>4, <2>5, <3>2, <4>1 DEF Replicated
    <3> QED
      BY <3>1, <3>2
  <2> QED
    BY <1>b, <2>1, <2>5 DEF got
<1>6. ASSUME NEW v \in Workers, NEW w \in Workers, Visit(v, w) \/ Break(v, w) PROVE Replicated'
  BY <1>6, <1>b DEF Visit, Break, dataVars
<1>7. ASSUME NEW v \in Workers, NEW w \in Workers, PingFails(v, w) PROVE Replicated'
  BY <1>7, <1>b, PingFailsRounds
<1>8. ASSUME NEW c \in Clients, Leave(c) PROVE Replicated'
  BY <1>8, <1>b DEF Leave, dataVars
<1> QED
  BY <1>1, <1>2, <1>3, <1>4, <1>5, <1>6, <1>7, <1>8 DEF Next

-----------------------------------------------------------------------------
LEMMA InitMInv == Init => MInv
<1> SUFFICES ASSUME Init PROVE MInv
  OBVIOUS
<1>1. TypeOK
  <2>1. faults \in Faults
    BY MeshAssumption DEF Init, Faults
  <2>2. link \in [Workers -> [Workers -> {"none", "live", "broken"}]] /\ \A v \in Workers : v \notin Peers(v)
    BY DEF Init, Peers
  <2>3. <<>> \in Seq(Elements)
    OBVIOUS
  <2> QED
    BY <2>1, <2>2, <2>3, IdleIsRound DEF Init, TypeOK
<1>2. FromHome /\ CallInv
  BY IdleFacts DEF Init, FromHome, CallInv
<1>3. RoundInv
  <2>1. ASSUME NEW v \in Workers PROVE Counts(v)
    <3>1. round[v] = Idle /\ toAck[v] = <<>>
      BY DEF Init
    <3>2. Len(toAck[v]) = 0 /\ Cardinality({}) = 0
      BY <3>1, FS_EmptySet
    <3> QED
      BY <3>1, <3>2, IdleFacts DEF Counts
  <2> QED
    BY <2>1 DEF RoundInv
<1>4. NothingForgotten /\ Replicated
  BY HomeOfType DEF Init, NothingForgotten, Replicated
<1> QED
  BY <1>1, <1>2, <1>3, <1>4 DEF MInv

\* The invariant of the mesh is inductive.
LEMMA NextMInv == MInv /\ [Next]_vars => MInv'
  BY NextTypes, NextFromHome, NextCallInv, NextRoundInv, NextForgotten, NextReplicated DEF MInv

\* Types, and no worker forgets what its clients wait for (cleanAcks,
\* ackElements), for any number of workers, clients and elements.
THEOREM SpecMeshInv == Spec => []MeshInv
<1>1. MInv => MeshInv
  BY DEF MInv, MeshInv
<1> QED
  BY <1>1, InitMInv, NextMInv, PTL DEF Spec

\* An acknowledged element is on as many other workers as the round counted, or
\* on one at least if a worker was counted twice (ackElements).
THEOREM SpecAckedIsReplicated == Spec => []AckedIsReplicated
<1>1. ASSUME MInv PROVE AckedIsReplicated
  <2>1. ASSUME NEW e \in recounted PROVE Cardinality(Holders(e)) >= 1
    <3>1. Holders(e) # {} /\ IsFiniteSet(Holders(e))
      <4>1. Holders(e) \subseteq Workers
        BY DEF Holders
      <4> QED
        BY <1>1, <4>1, MeshAssumption, FS_Subset DEF MInv, Replicated
    <3>2. Cardinality(Holders(e)) \in Nat /\ Cardinality(Holders(e)) # 0
      BY <3>1, FS_CardinalityType, FS_EmptySet
    <3> QED
      BY <3>2
  <2> QED
    BY <1>1, <2>1 DEF AckedIsReplicated, MInv, Replicated
<1> QED
  BY <1>1, InitMInv, NextMInv, PTL DEF Spec
=============================================================================
