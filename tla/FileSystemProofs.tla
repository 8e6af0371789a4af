--------------------------- MODULE FileSystemProofs ---------------------------
(***************************************************************************)
(* Proofs about FileSystem for any nodes and bounds, when the saves of the *)
(* session do not overlap: what the server lists is up to date, and a read *)
(* never falls behind what had been saved when it began.                   *)
(***************************************************************************)
EXTENDS FileSystem, TLAPS

FSInv == TypeOK /\ SerialInv

\* Nobody is listed, and nothing is saved or read, at the start.
LEMMA InitFSInv == Init => FSInv
  BY FileSystemAssumption
  DEF Init, FSInv, TypeOK, SerialInv, SavesInv, ListedInv, ReadInv, ReadIsRecent,
      NoRead, None, Absent, Torn, Versions, Task

\* Registration, heartbeats and restarts change nothing the invariant is about.
LEMMA NodeSteps ==
    ASSUME FSInv, NEW n \in Nodes,
           AddNode(n) \/ Dial(n) \/ Heartbeat(n) \/ Expire(n) \/ Restart(n)
    PROVE  FSInv'
<1> USE DEF FSInv, serverVars, readVars, nodeVars
<1>1. UNCHANGED <<listed, saves, last, read, reads, disk, crashes>> /\ known \subseteq known'
  BY DEF AddNode, Dial, Heartbeat, Expire, Restart
<1>2. SerialInv'
  BY <1>1 DEF SerialInv, SavesInv, ListedInv, ReadInv, ReadIsRecent
<1>3. TypeOK'
  <2>1. CASE AddNode(n)
    BY <2>1 DEF TypeOK, AddNode, Versions, Task
  <2>2. CASE Dial(n)
    BY <2>2 DEF TypeOK, Dial, Versions, Task
  <2>3. CASE Heartbeat(n) \/ Expire(n)
    BY <2>3 DEF TypeOK, Heartbeat, Expire, Versions, Task
  <2>4. CASE Restart(n)
    BY <2>4 DEF TypeOK, Restart, Versions, Task
  <2> QED
    BY <2>1, <2>2, <2>3, <2>4
<1> QED
  BY <1>2, <1>3

\* A crash only turns calls of the node into failed ones.
LEMMA CrashStep == ASSUME FSInv, NEW n \in Nodes, Crash(n) PROVE FSInv'
<1> USE DEF FSInv
<1> DEFINE cut  == {t \in saves : t.node = n /\ t.at \in {"open", "truncated"}}
           sent == {t \in saves : t.node = n /\ t.at = "written"}
           Failed(S) == {[t EXCEPT !.at = "failed"] : t \in S}
<1>1. PICK lost \in SUBSET sent :
          saves' = (saves \ (cut \cup lost)) \cup Failed(cut \cup lost)
  BY DEF Crash
<1> DEFINE gone == cut \cup lost
<1>2. gone \subseteq saves /\ saves \subseteq Task
  BY DEF TypeOK
<1>3. \A t \in saves' :
          \E s \in saves : t.node = s.node /\ t.version = s.version
                           /\ (t = s \/ (s \in gone /\ t = [s EXCEPT !.at = "failed"]))
                           /\ (s \in gone => t # s)
  <2> SUFFICES ASSUME NEW t \in saves'
               PROVE  \E s \in saves : t.node = s.node /\ t.version = s.version
                           /\ (t = s \/ (s \in gone /\ t = [s EXCEPT !.at = "failed"]))
                           /\ (s \in gone => t # s)
    OBVIOUS
  <2>1. CASE t \in saves \ gone
    BY <2>1
  <2>2. CASE t \in Failed(gone)
    <3>1. PICK s \in gone : t = [s EXCEPT !.at = "failed"]
      BY <2>2
    <3>2. s \in saves /\ s \in Task /\ s.at # "failed"
      BY <1>2
    <3> QED
      BY <3>1, <3>2 DEF Task
  <2> QED
    BY <1>1, <2>1, <2>2
<1>4. \A s \in saves : \E t \in saves' : t.node = s.node
  <2> SUFFICES ASSUME NEW s \in saves PROVE \E t \in saves' : t.node = s.node
    OBVIOUS
  <2>1. CASE s \in gone
    <3>1. [s EXCEPT !.at = "failed"] \in saves'
      BY <1>1, <2>1
    <3> QED
      BY <3>1, <1>2 DEF Task
  <2>2. CASE s \notin gone
    BY <1>1, <2>2
  <2> QED
    BY <2>1, <2>2
<1>5. saves' \subseteq Task
  BY <1>2, <1>3 DEF Task
<1>6. /\ UNCHANGED <<serverUp, known, fresh, listed, last, reads, disk>>
      /\ crashes < MaxCrashes /\ crashes' = crashes + 1
      /\ up' = up \ {n}
      /\ conn' = [conn EXCEPT ![n] = IF @ = "live" THEN "broken" ELSE IF @ = "failed" THEN "nil" ELSE @]
      /\ read' = IF read.at = "asked" /\ read.node = {n}
                 THEN [read EXCEPT !.at = "failed"] ELSE read
  BY DEF Crash
<1>7. read' = read \/ (read.at # "done" /\ read' = [read EXCEPT !.at = "failed"])
  BY <1>6
<1>8. TypeOK'
  BY <1>5, <1>6, <1>7, FileSystemAssumption DEF TypeOK, Versions
<1>9. SavesInv'
  <2>1. \A t \in saves' : t.version = last' /\ t.node \in known'
    BY <1>3, <1>6 DEF SerialInv, SavesInv
  <2>2. \A s, t \in saves' : s.node = t.node => s = t
    BY <1>3 DEF SerialInv, SavesInv
  <2>3. \A t \in saves' : t.at = "written" => disk'[t.node] = last'
    <3> SUFFICES ASSUME NEW t \in saves', t.at = "written" PROVE disk'[t.node] = last'
      OBVIOUS
    <3>1. PICK s \in saves : t.node = s.node
                             /\ (t = s \/ (s \in gone /\ t = [s EXCEPT !.at = "failed"]))
      BY <1>3
    <3>2. t = s
      BY <3>1, <1>2 DEF Task
    <3> QED
      BY <3>2, <1>6 DEF SerialInv, SavesInv
  <2> QED
    BY <2>1, <2>2, <2>3 DEF SavesInv
<1>10. ListedInv'
  BY <1>4, <1>6 DEF SerialInv, ListedInv
<1>11. ReadInv'
  BY <1>6, <1>7 DEF SerialInv, ReadInv, ReadIsRecent, TypeOK
<1> QED
  BY <1>8, <1>9, <1>10, <1>11 DEF SerialInv

\* A save begins when no goroutine is left, so every listed file is the
\* latest, and becomes the one before the latest.
LEMMA SaveStep == ASSUME ~Overlap, FSInv, Save PROVE FSInv'
<1> USE DEF FSInv
<1>1. /\ saves = {} /\ last < MaxSaves /\ last' = last + 1
      /\ saves' = [version : {last + 1}, node : known \cap fresh, at : {"call"}]
      /\ listed' = listed \cap fresh
      /\ UNCHANGED <<serverUp, known, conn, fresh, read, reads, up, disk, crashes>>
  BY DEF Save, readVars, nodeVars
<1>2. last \in Nat /\ last + 1 \in Versions /\ MaxSaves \in Nat
  BY <1>1, FileSystemAssumption DEF TypeOK, Versions
<1>3. \A t \in saves' : t.version = last' /\ t.node \in known /\ t.at = "call"
  BY <1>1
<1>4. saves' \subseteq Task
  BY <1>1, <1>2 DEF TypeOK, Task
<1>5. TypeOK'
  BY <1>1, <1>2, <1>4 DEF TypeOK, Versions
<1>6. SavesInv'
  <2>1. \A s, t \in saves' : s.node = t.node => s = t
    BY <1>1
  <2> QED
    BY <2>1, <1>1, <1>3 DEF SavesInv
<1>7. ListedInv'
  <2> SUFFICES ASSUME NEW n \in listed'
               PROVE  /\ \E t \in saves' : t.node = n
                      /\ disk'[n] \in Versions => disk'[n] >= last' - 1
    BY DEF ListedInv
  <2>1. n \in listed /\ n \in known \cap fresh
    BY <1>1 DEF TypeOK
  <2>2. disk[n] = last
    BY <2>1, <1>1 DEF SerialInv, ListedInv
  <2>3. [version |-> last + 1, node |-> n, at |-> "call"] \in saves'
    BY <2>1, <1>1
  <2>4. \E t \in saves' : t.node = n
    BY <2>3
  <2>5. disk' = disk /\ last' = last + 1
    BY <1>1
  <2> QED
    BY <2>2, <2>4, <2>5, <1>2
<1>8. ReadInv'
  BY <1>1, <1>2 DEF SerialInv, ReadInv, ReadIsRecent, TypeOK
<1> QED
  BY <1>5, <1>6, <1>7, <1>8 DEF SerialInv

\* A goroutine that has moved on is still the only one of its node.
LEMMA MoveFacts ==
    ASSUME FSInv, NEW t \in saves,
           NEW place \in {"call", "open", "truncated", "written", "failed"},
           saves' = Move(t, place)
    PROVE  /\ saves' \subseteq Task
           /\ \A s \in saves' : s.version = last /\ s.node \in known
           /\ \A r, s \in saves' : r.node = s.node => r = s
           /\ \A s \in saves : \E r \in saves' : r.node = s.node
           /\ \A s \in saves' : \/ s \in saves /\ s.node # t.node
                                \/ s.at = place /\ s.node = t.node
<1> USE DEF FSInv
<1> DEFINE u == [t EXCEPT !.at = place]
<1>1. t \in Task /\ u \in Task /\ u.node = t.node /\ u.version = t.version /\ u.at = place
  BY DEF TypeOK, Task
<1>2. saves' = (saves \ {t}) \cup {u}
  BY DEF Move
<1>3. \A s \in saves : s.node = t.node => s = t
  BY DEF SerialInv, SavesInv
<1> QED
  BY <1>1, <1>2, <1>3 DEF TypeOK, SerialInv, SavesInv

\* The steps of a goroutine up to its reply.
LEMMA TaskSteps ==
    ASSUME FSInv, NEW t \in saves,
           CallNode(t) \/ Truncate(t) \/ Write(t) \/ DiskFails(t)
    PROVE  FSInv'
<1> USE DEF FSInv, serverVars, readVars, nodeVars
<1>1. /\ UNCHANGED <<known, conn, fresh, listed, last, read, reads, up, crashes>>
      /\ serverUp' \in BOOLEAN
  BY DEF CallNode, Truncate, Write, DiskFails, TypeOK
<1>2. t.node \in Nodes /\ t.version = last /\ last \in Versions /\ last \in Nat
  BY FileSystemAssumption DEF TypeOK, Task, SerialInv, SavesInv, Versions
<1>3. PICK place \in {"open", "truncated", "written", "failed"} :
          /\ saves' = Move(t, place)
          /\ \/ place # "written" /\ disk' = disk
             \/ place # "written" /\ disk' = [disk EXCEPT ![t.node] = Torn]
             \/ disk' = [disk EXCEPT ![t.node] = last]
  BY <1>2 DEF CallNode, Truncate, Write, DiskFails
<1>4. /\ saves' \subseteq Task
      /\ \A s \in saves' : s.version = last /\ s.node \in known
      /\ \A r, s \in saves' : r.node = s.node => r = s
      /\ \A s \in saves : \E r \in saves' : r.node = s.node
      /\ \A s \in saves' : \/ s \in saves /\ s.node # t.node
                           \/ s.at = place /\ s.node = t.node
  BY <1>3, MoveFacts
<1>5. \A n \in Nodes \ {t.node} : disk'[n] = disk[n]
  BY <1>3 DEF TypeOK
<1>6. /\ disk' \in [Nodes -> {Absent, Torn} \cup Versions]
      /\ disk'[t.node] \in Versions => disk'[t.node] = last \/ disk'[t.node] = disk[t.node]
      /\ place = "written" => disk'[t.node] = last
  BY <1>2, <1>3 DEF TypeOK, Torn, Versions
<1>7. TypeOK'
  BY <1>1, <1>4, <1>6 DEF TypeOK, Versions
<1>8. SavesInv'
  <2>1. \A s \in saves' : s.at = "written" => disk'[s.node] = last
    BY <1>4, <1>5, <1>6 DEF SerialInv, SavesInv, TypeOK, Task
  <2> QED
    BY <2>1, <1>1, <1>4 DEF SavesInv
<1>9. ListedInv'
  <2> SUFFICES ASSUME NEW n \in listed
               PROVE  /\ disk'[n] = last \/ \E s \in saves' : s.node = n
                      /\ disk'[n] \in Versions => disk'[n] >= last - 1
    BY <1>1 DEF ListedInv
  <2>1. n \in Nodes
    BY DEF TypeOK
  <2>2. CASE n = t.node
    BY <2>2, <1>2, <1>4, <1>6 DEF SerialInv, ListedInv, Versions
  <2>3. CASE n # t.node
    BY <2>1, <2>3, <1>4, <1>5 DEF SerialInv, ListedInv
  <2> QED
    BY <2>2, <2>3
<1>10. ReadInv'
  <2>1. read.floor <= last
    BY DEF SerialInv, ReadInv
  <2>2. ASSUME NEW n \in read.todo \cup read.node, disk'[n] \in Versions
        PROVE  disk'[n] >= read.floor
    <3>1. n \in Nodes
      BY DEF TypeOK
    <3>2. CASE n = t.node
      BY <2>1, <2>2, <3>2, <1>2, <1>6 DEF SerialInv, ReadInv, TypeOK, Versions
    <3>3. CASE n # t.node
      BY <2>2, <3>1, <3>3, <1>5 DEF SerialInv, ReadInv
    <3> QED
      BY <3>2, <3>3
  <2> QED
    BY <2>1, <2>2, <1>1 DEF SerialInv, ReadInv, ReadIsRecent
<1> QED
  BY <1>7, <1>8, <1>9, <1>10 DEF SerialInv

\* A node is listed after a write of the latest version, and off after a failure.
LEMMA ReplyStep == ASSUME FSInv, NEW t \in saves, Reply(t) PROVE FSInv'
<1> USE DEF FSInv
<1>1. /\ UNCHANGED <<serverUp, known, conn, fresh, last, read, reads, up, disk, crashes>>
      /\ saves' = saves \ {t}
      /\ listed' = IF t.at = "written" THEN listed \cup {t.node} ELSE listed \ {t.node}
  BY DEF Reply, readVars, nodeVars
<1>2. t.node \in known /\ (t.at = "written" => disk[t.node] = last) /\ last \in Nat
  BY FileSystemAssumption DEF TypeOK, SerialInv, SavesInv
<1>3. TypeOK'
  BY <1>1, <1>2 DEF TypeOK, Versions
<1>4. SavesInv' /\ ReadInv'
  BY <1>1 DEF SerialInv, SavesInv, ReadInv, ReadIsRecent
<1>5. ListedInv'
  <2> SUFFICES ASSUME NEW n \in listed'
               PROVE  /\ disk[n] = last \/ \E s \in saves' : s.node = n
                      /\ disk[n] \in Versions => disk[n] >= last - 1
    BY <1>1 DEF ListedInv
  <2>1. CASE n = t.node
    BY <2>1, <1>1, <1>2
  <2>2. CASE n # t.node
    BY <2>2, <1>1 DEF SerialInv, ListedInv
  <2> QED
    BY <2>1, <2>2
<1> QED
  BY <1>3, <1>4, <1>5 DEF SerialInv

\* Without overlapping saves, the version settled is the latest or the one before.
LEMMA SettledFacts ==
    ASSUME FSInv
    PROVE  /\ Settled \in 0..MaxSaves /\ Settled <= last
           /\ saves = {} => Settled = last
           /\ saves # {} => Settled = last - 1
<1> USE DEF FSInv
<1>1. CASE saves = {}
  BY <1>1, FileSystemAssumption DEF Settled, TypeOK
<1>2. CASE saves # {}
  <2>1. {t.version : t \in saves} = {last} /\ last \in Versions
    BY <1>2 DEF TypeOK, Task, SerialInv, SavesInv
  <2>2. Min({last}) = last
    BY <2>1 DEF Min, Versions
  <2>3. Settled = last - 1
    BY <1>2, <2>1, <2>2 DEF Settled
  <2> QED
    BY <1>2, <2>1, <2>3, FileSystemAssumption DEF Versions
<1> QED
  BY <1>1, <1>2

\* A read starts with files no older than what is settled.
LEMMA BeginReadStep == ASSUME FSInv, BeginRead PROVE FSInv'
<1> USE DEF FSInv
<1>1. /\ UNCHANGED <<serverUp, known, conn, fresh, listed, saves, last, up, disk, crashes>>
      /\ reads < MaxReads /\ reads' = reads + 1
      /\ read' = [at |-> "loop", todo |-> listed, node |-> {}, floor |-> Settled,
                  result |-> None]
  BY DEF BeginRead, NoRead, serverVars, nodeVars
<1>2. TypeOK'
  BY <1>1, SettledFacts, FileSystemAssumption DEF TypeOK, None, Versions
<1>3. ReadInv'
  <2>1. \A n \in listed : disk[n] \in Versions => disk[n] >= Settled
    <3> SUFFICES ASSUME NEW n \in listed, disk[n] \in Versions PROVE disk[n] >= Settled
      OBVIOUS
    <3>1. last \in Nat /\ disk[n] \in Nat
      BY FileSystemAssumption DEF TypeOK, Versions
    <3>2. CASE saves = {}
      <4>1. disk[n] = last
        BY <3>2 DEF SerialInv, ListedInv
      <4> QED
        BY <4>1, <3>1, <3>2, SettledFacts
    <3>3. CASE saves # {}
      BY <3>1, <3>3, SettledFacts DEF SerialInv, ListedInv
    <3> QED
      BY <3>2, <3>3
  <2> QED
    BY <2>1, <1>1, SettledFacts DEF ReadInv, ReadIsRecent
<1>4. SavesInv' /\ ListedInv'
  BY <1>1 DEF SerialInv, SavesInv, ListedInv
<1> QED
  BY <1>2, <1>3, <1>4 DEF SerialInv

\* The other steps of a read narrow down what it may meet.
LEMMA ReadSteps ==
    ASSUME FSInv,
           (\E n \in Nodes : AskNode(n) \/ ReadFile(n)) \/ DropNode \/ EndRead
    PROVE  FSInv'
<1> USE DEF FSInv, serverVars, nodeVars
<1>1. /\ UNCHANGED <<known, conn, fresh, saves, last, reads, up, disk, crashes>>
      /\ listed' \subseteq listed /\ serverUp' \in BOOLEAN
  BY DEF AskNode, ReadFile, DropNode, EndRead, TypeOK
<1>2. /\ read' \in [at : {"idle", "loop", "asked", "failed", "done"}, todo : SUBSET Nodes,
                    node : SUBSET Nodes, floor : 0..MaxSaves, result : 0..MaxSaves]
      /\ read'.floor = read.floor
      /\ read'.todo \cup read'.node \subseteq read.todo \cup read.node
      /\ read'.at # "done" => read'.result = None
      /\ read'.at = "done" /\ read'.result # None => read'.result >= read'.floor
  <2> DEFINE Read == [at : {"idle", "loop", "asked", "failed", "done"}, todo : SUBSET Nodes,
                      node : SUBSET Nodes, floor : 0..MaxSaves, result : 0..MaxSaves]
  <2>1. read \in Read /\ ReadInv /\ \A n \in Nodes : disk[n] \in Versions => disk[n] \in 0..MaxSaves
    BY FileSystemAssumption DEF TypeOK, SerialInv, Versions
  <2>2. CASE \E n \in Nodes : AskNode(n)
    <3>1. PICK n \in read.todo, place \in {"loop", "asked", "failed"} :
              /\ read.at = "loop"
              /\ read' = [read EXCEPT !.todo = @ \ {n}, !.node = {n}, !.at = place]
      BY <2>2 DEF AskNode
    <3> QED
      BY <2>1, <3>1 DEF ReadInv
  <2>3. CASE \E n \in Nodes : ReadFile(n)
    <3>1. PICK n \in Nodes :
              /\ read.node = {n} /\ read.at = "asked"
              /\ \/ disk[n] \in Versions /\ read' = [read EXCEPT !.at = "done", !.result = disk[n]]
                 \/ read' = [read EXCEPT !.at = "failed"]
      BY <2>3 DEF ReadFile
    <3>2. disk[n] \in Versions => disk[n] >= read.floor
      BY <2>1, <3>1 DEF ReadInv
    <3> QED
      BY <2>1, <3>1, <3>2 DEF ReadInv
  <2>4. CASE DropNode
    <3>1. read' = [read EXCEPT !.at = "loop", !.node = {}] /\ read.at = "failed"
      BY <2>4 DEF DropNode
    <3> QED
      BY <2>1, <3>1 DEF ReadInv
  <2>5. CASE EndRead
    <3>1. read' = [read EXCEPT !.at = "done"] /\ read.at = "loop"
      BY <2>5 DEF EndRead
    <3> QED
      BY <2>1, <3>1 DEF ReadInv
  <2> QED
    BY <2>2, <2>3, <2>4, <2>5
<1>3. TypeOK'
  BY <1>1, <1>2 DEF TypeOK, Versions
<1>4. SerialInv'
  BY <1>1, <1>2 DEF SerialInv, SavesInv, ListedInv, ReadInv, ReadIsRecent
<1> QED
  BY <1>3, <1>4

LEMMA StepFSInv == ASSUME ~Overlap, FSInv, [Next]_vars PROVE FSInv'
<1>1. CASE \E n \in Nodes : AddNode(n) \/ Dial(n) \/ Heartbeat(n) \/ Expire(n) \/ Restart(n)
  BY <1>1, NodeSteps
<1>2. CASE \E n \in Nodes : Crash(n)
  BY <1>2, CrashStep
<1>3. CASE Save
  BY <1>3, SaveStep
<1>4. CASE \E t \in saves : CallNode(t) \/ Truncate(t) \/ Write(t) \/ DiskFails(t)
  BY <1>4, TaskSteps
<1>5. CASE \E t \in saves : Reply(t)
  BY <1>5, ReplyStep
<1>6. CASE BeginRead
  BY <1>6, BeginReadStep
<1>7. CASE (\E n \in Nodes : AskNode(n) \/ ReadFile(n)) \/ DropNode \/ EndRead
  BY <1>7, ReadSteps
<1>8. CASE UNCHANGED vars
  BY <1>8 DEF vars, serverVars, readVars, nodeVars, FSInv, TypeOK, SerialInv, SavesInv,
              ListedInv, ReadInv, ReadIsRecent
<1> QED
  BY <1>1, <1>2, <1>3, <1>4, <1>5, <1>6, <1>7, <1>8 DEF Next

(***************************************************************************)
(* When saves do not overlap, types and the invariant hold for ever.       *)
(***************************************************************************)
THEOREM SerialSaves == ASSUME ~Overlap PROVE Spec => [](TypeOK /\ SerialInv)
<1>1. FSInv /\ [Next]_vars => FSInv'
  BY StepFSInv
<1> QED
  BY InitFSInv, <1>1, PTL DEF Spec, FSInv

\* A listed node has the latest version once no goroutine of a save is left
\* (saveSessionToNode), for any number of nodes, saves, reads and crashes.
THEOREM ListedCorrect == ASSUME ~Overlap PROVE Spec => []ListedIsLatest
<1>1. TypeOK /\ SerialInv => ListedIsLatest
  BY DEF SerialInv, ListedInv, ListedIsLatest
<1> QED
  BY SerialSaves, <1>1, PTL

\* A read that finds the session (Server.GetSession) returns nothing older
\* than the latest version that had been saved when it began.
THEOREM ReadCorrect == ASSUME ~Overlap PROVE Spec => []ReadIsRecent
<1>1. TypeOK /\ SerialInv => ReadIsRecent
  BY DEF SerialInv, ReadInv
<1> QED
  BY SerialSaves, <1>1, PTL
=============================================================================
