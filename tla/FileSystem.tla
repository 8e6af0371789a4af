----------------------------- MODULE FileSystem -----------------------------
(***************************************************************************)
(* The replicated file system (fs/server.go, fs/fsnode.go) as it treats    *)
(* one session.  The server keeps, per session, the nodes known to have    *)
(* saved it.  A save starts one goroutine per connected node and returns;  *)
(* a read asks the listed nodes one after the other.  A node serves every  *)
(* call in a goroutine of its own and writes the file in two steps, so two *)
(* saves of a session, or a save and a read, overlap on the node's disk.   *)
(*                                                                         *)
(* The versions of the session are numbered in the order in which the      *)
(* server receives them.  Nodes crash (their disks survive), restart, come *)
(* late and are slow; the server itself is not restarted, since it keeps   *)
(* nothing on disk and then rejects the nodes it knew.  Logs are saved,    *)
(* listed and read in the same way.                                        *)
(***************************************************************************)
EXTENDS Integers, FiniteSetsExt

CONSTANTS
    Nodes,          \* the file system nodes
    Registered,     \* those the server knows at the start
    MaxSaves,       \* bound: the number of saves
    MaxReads,       \* bound: the number of reads
    MaxCrashes,     \* bound: the number of crashes of nodes
    Overlap         \* saves may begin before the goroutines of others ended

ASSUME FileSystemAssumption ==
    /\ Registered \subseteq Nodes
    /\ MaxSaves \in Nat /\ MaxReads \in Nat /\ MaxCrashes \in Nat
    /\ Overlap \in BOOLEAN

VARIABLES
    serverUp,   \* the server has not panicked
    known,      \* nodes.all
    conn,       \* FSNode.nodeConn of each node
    fresh,      \* the node's last heartbeat is less than 2 seconds old
    listed,     \* sessions.all of the session
    saves,      \* the goroutines of saveSessionToNode
    last,       \* the version of the latest save
    read,       \* the call of Server.GetSession
    reads,      \* how many there have been
    up,         \* the nodes that run
    disk,       \* the file on each node
    crashes     \* how many crashes there have been

serverVars == <<serverUp, known, conn, fresh, listed>>
nodeVars   == <<up, disk, crashes>>
readVars   == <<read, reads>>
vars       == <<serverVars, saves, last, readVars, nodeVars>>

\* Contents of a file: no file, a version, or bytes that do not decode.
Absent == 0
Torn   == -1
Versions == 1..MaxSaves

Task == [version : Versions, node : Nodes,
         at : {"call", "open", "truncated", "written", "failed"}]
Move(t, place) == (saves \ {t}) \cup {[t EXCEPT !.at = place]}

\* The version of a read that found nothing.
None == 0
NoRead == [at |-> "idle", todo |-> {}, node |-> {}, floor |-> None, result |-> None]

Init ==
    /\ serverUp = TRUE
    /\ known = Registered /\ fresh = Registered
    /\ conn = [n \in Nodes |-> IF n \in Registered THEN "live" ELSE "nil"]
    /\ listed = {} /\ saves = {} /\ last = 0
    /\ read = NoRead /\ reads = 0
    /\ up = Registered /\ crashes = 0
    /\ disk = [n \in Nodes |-> Absent]

(***************************************************************************)
(* Nodes come, beat, and go.                                               *)
(***************************************************************************)

\* RegisterNode of a new node: from nodes.add on it counts as connected.
AddNode(n) ==
    /\ serverUp
    /\ n \in Nodes \ known
    /\ known' = known \cup {n}
    /\ fresh' = fresh \cup {n}
    /\ up' = up \cup {n}
    /\ UNCHANGED <<serverUp, conn, listed, saves, last, readVars, disk, crashes>>

\* nodes.dial, for a new node and for one that registers with its old id.  When
\* it fails that is printed and nodeConn is nil, and the node beats all the same,
\* over its own connection to the server.
Dial(n) ==
    /\ serverUp
    /\ n \in known \cap up
    /\ conn[n] \in {"nil", "broken"}
    /\ \E c \in {"live", "failed"} : conn' = [conn EXCEPT ![n] = c]
    /\ UNCHANGED <<serverUp, known, fresh, listed, saves, last, readVars, nodeVars>>

Heartbeat(n) ==
    /\ serverUp
    /\ n \in (known \cap up) \ fresh
    /\ conn[n] \in {"live", "failed"}
    /\ fresh' = fresh \cup {n}
    /\ UNCHANGED <<serverUp, known, conn, listed, saves, last, readVars, nodeVars>>

\* Two seconds without a heartbeat: the node is down, or it is only slow.
Expire(n) ==
    /\ n \in fresh
    /\ fresh' = fresh \ {n}
    /\ UNCHANGED <<serverUp, known, conn, listed, saves, last, readVars, nodeVars>>

\* A node process ends: the calls it was serving fail, except that a reply
\* already sent may still arrive.  (One that ends before it has stored the id
\* it was given comes back as another node.)
Crash(n) ==
    /\ n \in up
    /\ conn[n] # "nil"
    /\ crashes < MaxCrashes
    /\ crashes' = crashes + 1
    /\ up' = up \ {n}
    /\ conn' = [conn EXCEPT ![n] = IF @ = "live" THEN "broken" ELSE IF @ = "failed" THEN "nil" ELSE @]
    /\ LET cut  == {t \in saves : t.node = n /\ t.at \in {"open", "truncated"}}
           sent == {t \in saves : t.node = n /\ t.at = "written"}
       IN  \E lost \in SUBSET sent :
           saves' = (saves \ (cut \cup lost)) \cup {[t EXCEPT !.at = "failed"] : t \in cut \cup lost}
    /\ read' = IF read.at = "asked" /\ read.node = {n} THEN [read EXCEPT !.at = "failed"] ELSE read
    /\ UNCHANGED <<serverUp, known, fresh, listed, last, reads, disk>>

\* It is started again, from the directory with its id and its files.
Restart(n) ==
    /\ n \in known \ up
    /\ up' = up \cup {n}
    /\ UNCHANGED <<serverVars, saves, last, readVars, disk, crashes>>

(***************************************************************************)
(* Server.SaveSession and its goroutines.                                  *)
(***************************************************************************)

\* Faulty Save: nodes that are not connected stay listed.
SaveKeepsListed ==
    /\ serverUp
    /\ last < MaxSaves
    /\ Overlap \/ saves = {}
    /\ last' = last + 1
    /\ saves' = saves \cup [version : {last + 1}, node : known \cap fresh, at : {"call"}]
    /\ UNCHANGED <<serverVars, readVars, nodeVars>>

\* Every node that counts as connected gets a goroutine, the others no longer
\* count as having the session.
Save ==
    /\ serverUp
    /\ last < MaxSaves
    /\ Overlap \/ saves = {}
    /\ last' = last + 1
    /\ saves' = saves \cup [version : {last + 1}, node : known \cap fresh, at : {"call"}]
    /\ listed' = listed \cap fresh
    /\ UNCHANGED <<serverUp, known, conn, fresh, readVars, nodeVars>>

\* saveSessionToNode calls the node.  Before dial, and after one that failed, there
\* is no connection to call on, and the server dies of a nil dereference.
CallNode(t) ==
    /\ serverUp
    /\ t \in saves /\ t.at = "call"
    /\ serverUp' = (conn[t.node] \notin {"nil", "failed"})
    /\ saves' = Move(t, IF conn[t.node] = "live" THEN "open" ELSE "failed")
    /\ UNCHANGED <<known, conn, fresh, listed, last, readVars, nodeVars>>

\* FSNode.SaveSession: openFile and Truncate(0) ...
Truncate(t) ==
    /\ t \in saves /\ t.at = "open"
    /\ disk' = [disk EXCEPT ![t.node] = Torn]
    /\ saves' = Move(t, "truncated")
    /\ UNCHANGED <<serverVars, last, readVars, up, crashes>>

\* ... then Write.  What an overlapping save left behind the end of the new
\* bytes is not decoded.
Write(t) ==
    /\ t \in saves /\ t.at = "truncated"
    /\ disk' = [disk EXCEPT ![t.node] = t.version]
    /\ saves' = Move(t, "written")
    /\ UNCHANGED <<serverVars, last, readVars, up, crashes>>

\* The disk refuses to open, truncate or write the file: an empty reply.
DiskFails(t) ==
    /\ t \in saves /\ t.at \in {"open", "truncated"}
    /\ saves' = Move(t, "failed")
    /\ UNCHANGED <<serverVars, last, readVars, nodeVars>>

\* Faulty Reply: a failure does not change the list.
ReplyAddsOnly(t) ==
    /\ serverUp
    /\ t \in saves /\ t.at \in {"written", "failed"}
    /\ listed' = IF t.at = "written" THEN listed \cup {t.node} ELSE listed
    /\ saves' = saves \ {t}
    /\ UNCHANGED <<serverUp, known, conn, fresh, last, readVars, nodeVars>>

\* Back in saveSessionToNode: addNode after a reply, removeNode after none.
Reply(t) ==
    /\ serverUp
    /\ t \in saves /\ t.at \in {"written", "failed"}
    /\ listed' = IF t.at = "written" THEN listed \cup {t.node} ELSE listed \ {t.node}
    /\ saves' = saves \ {t}
    /\ UNCHANGED <<serverUp, known, conn, fresh, last, readVars, nodeVars>>

(***************************************************************************)
(* Server.GetSession.                                                      *)
(***************************************************************************)

\* The latest version of which, as of all before it, no goroutine is left.
Settled == IF saves = {} THEN last ELSE Min({t.version : t \in saves}) - 1

\* The handler copies the list.  The floor is a history variable.
BeginRead ==
    /\ serverUp
    /\ read.at \in {"idle", "done"}
    /\ reads < MaxReads
    /\ reads' = reads + 1
    /\ read' = [NoRead EXCEPT !.at = "loop", !.todo = listed,
                              !.floor = Settled]
    /\ UNCHANGED <<serverVars, saves, last, nodeVars>>

\* The next node of the loop; one that is not connected is left out.
AskNode(n) ==
    /\ serverUp
    /\ read.at = "loop"
    /\ n \in read.todo
    /\ read' = [read EXCEPT !.todo = @ \ {n}, !.node = {n},
                            !.at = IF n \notin fresh THEN "loop"
                                   ELSE IF conn[n] = "live" THEN "asked" ELSE "failed"]
    /\ serverUp' = (n \in fresh => conn[n] \notin {"nil", "failed"})
    /\ UNCHANGED <<known, conn, fresh, listed, saves, last, reads, nodeVars>>

\* FSNode.GetSession: no file, or bytes that do not decode, is an empty reply.
ReadFile(n) ==
    /\ read.at = "asked" /\ read.node = {n}
    /\ read' = IF disk[n] \in Versions THEN [read EXCEPT !.at = "done", !.result = disk[n]]
               ELSE [read EXCEPT !.at = "failed"]
    /\ UNCHANGED <<serverVars, saves, last, reads, nodeVars>>

\* An empty reply or a failed call takes the node off the list.
DropNode ==
    /\ serverUp
    /\ read.at = "failed"
    /\ listed' = listed \ read.node
    /\ read' = [read EXCEPT !.at = "loop", !.node = {}]
    /\ UNCHANGED <<serverUp, known, conn, fresh, saves, last, reads, nodeVars>>

\* No node is left: the response stays empty.
EndRead ==
    /\ serverUp
    /\ read.at = "loop" /\ read.todo = {}
    /\ read' = [read EXCEPT !.at = "done"]
    /\ UNCHANGED <<serverVars, saves, last, reads, nodeVars>>

Next ==
    \/ \E n \in Nodes : \/ AddNode(n) \/ Dial(n) \/ Heartbeat(n) \/ Expire(n)
                        \/ Crash(n) \/ Restart(n) \/ AskNode(n) \/ ReadFile(n)
    \/ Save
    \/ \E t \in saves : \/ CallNode(t) \/ Truncate(t) \/ Write(t)
                        \/ DiskFails(t) \/ Reply(t)
    \/ BeginRead \/ DropNode \/ EndRead

Spec == Init /\ [][Next]_vars

-----------------------------------------------------------------------------
TypeOK ==
    /\ serverUp \in BOOLEAN
    /\ known \subseteq Nodes /\ fresh \subseteq known /\ listed \subseteq known
    /\ conn \in [Nodes -> {"nil", "failed", "live", "broken"}]
    /\ saves \subseteq Task
    /\ last \in 0..MaxSaves
    /\ read \in [at : {"idle", "loop", "asked", "failed", "done"}, todo : SUBSET Nodes,
                 node : SUBSET Nodes, floor : 0..MaxSaves, result : 0..MaxSaves]
    /\ reads \in 0..MaxReads /\ crashes \in 0..MaxCrashes
    /\ up \subseteq known
    /\ disk \in [Nodes -> {Absent, Torn} \cup Versions]

\* A listed node has the latest version once no goroutine of a save is left:
\* whatever was down, slow, or failed half-way during a save has been taken
\* off the list (saveSessionToNode).
ListedIsLatest == saves = {} => \A n \in listed : disk[n] = last

\* A read returns nothing, or a version no older than the latest one that had
\* been saved when the read began.
ReadIsRecent == read.at = "done" /\ read.result # None => read.result >= read.floor

-----------------------------------------------------------------------------
(***************************************************************************)
(* The invariant behind ListedIsLatest and ReadIsRecent when saves do not  *)
(* overlap: how far the file of a listed node can be behind at each point  *)
(* of a save, and what a read that is under way may still meet.            *)
(***************************************************************************)
\* All goroutines belong to the latest save, one per node.
SavesInv ==
    /\ \A t \in saves : t.version = last /\ t.node \in known
    /\ \A s, t \in saves : s.node = t.node => s = t
    /\ \A t \in saves : t.at = "written" => disk[t.node] = last

\* A listed node has the latest version, or a goroutine that will write it or
\* take the node off the list; until then its file is at most one save old.
ListedInv ==
    \A n \in listed :
        /\ disk[n] = last \/ \E t \in saves : t.node = n
        /\ disk[n] \in Versions => disk[n] >= last - 1

\* What the read may still find is no older than its floor.
ReadInv ==
    /\ read.floor <= last
    /\ read.at # "done" => read.result = None
    /\ \A n \in read.todo \cup read.node :
           disk[n] \in Versions => disk[n] >= read.floor
    /\ ReadIsRecent

SerialInv == SavesInv /\ ListedInv /\ ReadInv
=============================================================================
