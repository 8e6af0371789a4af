----------------------------- MODULE JobsProofs -----------------------------
(***************************************************************************)
(* Proofs about Jobs, for any finite set of workers, any clients, any      *)
(* number of requests and any budget of failures.                          *)
(*                                                                         *)
(* A job is run under the load balancer's lock, so at most one has left a  *)
(* result with some of the workers only; what is known of the others is in *)
(* Spread and Files.  A worker may run a job that has been run only after  *)
(* another has ended, which is what Counted counts.                        *)
(***************************************************************************)
EXTENDS Jobs, SequenceLemmas, FiniteSetTheorems, TLAPS

(***************************************************************************)
(* The inductive invariant.                                                *)
(***************************************************************************)
Log == Nat \cup {Absent}
Stages == {"none", "asking", "fetching", "running", "saving", "replying", "sending", "writing", "down"}
Served == {"loading", "answered", "open"}
Pages == Served \cup {"out", "opening", "lost", "asking", "recovering", "reopening"}

Job == [stage : Stages, id : 0..MaxJobs, at : Workers \cup {NONE}, todo : SUBSET Workers, log : Log]

PostRecord == [client : Clients, at : Workers \cup {NONE}, stage : {"sent", "answered", "over"}]
Message == [job : JobIds, log : Nat \ {0}]

ServerTypes ==
    /\ up \subseteq listed /\ listed \subseteq Workers /\ loaded \subseteq up
    /\ logs \in [Workers -> [JobIds -> Log]]
    /\ conns \in [Workers -> SUBSET Clients]
FileTypes == saved \in [JobIds -> Log] /\ saving \subseteq JobIds \X Nat
BalancerTypes ==
    /\ calls \subseteq JobIds
    /\ job \in Job
    /\ reg \in [client : Clients \cup {NONE}, at : Workers \cup {NONE}, logs : [JobIds -> Log]]
    /\ runs \in [JobIds -> Nat] /\ overtaken \subseteq JobIds
PostTypes ==
    /\ posts \in Seq(PostRecord)
    /\ Len(posts) <= MaxJobs
PageTypes ==
    /\ page \in [Clients -> Pages] /\ at \in [Clients -> Workers \cup {NONE}]
    /\ reply \in [Clients -> [JobIds -> Log]]
    /\ inbox \in [Clients -> Seq(Message)]
    /\ recoverLog \in [Clients -> BOOLEAN]
Line == [job : JobIds, listeners : Nat]
ListTypes ==
    /\ jobIDs \in [Clients -> [JobIds -> {"none", "running", "done"}]]
    /\ logList \in [Clients -> Seq(Line)]
Types == ServerTypes /\ FileTypes /\ BalancerTypes /\ PostTypes /\ PageTypes

\* Connections and registrations: who is connected to whom.
Connected ==
    /\ \A w \in Workers : \A c \in conns[w] : at[c] = w /\ page[c] \in Served
    /\ \A c \in Clients : inbox[c] # <<>> => page[c] \in Served
    /\ reg # NoReg => /\ reg.client \in Clients /\ reg.at \in up
                      /\ page[reg.client] \in {"out", "lost"}
                      /\ job.stage = "none"

\* The job the load balancer is at, and the workers it may still ask.
Running == {"fetching", "running", "saving", "replying"}
Turn ==
    /\ job.stage = "none" => job = NoJob
    /\ job.stage # "none" => job.id \in JobIds
    /\ job.stage \in Running \cup {"writing"} => job.at \in up
    /\ job.stage \notin Running \cup {"writing"} => job.at = NONE
    /\ job.stage \in Running \cup {"asking", "down"} => listed \cap up \subseteq job.todo \cup {job.at}
    /\ job.stage = "down" => job.todo = {}
    /\ job.stage \in {"saving", "replying", "sending", "writing"} => job.log > 0

\* A request that has not begun, and one whose job has not.
Unhandled(j) == j \notin DOMAIN posts \/ posts[j].stage = "sent"
Fresh(j) == Unhandled(j) \/ j \in calls
Ended == Cardinality(Workers \ up)
Counted ==
    /\ calls \subseteq DOMAIN posts /\ \A j \in calls : posts[j].stage # "sent"
    /\ \A j \in JobIds : runs[j] <= 1 + Ended
    /\ job.stage \in {"asking", "fetching", "running"} => runs[job.id] <= Ended
    /\ \A j \in JobIds : Fresh(j) => runs[j] = 0 /\ job.id # j

\* No log is of a run that has not been.
Past ==
    /\ \A j \in JobIds : saved[j] <= runs[j] /\ reg.logs[j] <= runs[j]
    /\ \A s \in saving : s[2] <= runs[s[1]]
    /\ \A w \in Workers, j \in JobIds : logs[w][j] <= runs[j]
    /\ \A c \in Clients, j \in JobIds : reply[c][j] <= runs[j]
    /\ \A c \in Clients : \A i \in 1..Len(inbox[c]) : inbox[c][i].log <= runs[inbox[c][i].job]
    /\ job.stage # "none" => job.log <= runs[job.id]

\* A result that is kept, or on its way to the file system.
Out(j) == \E w \in Workers : Done(logs[w][j])
Pending(j) == job.id = j /\ job.stage \in {"asking", "fetching", "running", "saving", "down"}
Kept(j) == saved[j] # 0 \/ \E s \in saving : s[1] = j /\ Done(s[2])
Files ==
    /\ \A j \in JobIds : Unhandled(j) => saved[j] = Absent /\ \A s \in saving : s[1] # j
    /\ \A j \in JobIds : <<j, 0>> \in saving => saved[j] = Absent /\ runs[j] = 0
    /\ job.stage \in {"running", "saving", "replying", "sending", "writing"} => <<job.id, 0>> \notin saving
    /\ \A j \in JobIds : Out(j) \/ (runs[j] > 0 /\ ~Pending(j)) => Kept(j)

\* All workers that run have the result of a job that is over.
Spread ==
    /\ \A j \in JobIds, v \in up :
        runs[j] > 0 => \/ Done(logs[v][j]) \/ j \in overtaken
                       \/ job.id = j /\ (job.stage \in {"sending", "writing"} => v \in job.todo)
    /\ reg # NoReg => \A j \in JobIds :
        runs[j] > 0 /\ reg.logs[j] # Absent => Done(reg.logs[j]) \/ j \in overtaken

JInv == Types /\ Connected /\ Turn /\ Counted /\ Past /\ Files /\ Spread

-----------------------------------------------------------------------------
\* Nothing is posted at the start.
LEMMA InitJInv == Init => JInv
<1> SUFFICES ASSUME Init PROVE JInv
  OBVIOUS
<1> USE JobsAssumption DEF Init, JobIds, Absent, NoLogs, NoReg, NoJob, Log
<1>1. Types
  BY DEF Types, ServerTypes, FileTypes, BalancerTypes, Job, PostTypes, PageTypes, Stages, Pages, Served
<1>2. Connected
  BY DEF Connected, Served
<1>3. Turn
  BY DEF Turn, Running
<1>4. Counted
  <2>1. Workers \ up = {} /\ Ended = 0
    BY FS_EmptySet DEF Ended
  <2> QED
    BY <2>1 DEF Counted, Fresh, Unhandled
<1>5. Past
  BY DEF Past
<1>6. Files
  BY DEF Files, Unhandled, Out, Done
<1>7. Spread
  BY DEF Spread
<1> QED
  BY <1>1, <1>2, <1>3, <1>4, <1>5, <1>6, <1>7 DEF JInv

\* How many workers have ended is a number, that grows by one with each.
LEMMA EndedCounts ==
    ASSUME Types
    PROVE  /\ Ended \in Nat
           /\ \A w \in up : up' = up \ {w} => Ended' = Ended + 1
<1>1. IsFiniteSet(Workers \ up)
  BY JobsAssumption, FS_Subset
<1>2. ASSUME NEW w \in up, up' = up \ {w}
      PROVE  Ended' = Ended + 1
  <2>1. Workers \ up' = (Workers \ up) \cup {w} /\ w \notin Workers \ up
    BY <1>2 DEF Types, ServerTypes
  <2> QED
    BY <1>1, <2>1, FS_AddElement DEF Ended
<1> QED
  BY <1>1, <1>2, FS_CardinalityType DEF Ended

\* A page may post a request; none that is there is changed by that.
Posted == posts' = posts \/ \E c \in Clients : Post(c)

\* So a request is handled or not as before.
LEMMA PostedUnhandled ==
    ASSUME Types, Posted
    PROVE  /\ PostTypes'
           /\ DOMAIN posts \subseteq DOMAIN posts'
           /\ \A j \in DOMAIN posts : posts'[j] = posts[j]
           /\ \A j \in JobIds : Unhandled(j)' <=> Unhandled(j)
<1>1. CASE posts' = posts
  BY <1>1 DEF Types, PostTypes, Unhandled
<1>2. CASE \E c \in Clients : Post(c)
  <2>1. PICK c \in Clients : Len(posts) < MaxJobs /\ posts' = Append(posts, [client |-> c, at |-> at[c], stage |-> "sent"])
    BY <1>2 DEF Post
  <2>2. posts \in Seq(PostRecord) /\ [client |-> c, at |-> at[c], stage |-> "sent"] \in PostRecord
    BY DEF Types, PostTypes, PageTypes, PostRecord
  <2> QED
    BY <2>1, <2>2, JobsAssumption DEF PostTypes, Unhandled
<1> QED
  BY <1>1, <1>2 DEF Posted

\* What becomes of one request changes no other.
LEMMA PostStage ==
    ASSUME Types, NEW k \in DOMAIN posts, NEW stage \in {"sent", "answered", "over"},
           posts' = [posts EXCEPT ![k].stage = stage]
    PROVE  /\ PostTypes'
           /\ DOMAIN posts' = DOMAIN posts /\ posts'[k].stage = stage
           /\ \A j \in DOMAIN posts : j # k => posts'[j] = posts[j]
<1>1. posts \in Seq(PostRecord) /\ Len(posts) <= MaxJobs /\ k \in 1..Len(posts)
  BY DEF Types, PostTypes
<1>2. posts[k] \in PostRecord
  BY <1>1
<1>3. [posts[k] EXCEPT !.stage = stage] \in PostRecord /\ [posts[k] EXCEPT !.stage = stage].stage = stage
  BY <1>2 DEF PostRecord
<1>4. /\ posts' \in Seq(PostRecord) /\ Len(posts') = Len(posts) /\ DOMAIN posts' = DOMAIN posts
      /\ posts'[k] = [posts[k] EXCEPT !.stage = stage]
      /\ \A j \in DOMAIN posts : j # k => posts'[j] = posts[j]
  BY <1>1, <1>3
<1> QED
  BY <1>1, <1>3, <1>4 DEF PostTypes

-----------------------------------------------------------------------------
\* A browser goes on, opening the session or reading its socket, runs
\* something or gets its answers.
PageStep(c) ==
    \/ Execute(c) \/ ServeRecovery(c) \/ Recover(c)
    \/ ServeSession(c) \/ InitSession(c) \/ Receive(c)

\* Of what the servers know of a job nothing is changed by that.
LEMMA PageSteps ==
    ASSUME JInv, NEW c \in Clients, PageStep(c)
    PROVE  JInv'
<1> USE JobsAssumption DEF JInv, JobIds, Absent, Log, server, files, balancer
<1>1. UNCHANGED <<server, files, balancer, at>> /\ Posted
  BY DEF PageStep, Execute, ServeRecovery, Recover, Resent, ServeSession, InitSession, Receive, Posted
<1>2. PageTypes'
  <2>1. page' \in [Clients -> Pages] /\ recoverLog' \in [Clients -> BOOLEAN]
    BY DEF PageStep, Execute, ServeRecovery, Recover, ServeSession, InitSession, Receive, Types, PageTypes, Pages, Served
  <2>2. reply' \in [Clients -> [JobIds -> Log]]
    <3>1. at[c] \in up => logs[at[c]] \in [JobIds -> Log]
      BY DEF Types, ServerTypes
    <3>2. NoLogs \in [JobIds -> Log]
      BY DEF NoLogs
    <3> QED
      BY <3>1, <3>2 DEF PageStep, Execute, ServeRecovery, Recover, ServeSession, InitSession, Receive, Types, PageTypes
  <2>3. inbox' \in [Clients -> Seq(Message)]
    <3>1. inbox \in [Clients -> Seq(Message)]
      BY DEF Types, PageTypes
    <3>2. inbox[c] # <<>> => Tail(inbox[c]) \in Seq(Message)
      BY <3>1
    <3>3. inbox' \in [Clients -> Seq(Message)]
      BY <3>1, <3>2 DEF PageStep, Execute, ServeRecovery, Recover, ServeSession, InitSession, Receive
    <3> QED
      BY <3>3 DEF Message
  <2> QED
    BY <1>1, <2>1, <2>2, <2>3 DEF Types, PageTypes
<1>3. Types'
  BY <1>1, <1>2, PostedUnhandled DEF Types, ServerTypes, FileTypes, BalancerTypes
<1>4. Connected'
  <2>1. \A d \in Clients :
          /\ page[d] \in Served => page'[d] \in Served
          /\ page[d] \in {"out", "lost"} => page'[d] = page[d]
          /\ inbox'[d] # <<>> => inbox[d] # <<>>
    BY DEF PageStep, Execute, ServeRecovery, Recover, ServeSession, InitSession, Receive, Types, PageTypes, Served
  <2> QED
    BY <1>1, <2>1 DEF Connected, Types, ServerTypes, NoReg
<1>5. Turn' /\ Spread'
  BY <1>1 DEF Turn, Spread, Done, NoReg, NoLogs, NoJob, Running
<1>6. Counted'
  <2>1. Ended' = Ended
    BY <1>1 DEF Ended
  <2>2. \A j \in JobIds : Fresh(j)' <=> Fresh(j)
    BY <1>1, PostedUnhandled DEF Fresh
  <2> QED
    BY <1>1, <2>1, <2>2, PostedUnhandled DEF Counted
<1>7. Past'
  <2>1. \A d \in Clients, j \in JobIds : reply'[d][j] <= runs[j]
    <3>1. at[c] \in up => \A j \in JobIds : logs[at[c]][j] <= runs[j]
      BY DEF Types, ServerTypes, Past
    <3>2. \A j \in JobIds : NoLogs[j] <= runs[j]
      BY DEF NoLogs, Types, BalancerTypes
    <3>3. \/ reply' = reply \/ reply' = [reply EXCEPT ![c] = NoLogs]
          \/ at[c] \in up /\ reply' = [reply EXCEPT ![c] = logs[at[c]]]
      BY DEF PageStep, Execute, ServeRecovery, Recover, ServeSession, InitSession, Receive
    <3> QED
      BY <3>1, <3>2, <3>3 DEF Types, PageTypes, Past
  <2>2. \A d \in Clients : \A i \in 1..Len(inbox'[d]) : inbox'[d][i].log <= runs[inbox'[d][i].job]
    <3>1. inbox' = inbox \/ (inbox' = [inbox EXCEPT ![c] = Tail(@)] /\ inbox[c] # <<>>)
      BY DEF PageStep, Execute, ServeRecovery, Recover, ServeSession, InitSession, Receive
    <3>2. CASE inbox' = [inbox EXCEPT ![c] = Tail(@)] /\ inbox[c] # <<>>
      <4>1. inbox \in [Clients -> Seq(Message)]
        BY DEF Types, PageTypes
      <4>2. /\ Len(inbox'[c]) = Len(inbox[c]) - 1
            /\ \A i \in 1..(Len(inbox[c]) - 1) : inbox'[c][i] = inbox[c][i + 1]
        BY <3>2, <4>1
      <4>3. \A d \in Clients : d # c => inbox'[d] = inbox[d]
        BY <3>2, <4>1
      <4>4. Len(inbox[c]) \in Nat
        BY <4>1
      <4>5. \A i \in 1..(Len(inbox[c]) - 1) : inbox'[c][i].log <= runs[inbox'[c][i].job]
        BY <4>2, <4>4 DEF Past
      <4> QED
        BY <4>2, <4>3, <4>5 DEF Past
    <3> QED
      BY <3>1, <3>2 DEF Past
  <2> QED
    BY <1>1, <2>1, <2>2 DEF Past
<1>8. Files'
  BY <1>1, PostedUnhandled DEF Files, Out, Pending, Kept, Done
<1> QED
  BY <1>3, <1>4, <1>5, <1>6, <1>7, <1>8

\* The websocket of a page opens.
LEMMA OpenStep ==
    ASSUME JInv, NEW c \in Clients, Open(c)
    PROVE  JInv'
<1> USE JobsAssumption DEF JInv, JobIds, Absent, Log, server, files, balancer
<1>1. /\ UNCHANGED <<up, listed, loaded, logs, files, balancer, at, reply, inbox, recoverLog, posts>>
      /\ page[c] \in {"opening", "reopening"} /\ at[c] \in Workers
      /\ conns' = [conns EXCEPT ![at[c]] = @ \cup {c}]
      /\ page' = [page EXCEPT ![c] = IF @ = "opening" THEN "loading" ELSE "open"]
  BY DEF Open, Types, ServerTypes
<1>2. Types'
  <2>1. ServerTypes' /\ PageTypes'
    BY <1>1 DEF Types, ServerTypes, PageTypes, Pages, Served
  <2> QED
    BY <1>1, <2>1 DEF Types, FileTypes, BalancerTypes, PostTypes
<1>3. Connected'
  <2>1. \A w \in Workers : \A d \in conns'[w] : at'[d] = w /\ page'[d] \in Served
    BY <1>1 DEF Types, ServerTypes, PageTypes, Connected, Served
  <2>2. \A d \in Clients : page[d] \in Served => page'[d] \in Served
    BY <1>1 DEF Types, PageTypes, Served
  <2>3. \A d \in Clients : page[d] \in {"out", "lost"} => page'[d] = page[d]
    BY <1>1 DEF Types, PageTypes
  <2> QED
    BY <1>1, <2>1, <2>2, <2>3 DEF Connected, NoReg
<1>4. Turn' /\ Spread'
  BY <1>1 DEF Turn, Spread, Done, NoReg, NoLogs, NoJob, Running
<1>5. Counted' /\ Past' /\ Files'
  BY <1>1 DEF Counted, Past, Files, Fresh, Unhandled, Ended, Out, Pending, Kept, Done
<1> QED
  BY <1>2, <1>3, <1>4, <1>5

\* The load balancer begins to register a client.
LEMMA RegisterStep ==
    ASSUME JInv, NEW c \in Clients, Register(c)
    PROVE  JInv'
<1> USE JobsAssumption DEF JInv, JobIds, Absent, Log, server, files, browser
<1>1. PICK w \in listed \cap up, source \in { logs[v] : v \in loaded \cap up } \cup {saved} :
        /\ reg' = [client |-> c, at |-> w, logs |-> source]
        /\ overtaken' = IF source # saved THEN overtaken
                        ELSE overtaken \cup { j \in JobIds : \E s \in saving : s[1] = j /\ Done(s[2]) }
  <2>1. \A w \in listed \cap up :
            (IF w \in loaded THEN {logs[w]}
             ELSE IF loaded \cap up # {} THEN { logs[v] : v \in loaded \cap up } ELSE {saved})
            \subseteq { logs[v] : v \in loaded \cap up } \cup {saved}
    OBVIOUS
  <2> QED
    BY <2>1 DEF Register
<1>2. /\ UNCHANGED <<server, files, calls, job, runs, browser, posts>>
      /\ reg = NoReg /\ job.stage = "none" /\ job = NoJob /\ page[c] \in {"out", "lost"}
  BY DEF Register, MayRegister, Turn
<1>3. source \in [JobIds -> Log]
  BY DEF Types, ServerTypes, FileTypes
<1>4. Types'
  <2>1. reg' \in [client : Clients \cup {NONE}, at : Workers \cup {NONE}, logs : [JobIds -> Log]]
    BY <1>1, <1>3 DEF Types, ServerTypes
  <2>2. overtaken' \subseteq JobIds
    BY <1>1 DEF Types, BalancerTypes
  <2> QED
    BY <1>2, <2>1, <2>2 DEF Types, ServerTypes, FileTypes, BalancerTypes, PostTypes, PageTypes
<1>5. Connected'
  BY <1>1, <1>2 DEF Connected, Types, ServerTypes, NoReg
<1>6. Turn'
  BY <1>2 DEF Turn, Running, NoJob
<1>7. Counted' /\ Files'
  BY <1>2 DEF Counted, Files, Fresh, Unhandled, Ended, Out, Pending, Kept, Done
<1>8. Past'
  <2>1. \A j \in JobIds : source[j] <= runs[j]
    BY DEF Past, Types, ServerTypes
  <2> QED
    BY <1>1, <1>2, <2>1 DEF Past
<1>9. Spread'
  <2>1. ASSUME NEW j \in JobIds, runs[j] > 0, source[j] # Absent
        PROVE  Done(source[j]) \/ j \in overtaken'
    <3>1. job.id # j /\ ~Pending(j)
      BY <1>2 DEF NoJob, Pending
    <3>2. CASE source = saved
      <4>1. saved[j] # 0 \/ \E s \in saving : s[1] = j /\ Done(s[2])
        BY <2>1, <3>1 DEF Files, Kept
      <4>2. saved[j] \in Log
        BY DEF Types, FileTypes
      <4> QED
        BY <1>1, <2>1, <3>2, <4>1, <4>2 DEF Done
    <3>3. CASE source # saved
      <4>1. PICK v \in up : source = logs[v]
        BY <3>3
      <4> QED
        BY <1>1, <2>1, <3>1, <3>3, <4>1 DEF Spread
    <3> QED
      BY <3>2, <3>3
  <2> QED
    BY <1>1, <1>2, <2>1 DEF Spread, NoJob
<1> QED
  BY <1>4, <1>5, <1>6, <1>7, <1>8, <1>9

\* The worker has loaded the session, and the client is registered.
LEMMA LoadedStep == ASSUME JInv, Loaded PROVE JInv'
<1> USE JobsAssumption DEF JInv, JobIds, Absent, Log, files
<1> DEFINE c == reg.client
           Merged == [j \in JobIds |-> IF reg.at \in loaded \/ reg.logs[j] = Absent THEN logs[reg.at][j] ELSE reg.logs[j]]
<1>1. /\ UNCHANGED <<up, listed, conns, files, calls, job, overtaken, runs, reply, inbox, recoverLog, posts>>
      /\ reg # NoReg /\ reg' = NoReg /\ reg.at \in up /\ reg.at \in Workers /\ c \in Clients
      /\ page[c] \in {"out", "lost"} /\ job = NoJob
      /\ loaded' = loaded \cup {reg.at}
      /\ at' = [at EXCEPT ![c] = reg.at]
      /\ page' = [page EXCEPT ![c] = IF @ = "out" THEN "opening" ELSE "asking"]
  BY DEF Loaded, Connected, Turn, Types, ServerTypes
<1>2. logs' = [logs EXCEPT ![reg.at] = Merged]
  BY <1>1 DEF Loaded, Types, ServerTypes
<1>3. Merged \in [JobIds -> Log]
  BY <1>1 DEF Types, ServerTypes, BalancerTypes
<1>4. \A j \in JobIds : Merged[j] = logs[reg.at][j] \/ (Merged[j] = reg.logs[j] /\ reg.logs[j] # Absent)
  OBVIOUS
<1> HIDE DEF Merged
<1>5. logs'[reg.at] = Merged /\ \A w \in Workers : w # reg.at => logs'[w] = logs[w]
  BY <1>1, <1>2 DEF Types, ServerTypes
<1>6. Types'
  BY <1>1, <1>2, <1>3 DEF Types, ServerTypes, FileTypes, BalancerTypes, PostTypes, PageTypes, Pages, Served, NoReg, NoLogs
<1>7. Connected'
  BY <1>1 DEF Connected, Types, ServerTypes, PageTypes, Served
<1>8. Turn'
  BY <1>1 DEF Turn, Running, NoJob
<1>9. Counted'
  BY <1>1 DEF Counted, Fresh, Unhandled, Ended
<1>10. Past'
  <2>1. \A j \in JobIds : Merged[j] <= runs[j]
    BY <1>1, <1>4 DEF Past
  <2>2. \A w \in Workers, j \in JobIds : logs'[w][j] <= runs[j]
    BY <1>5, <2>1 DEF Past
  <2>3. \A j \in JobIds : NoReg.logs[j] <= runs[j]
    BY DEF NoReg, NoLogs, Types, BalancerTypes
  <2> QED
    BY <1>1, <2>2, <2>3 DEF Past
<1>11. Files'
  <2>1. ASSUME NEW j \in JobIds, Out(j)' PROVE Out(j) \/ (runs[j] > 0 /\ ~Pending(j))
    <3>1. CASE ~Out(j)
      <4>1. Done(Merged[j])
        BY <1>5, <2>1, <3>1 DEF Out
      <4>2. runs[j] > 0
        <5>1. Merged[j] <= runs[j]
        BY <1>1, <1>4 DEF Past
      <5> QED
        BY <1>3, <4>1, <5>1 DEF Done, Types, BalancerTypes
      <4> QED
        BY <1>1, <4>2 DEF Pending, NoJob
    <3> QED
      BY <3>1
  <2> QED
    BY <1>1, <2>1 DEF Files, Unhandled, Pending, Kept, NoJob
<1>12. Spread'
  <2>1. ASSUME NEW j \in JobIds, NEW v \in up, runs[j] > 0
        PROVE  Done(logs'[v][j]) \/ j \in overtaken
    <3>1. Done(logs[v][j]) \/ j \in overtaken
      BY <1>1, <2>1 DEF Spread, NoJob
    <3>2. CASE v = reg.at
      BY <1>1, <1>4, <1>5, <2>1, <3>1, <3>2 DEF Spread
    <3>3. CASE v # reg.at
      BY <1>5, <3>1, <3>3 DEF Types, ServerTypes
    <3> QED
      BY <3>2, <3>3
  <2> QED
    BY <1>1, <2>1 DEF Spread
<1> QED
  BY <1>6, <1>7, <1>8, <1>9, <1>10, <1>11, <1>12

-----------------------------------------------------------------------------
\* A worker gets a request and logs the job, and will call the load balancer.
LEMMA HandleExecuteStep ==
    ASSUME JInv, NEW k \in DOMAIN posts, HandleExecute(k)
    PROVE  JInv'
<1> USE JobsAssumption DEF JInv, JobIds, Absent, Log, server, browser
<1>1. /\ UNCHANGED <<server, saved, job, reg, overtaken, runs, browser>>
      /\ posts[k].stage = "sent" /\ posts' = [posts EXCEPT ![k].stage = "answered"]
      /\ saving' = saving \cup {<<k, 0>>} /\ calls' = calls \cup {k}
  BY DEF HandleExecute
<1>2. k \in JobIds /\ Unhandled(k) /\ Fresh(k)
  BY <1>1 DEF Types, PostTypes, Fresh, Unhandled
<1>3. /\ DOMAIN posts' = DOMAIN posts /\ posts'[k].stage = "answered"
      /\ \A j \in DOMAIN posts : j # k => posts'[j] = posts[j]
  BY <1>1, PostStage
<1>4. Types'
  <2>1. FileTypes'
    BY <1>1, <1>2 DEF Types, FileTypes
  <2> QED
    BY <1>1, <1>2, <2>1, PostStage DEF Types, ServerTypes, BalancerTypes, PageTypes
<1>5. Connected' /\ Turn' /\ Spread'
  BY <1>1 DEF Connected, Turn, Spread, Running, NoReg, NoLogs, NoJob, Done
<1>6. Counted'
  BY <1>1, <1>2, <1>3 DEF Counted, Fresh, Unhandled, Ended
<1>7. Past'
  BY <1>1, <1>2 DEF Past, Types, BalancerTypes
<1>8. Files'
  <2>1. saved[k] = Absent /\ runs[k] = 0 /\ job.id # k
    BY <1>2 DEF Files, Counted
  <2>2. \A j \in JobIds : Unhandled(j)' => Unhandled(j) /\ j # k
    BY <1>3 DEF Unhandled
  <2> QED
    BY <1>1, <1>2, <2>1, <2>2 DEF Files, Out, Pending, Kept, Done, Counted
<1> QED
  BY <1>4, <1>5, <1>6, <1>7, <1>8

\* The answer to a request, or that there is none.
LEMMA AnswerSteps ==
    ASSUME JInv, NEW k \in DOMAIN posts, Executed(k) \/ Refused(k)
    PROVE  JInv'
<1> USE JobsAssumption DEF JInv, JobIds, Absent, Log, server, files, balancer, browser
<1>1. /\ UNCHANGED <<server, files, balancer, page, at, reply, inbox>>
      /\ posts' = [posts EXCEPT ![k].stage = "over"]
      /\ recoverLog' = recoverLog \/ recoverLog' = [recoverLog EXCEPT ![posts[k].client] = FALSE]
  BY DEF Executed, Refused
<1>2. /\ DOMAIN posts' = DOMAIN posts /\ posts'[k].stage = "over"
      /\ \A j \in DOMAIN posts : j # k => posts'[j] = posts[j]
  BY <1>1, PostStage
<1>3. Types'
  BY <1>1, PostStage DEF Types, ServerTypes, FileTypes, BalancerTypes, PageTypes
<1>4. Connected' /\ Turn' /\ Past' /\ Spread'
  BY <1>1 DEF Connected, Turn, Past, Spread, Running, NoReg, NoLogs, NoJob, Done
<1>5. \A j \in JobIds : (Unhandled(j)' => Unhandled(j)) /\ (Fresh(j)' => Fresh(j))
  BY <1>1, <1>2 DEF Fresh, Unhandled
<1>6. Counted'
  BY <1>1, <1>2, <1>5 DEF Counted, Ended
<1>7. Files'
  BY <1>1, <1>5 DEF Files, Out, Pending, Kept, Done
<1> QED
  BY <1>3, <1>4, <1>6, <1>7

\* A log is saved, or cannot be.
LEMMA SaveStep == ASSUME JInv, Save PROVE JInv'
<1> USE JobsAssumption DEF JInv, JobIds, Absent, Log, server, balancer, browser
<1>1. PICK s \in saving :
        /\ saving' = saving \ {s}
        /\ \/ saved' = [saved EXCEPT ![s[1]] = s[2]]
           \/ saved' = [saved EXCEPT ![s[1]] = Absent]
        /\ UNCHANGED <<server, balancer, browser, posts>>
  BY DEF Save
<1>2. s[1] \in JobIds /\ s[2] \in Nat /\ s = <<s[1], s[2]>>
  BY DEF Types, FileTypes
<1>3. /\ saved'[s[1]] \in {s[2], Absent}
      /\ \A j \in JobIds : j # s[1] => saved'[j] = saved[j]
  BY <1>1, <1>2 DEF Types, FileTypes
<1>4. Types'
  BY <1>1, <1>2 DEF Types, ServerTypes, FileTypes, BalancerTypes, PostTypes, PageTypes
<1>5. Connected' /\ Turn' /\ Spread'
  BY <1>1 DEF Connected, Turn, Spread, Running, NoReg, NoLogs, NoJob, Done
<1>6. Counted'
  BY <1>1 DEF Counted, Fresh, Unhandled, Ended
<1>7. Past'
  <2>1. \A j \in JobIds : saved'[j] <= runs[j]
    <3>1. s[2] <= runs[s[1]] /\ -1 <= runs[s[1]]
      BY <1>2 DEF Past, Types, BalancerTypes
    <3> QED
      BY <1>3, <3>1 DEF Past
  <2> QED
    BY <1>1, <2>1 DEF Past
<1>8. Files'
  <2>1. \A j \in JobIds : Unhandled(j) => j # s[1] /\ saved[j] = Absent
    BY DEF Files
  <2>2. \A j \in JobIds : <<j, 0>> \in saving /\ j = s[1] => s[2] = 0
    BY <1>2 DEF Files, Past, Types, BalancerTypes
  <2>3. ASSUME NEW j \in JobIds, Out(j) \/ (runs[j] > 0 /\ ~Pending(j))
        PROVE  Kept(j)'
    <3>0. ASSUME Out(j) PROVE runs[j] > 0
      <4>1. PICK w \in Workers : logs[w][j] > 0
        BY <3>0 DEF Out, Done
      <4>2. logs[w][j] <= runs[j] /\ logs[w][j] \in Log /\ runs[j] \in Nat
        BY DEF Past, Types, ServerTypes, BalancerTypes
      <4> QED
        BY <4>1, <4>2
    <3>1. Kept(j) /\ runs[j] > 0
      BY <2>3, <3>0 DEF Files
    <3>2. <<j, 0>> \notin saving
      BY <3>1 DEF Files
    <3>3. CASE j = s[1]
      BY <1>2, <1>3, <3>2, <3>3 DEF Kept
    <3>4. CASE j # s[1]
      BY <1>1, <1>3, <3>1, <3>4 DEF Kept
    <3> QED
      BY <3>3, <3>4
  <2>4. \A j \in JobIds : Unhandled(j)' => saved'[j] = Absent /\ \A t \in saving' : t[1] # j
    BY <1>1, <1>3, <2>1 DEF Files, Unhandled
  <2>5. \A j \in JobIds : <<j, 0>> \in saving' => saved'[j] = Absent /\ runs[j] = 0
    BY <1>1, <1>2, <1>3, <2>2 DEF Files
  <2> QED
    BY <1>1, <2>3, <2>4, <2>5 DEF Files, Out, Pending, Done
<1> QED
  BY <1>4, <1>5, <1>6, <1>7, <1>8

\* The load balancer takes up a job.
LEMMA NewJobStep == ASSUME JInv, NEW k \in JobIds, NewJob(k) PROVE JInv'
<1> USE JobsAssumption DEF JInv, JobIds, Absent, Log, server, files, browser
<1>1. /\ UNCHANGED <<server, files, reg, overtaken, runs, browser, posts>>
      /\ k \in calls /\ calls' = calls \ {k} /\ reg = NoReg /\ job = NoJob
      /\ \/ job' = job
         \/ job' = [stage |-> "asking", id |-> k, at |-> NONE, todo |-> listed, log |-> Absent]
  BY DEF NewJob, NoJob, Turn
<1>2. Types'
  <2>1. calls' \subseteq JobIds /\ listed \subseteq Workers
    BY <1>1 DEF Types, BalancerTypes, ServerTypes
  <2>2. job' \in Job
    BY <1>1, <2>1 DEF Types, BalancerTypes, Job, Stages
  <2> QED
    BY <1>1, <2>1, <2>2 DEF Types, ServerTypes, FileTypes, BalancerTypes, PostTypes, PageTypes
<1>3. Connected' /\ Turn'
  BY <1>1 DEF Connected, Turn, Running, NoReg, NoJob
<1>4. Fresh(k) /\ posts[k].stage # "sent" /\ k \in DOMAIN posts /\ runs[k] = 0
  BY <1>1 DEF Fresh, Counted
<1>5. Counted'
  <2>1. Ended \in Nat /\ Ended' = Ended
    BY <1>1, EndedCounts DEF Ended
  <2> QED
    BY <1>1, <1>4, <2>1 DEF Counted, Fresh, Unhandled, NoJob
<1>6. Past'
  <2>1. job'.stage # "none" => job'.log = -1 /\ job'.id = k
    BY <1>1 DEF NoJob
  <2>2. -1 <= runs[k]
    BY DEF Types, BalancerTypes
  <2> QED
    BY <1>1, <2>1, <2>2 DEF Past
<1>7. Files'
  BY <1>1, <1>4 DEF Files, Unhandled, Out, Pending, Kept, Done, NoJob
<1>8. Spread'
  BY <1>1, <1>4 DEF Spread, NoJob, Done, Types, BalancerTypes
<1> QED
  BY <1>2, <1>3, <1>5, <1>6, <1>7, <1>8

-----------------------------------------------------------------------------
\* The steps of the load balancer that only say where it is with the job,
\* field by field.
AskField == \E w \in job.todo :
    /\ job.stage = "asking" /\ job'.id = job.id /\ job'.todo = job.todo \ {w} /\ job'.log = job.log
    /\ IF w \in up THEN job'.stage = "fetching" /\ job'.at = w ELSE job'.stage = "asking" /\ job'.at = NONE
PanicField ==
    /\ job.stage = "asking" /\ job.todo = {} /\ job'.stage = "down"
    /\ job'.id = job.id /\ job'.at = job.at /\ job'.todo = job.todo /\ job'.log = job.log
GetLogField ==
    /\ job.stage = "fetching" /\ saved[job.id] # Absent /\ job'.log = saved[job.id]
    /\ job'.stage = IF Done(saved[job.id]) THEN "replying" ELSE "running"
    /\ job'.id = job.id /\ job'.at = job.at /\ job'.todo = job.todo
ResultField ==
    /\ job.stage = "replying" /\ job'.stage = "sending" /\ job'.at = NONE /\ job'.todo = listed
    /\ job'.id = job.id /\ job'.log = job.log
CompleteField == job.stage = "sending" /\ job.todo = {} /\ job' = NoJob

JobStep == Ask \/ Panic \/ GetLog \/ Result \/ Complete
JobField == AskField \/ PanicField \/ GetLogField \/ ResultField \/ CompleteField

\* The actions are these.
LEMMA JobStepFields == ASSUME JInv, JobStep PROVE JobField /\ job' \in Job
<1> USE JobsAssumption DEF Log, Stages
<1>1. job \in Job /\ job.todo \subseteq Workers /\ listed \subseteq Workers /\ NoJob \in Job
  BY DEF JInv, Types, ServerTypes, BalancerTypes, Job, NoJob
<1>2. CASE Ask
  <2>1. PICK w \in job.todo :
            job' = [job EXCEPT !.todo = job.todo \ {w}, !.stage = IF w \in up THEN "fetching" ELSE job.stage,
                               !.at = IF w \in up THEN w ELSE NONE]
    BY <1>2 DEF Ask, Todo
  <2>2. job.stage = "asking" /\ w \in Workers
    BY <1>1, <1>2 DEF Ask, LB
  <2>3. AskField
    BY <1>1, <2>1, <2>2 DEF AskField, Job
  <2>4. job' \in Job
    BY <1>1, <2>1, <2>2 DEF Job
  <2> QED
    BY <2>3, <2>4 DEF JobField
<1>3. CASE Panic
  BY <1>1, <1>3 DEF Panic, LB, PanicField, JobField, Job
<1>4. CASE GetLog
  <2>1. saved[job.id] \in Log
    BY <1>4 DEF JInv, Turn, Types, FileTypes, GetLog, LB
  <2> QED
    BY <1>1, <1>4, <2>1 DEF GetLog, LB, GetLogField, JobField, Job
<1>5. CASE Result
  BY <1>1, <1>5 DEF Result, LB, Ran, Finished, ResultField, JobField, Job
<1>6. CASE Complete
  BY <1>1, <1>6 DEF Complete, LB, CompleteField, JobField
<1> QED
  BY <1>2, <1>3, <1>4, <1>5, <1>6 DEF JobStep

\* Asking a worker, the log of the job, and the result.
LEMMA JobSteps == ASSUME JInv, JobStep PROVE JInv'
<1> USE JobsAssumption DEF JInv, JobIds, Absent, Log, server, files, browser
<1>1. /\ UNCHANGED <<server, files, calls, reg, overtaken, runs, browser, posts>>
      /\ job.stage \in {"asking", "fetching", "replying", "sending"} /\ reg = NoReg
      /\ job.id \in JobIds
  BY DEF JobStep, Ask, Panic, GetLog, Result, Complete, Connected, Turn, LB, Elsewhere
<1>2. JobField /\ job' \in Job
  BY JobStepFields
<1>3. Types'
  BY <1>1, <1>2 DEF Types, ServerTypes, FileTypes, BalancerTypes, PostTypes, PageTypes
<1>4. Connected'
  BY <1>1 DEF Connected, Served, NoReg
<1>5. Turn'
  <2>1. CASE AskField
    BY <1>1, <2>1 DEF AskField, Turn, Running, Types, ServerTypes
  <2>2. CASE PanicField
    BY <1>1, <2>2 DEF PanicField, Turn, Running
  <2>3. CASE CompleteField
    BY <1>1, <2>3 DEF CompleteField, NoJob, Turn, Running
  <2>4. CASE GetLogField
    BY <1>1, <2>4 DEF GetLogField, Done, Turn, Running, Types, FileTypes
  <2>5. CASE ResultField
    BY <1>1, <2>5 DEF ResultField, Turn, Running
  <2> QED
    BY <1>2, <2>1, <2>2, <2>3, <2>4, <2>5 DEF JobField
<1>6. \/ job'.id = job.id /\ (job'.log = job.log \/ job'.log = saved[job.id])
      \/ job' = NoJob
  BY <1>2 DEF JobField, AskField, PanicField, GetLogField, ResultField, CompleteField
<1>7. Counted'
  <2>1. Ended' = Ended
    BY <1>1 DEF Ended
  <2>2. job'.stage \in {"asking", "fetching", "running"} => job.stage \in {"asking", "fetching"} /\ job'.id = job.id
    BY <1>2 DEF JobField, AskField, PanicField, GetLogField, ResultField, CompleteField, NoJob
  <2>3. \A j \in JobIds : (Fresh(j)' <=> Fresh(j)) /\ (job'.id = j => job.id = j)
    BY <1>1, <1>6 DEF Fresh, Unhandled, NoJob
  <2> QED
    BY <1>1, <2>1, <2>2, <2>3 DEF Counted
<1>8. Past'
  <2>1. job'.stage # "none" => job'.log <= runs[job'.id]
    BY <1>1, <1>6 DEF Past, NoJob
  <2> QED
    BY <1>1, <2>1 DEF Past
<1>9. Files'
  <2>1. job'.stage \in {"running", "saving", "replying", "sending", "writing"} => <<job'.id, 0>> \notin saving
    BY <1>1, <1>2 DEF JobField, AskField, PanicField, GetLogField, ResultField, CompleteField, NoJob, Files
  <2>2. ASSUME NEW j \in JobIds, runs[j] > 0, ~Pending(j)' PROVE Kept(j)
    <3>1. CASE ~Pending(j)
      BY <2>2, <3>1 DEF Files
    <3>2. CASE Pending(j)
      <4>1. GetLogField /\ job'.stage = "replying"
        BY <1>2, <2>2, <3>2 DEF Pending, JobField, AskField, PanicField, GetLogField, ResultField, CompleteField
      <4>2. Done(saved[j])
        BY <3>2, <4>1 DEF GetLogField, Pending
      <4> QED
        BY <4>2 DEF Kept, Done
    <3> QED
      BY <3>1, <3>2
  <2> QED
    BY <1>1, <2>1, <2>2 DEF Files, Unhandled, Out, Kept, Done
<1>10. Spread'
  <2>1. ASSUME NEW j \in JobIds, NEW v \in up, runs[j] > 0, ~Done(logs[v][j]), j \notin overtaken
        PROVE  job'.id = j /\ (job'.stage \in {"sending", "writing"} => v \in job'.todo)
    <3>1. job.id = j /\ (job.stage = "sending" => v \in job.todo)
      BY <2>1 DEF Spread
    <3>2. v \in listed
      BY DEF Types, ServerTypes
    <3> QED
      BY <1>2, <3>1, <3>2 DEF JobField, AskField, PanicField, GetLogField, ResultField, CompleteField
  <2> QED
    BY <1>1, <2>1 DEF Spread, Done
<1> QED
  BY <1>3, <1>4, <1>5, <1>7, <1>8, <1>9, <1>10

\* The program is run.
LEMMA RunStep == ASSUME JInv, Run PROVE JInv'
<1> USE JobsAssumption DEF JInv, JobIds, Absent, Log, server, files, browser
<1>1. /\ UNCHANGED <<server, files, calls, reg, overtaken, browser, posts>>
      /\ job.stage = "running" /\ reg = NoReg /\ job.id \in JobIds
      /\ runs' = [runs EXCEPT ![job.id] = @ + 1]
      /\ job' = [job EXCEPT !.log = runs[job.id] + 1, !.stage = "saving"]
  BY DEF Run, Connected, Turn, LB, Elsewhere
<1>2. /\ runs \in [JobIds -> Nat] /\ job \in Job
      /\ saved \in [JobIds -> Log] /\ saving \subseteq JobIds \X Nat
      /\ reply \in [Clients -> [JobIds -> Log]]
  BY DEF Types, BalancerTypes, FileTypes, PageTypes
<1>3. /\ runs' \in [JobIds -> Nat]
      /\ runs'[job.id] = runs[job.id] + 1
      /\ \A j \in JobIds : j # job.id => runs'[j] = runs[j]
  BY <1>1, <1>2
<1>4. /\ job' \in Job /\ job'.id = job.id /\ job'.stage = "saving" /\ job'.log = runs[job.id] + 1
      /\ job'.at = job.at /\ job'.todo = job.todo
  <2>1. runs[job.id] + 1 \in Log /\ "saving" \in Stages
    BY <1>1, <1>2 DEF Stages
  <2> QED
    BY <1>1, <1>2, <2>1 DEF Job
<1>5. Types'
  BY <1>1, <1>3, <1>4 DEF Types, ServerTypes, FileTypes, BalancerTypes, PostTypes, PageTypes
<1>6. Connected'
  BY <1>1 DEF Connected, Served, NoReg
<1>7. Turn'
  BY <1>1, <1>2, <1>4 DEF Turn, Running
<1>8. Counted'
  <2>1. Ended' = Ended /\ Ended \in Nat
    BY <1>1, EndedCounts DEF Ended
  <2>2. runs[job.id] <= Ended /\ \A j \in JobIds : Fresh(j)' => Fresh(j)
    BY <1>1 DEF Counted, Fresh, Unhandled
  <2> QED
    <3>1. \A j \in JobIds : runs'[j] <= 1 + Ended'
      BY <1>1, <1>2, <1>3, <2>1, <2>2 DEF Counted
    <3>2. calls' \subseteq DOMAIN posts' /\ \A j \in calls' : posts'[j].stage # "sent"
      BY <1>1 DEF Counted
    <3>3. \A j \in JobIds : Fresh(j)' => runs'[j] = 0 /\ job'.id # j
      BY <1>3, <1>4, <2>2 DEF Counted
    <3>4. job'.stage \notin {"asking", "fetching", "running"}
      BY <1>4
    <3> QED
      BY <3>1, <3>2, <3>3, <3>4 DEF Counted
<1>9. Past'
  <2>1. \A j \in JobIds : \A n \in Log : n <= runs[j] => n <= runs'[j]
    <3> SUFFICES ASSUME NEW j \in JobIds, NEW n \in Log, n <= runs[j] PROVE n <= runs'[j]
      OBVIOUS
    <3>1. runs[j] \in Nat /\ runs'[j] \in {runs[j], runs[j] + 1} /\ n \in Int
      BY <1>2, <1>3
    <3> QED
      BY <3>1
  <2>2. \A j \in JobIds : saved[j] <= runs'[j] /\ reg.logs[j] <= runs'[j]
    BY <1>2, <2>1 DEF Past, Types, BalancerTypes
  <2>3. \A s \in saving : s[2] <= runs'[s[1]]
    BY <1>2, <2>1 DEF Past
  <2>4. \A w \in Workers, j \in JobIds : logs[w][j] <= runs'[j]
    BY <2>1 DEF Past, Types, ServerTypes
  <2>5. \A c \in Clients, j \in JobIds : reply[c][j] <= runs'[j]
    BY <1>2, <2>1 DEF Past
  <2>6. \A c \in Clients : \A i \in 1..Len(inbox[c]) : inbox[c][i].log <= runs'[inbox[c][i].job]
    <3> SUFFICES ASSUME NEW c \in Clients, NEW i \in 1..Len(inbox[c])
                 PROVE  inbox[c][i].log <= runs'[inbox[c][i].job]
      OBVIOUS
    <3>1. inbox[c] \in Seq(Message)
      BY DEF Types, PageTypes
    <3>2. inbox[c][i] \in Message
      BY <3>1
    <3>3. inbox[c][i].log <= runs[inbox[c][i].job]
      BY DEF Past
    <3> QED
      BY <2>1, <3>2, <3>3 DEF Message
  <2> QED
    BY <1>1, <1>2, <1>3, <1>4, <2>2, <2>3, <2>4, <2>5, <2>6 DEF Past
<1>10. Files'
  <2>1. \A j \in JobIds : <<j, 0>> \in saving => j # job.id
    BY <1>1 DEF Files
  <2>2. Pending(job.id)' /\ \A j \in JobIds : Pending(j)' <=> Pending(j)
    BY <1>1, <1>4 DEF Pending
  <2>3. ~Out(job.id) \/ Kept(job.id)
    BY <1>1 DEF Files
  <2> QED
    BY <1>1, <1>3, <1>4, <2>1, <2>2, <2>3 DEF Files, Unhandled, Out, Kept, Done
<1>11. Spread'
  BY <1>1, <1>2, <1>3, <1>4 DEF Spread, Done
<1> QED
  BY <1>5, <1>6, <1>7, <1>8, <1>9, <1>10, <1>11

\* Its log is to be saved.
LEMMA FinishStep == ASSUME JInv, Finish PROVE JInv'
<1> USE JobsAssumption DEF JInv, JobIds, Absent, Log, server, browser
<1>1. /\ UNCHANGED <<server, saved, calls, reg, overtaken, runs, browser, posts>>
      /\ job.stage = "saving" /\ reg = NoReg /\ job.id \in JobIds /\ job.log > 0
      /\ saving' = saving \cup {<<job.id, job.log>>}
      /\ job' = [job EXCEPT !.stage = "replying"]
  BY DEF Finish, SaveLog, Connected, Turn, LB, Elsewhere
<1>2. job \in Job /\ job.log \in Nat
  BY <1>1 DEF Types, BalancerTypes, Job
<1>3. /\ job' \in Job /\ job'.id = job.id /\ job'.stage = "replying" /\ job'.log = job.log
      /\ job'.at = job.at /\ job'.todo = job.todo
  BY <1>1, <1>2 DEF Job, Stages
<1>4. Types'
  <2>1. FileTypes'
    BY <1>1, <1>2 DEF Types, FileTypes
  <2> QED
    BY <1>1, <1>3, <2>1 DEF Types, ServerTypes, BalancerTypes, PostTypes, PageTypes
<1>5. Connected'
  BY <1>1 DEF Connected, Served, NoReg
<1>6. Turn'
  BY <1>1, <1>3 DEF Turn, Running
<1>7. Counted'
  BY <1>1, <1>3 DEF Counted, Fresh, Unhandled, Ended
<1>8. Past'
  BY <1>1, <1>3 DEF Past
<1>9. Files'
  <2>1. ~Unhandled(job.id)
    BY <1>1 DEF Counted, Fresh
  <2>2. \A j \in JobIds : Kept(j) => Kept(j)'
    BY <1>1 DEF Kept
  <2>3. \A j \in JobIds : j = job.id => Kept(j)'
    <3>1. <<job.id, job.log>> \in saving'
      BY <1>1
    <3> QED
      BY <1>1, <3>1 DEF Kept, Done
  <2>4. \A j \in JobIds : Unhandled(j)' => Unhandled(j) /\ j # job.id
    BY <1>1, <2>1 DEF Unhandled
  <2>5. \A j \in JobIds : <<j, 0>> \in saving' => <<j, 0>> \in saving
    BY <1>1
  <2> QED
    BY <1>1, <1>3, <2>2, <2>3, <2>4, <2>5 DEF Files, Out, Pending, Done
<1>10. Spread'
  BY <1>1, <1>3 DEF Spread, Done
<1> QED
  BY <1>4, <1>5, <1>6, <1>7, <1>8, <1>9, <1>10

\* A worker keeps the log, and then writes it to its clients.
LEMMA SendLogStep == ASSUME JInv, SendLog PROVE JInv'
<1> USE JobsAssumption DEF JInv, JobIds, Absent, Log, files, browser
<1>1. PICK w \in job.todo :
        /\ job' = IF w \in up THEN [job EXCEPT !.todo = @ \ {w}, !.stage = "writing", !.at = w] ELSE [job EXCEPT !.todo = @ \ {w}]
        /\ logs' = IF w \in up THEN [logs EXCEPT ![w][job.id] = job.log] ELSE logs
  BY DEF SendLog
<1>2. /\ UNCHANGED <<up, listed, loaded, conns, files, calls, reg, overtaken, runs, browser, posts>>
      /\ job.stage = "sending" /\ job.at = NONE /\ reg = NoReg /\ job.id \in JobIds /\ job.log > 0
  BY DEF SendLog, Connected, Turn, Running, LB, Elsewhere
<1>3. job \in Job /\ w \in Workers /\ logs \in [Workers -> [JobIds -> Log]] /\ job.log \in Log
  BY DEF Types, ServerTypes, BalancerTypes, Job
<1>4. /\ job' \in Job /\ job'.id = job.id /\ job'.log = job.log /\ job'.todo = job.todo \ {w}
      /\ IF w \in up THEN job'.stage = "writing" /\ job'.at = w ELSE job'.stage = "sending" /\ job'.at = NONE
  BY <1>1, <1>2, <1>3 DEF Job, Stages
<1>5. /\ logs' \in [Workers -> [JobIds -> Log]]
      /\ \A v \in Workers, j \in JobIds :
            logs'[v][j] = IF v \in up /\ v = w /\ j = job.id THEN job.log ELSE logs[v][j]
  BY <1>1, <1>2, <1>3
<1>6. Types'
  BY <1>2, <1>4, <1>5 DEF Types, ServerTypes, FileTypes, BalancerTypes, PostTypes, PageTypes
<1>7. Connected'
  BY <1>2 DEF Connected, Served, NoReg
<1>8. Turn'
  BY <1>2, <1>4 DEF Turn, Running
<1>9. Counted'
  BY <1>2, <1>4 DEF Counted, Fresh, Unhandled, Ended
<1>10. Past'
  <2>1. job.log <= runs[job.id]
    BY <1>2 DEF Past
  <2>2. \A v \in Workers, j \in JobIds : logs'[v][j] <= runs[j]
    BY <1>5, <2>1 DEF Past
  <2> QED
    BY <1>2, <1>4, <2>1, <2>2 DEF Past
<1>11. Files'
  <2>1. runs[job.id] > 0
    BY <1>2, <1>3 DEF Past, Types, BalancerTypes
  <2>2. \A j \in JobIds : Out(j)' => Out(j) \/ j = job.id
    BY <1>5 DEF Out
  <2>3. ~Pending(job.id)
    BY <1>2 DEF Pending
  <2>4. \A j \in JobIds : Pending(j)' <=> Pending(j)
    BY <1>2, <1>4 DEF Pending
  <2> QED
    BY <1>2, <1>4, <2>1, <2>2, <2>3, <2>4 DEF Files, Unhandled, Kept, Done
<1>12. Spread'
  <2>1. ASSUME NEW j \in JobIds, NEW v \in up, runs[j] > 0, j \notin overtaken, ~Done(logs'[v][j])
        PROVE  job'.id = j /\ v \in job'.todo
    <3>1. v \in Workers
      BY DEF Types, ServerTypes
    <3>2. ~Done(logs[v][j]) /\ ~(v = w /\ j = job.id)
      BY <1>2, <1>5, <2>1, <3>1 DEF Done
    <3>3. job.id = j /\ v \in job.todo
      BY <1>2, <2>1, <3>2 DEF Spread
    <3> QED
      BY <1>4, <3>2, <3>3
  <2> QED
    BY <1>2, <2>1 DEF Spread
<1> QED
  BY <1>6, <1>7, <1>8, <1>9, <1>10, <1>11, <1>12

\* The clients that it writes the log to are connected to it.
LEMMA WriteStep == ASSUME JInv, Write PROVE JInv'
<1> USE JobsAssumption DEF JInv, JobIds, Absent, Log, server, files
<1> DEFINE message == [job |-> job.id, log |-> job.log]
<1>1. /\ UNCHANGED <<server, files, calls, reg, overtaken, runs, page, at, reply, recoverLog, posts>>
      /\ job.stage = "writing" /\ reg = NoReg /\ job.id \in JobIds /\ job.log > 0 /\ job.at \in Workers
      /\ inbox' = [c \in Clients |-> IF c \in conns[job.at] THEN Append(inbox[c], message) ELSE inbox[c]]
  BY DEF Write, Receivers, Connected, Turn, Running, LB, Types, ServerTypes
<1>2. job \in Job /\ inbox \in [Clients -> Seq(Message)] /\ message \in Message /\ job' = Finished(job.todo)
  <2>1. job \in Job /\ inbox \in [Clients -> Seq(Message)] /\ job' = Finished(job.todo)
    BY DEF Write, Types, BalancerTypes, PageTypes
  <2>2. message \in Message
    BY <1>1, <2>1 DEF Job, Message
  <2> QED
    BY <2>1, <2>2
<1>3. /\ job' \in Job /\ job'.id = job.id /\ job'.log = job.log /\ job'.todo = job.todo
      /\ job'.stage = "sending" /\ job'.at = NONE
  BY <1>1, <1>2 DEF Finished, Job, Stages
<1>4. /\ message.job = job.id /\ message.log = job.log
      /\ inbox' \in [Clients -> Seq(Message)]
      /\ \A c \in Clients : inbox'[c] = inbox[c] \/ (inbox'[c] = Append(inbox[c], message) /\ c \in conns[job.at])
  BY <1>1, <1>2
<1> HIDE DEF message
<1>5. Types'
  BY <1>1, <1>3, <1>4 DEF Types, ServerTypes, FileTypes, BalancerTypes, PostTypes, PageTypes
<1>6. Connected'
  <2>1. \A c \in Clients : c \in conns[job.at] => page[c] \in Served
    BY <1>1 DEF Connected
  <2> QED
    BY <1>1, <1>4, <2>1 DEF Connected, NoReg
<1>7. Turn'
  BY <1>1, <1>3 DEF Turn, Running
<1>8. Counted'
  BY <1>1, <1>3 DEF Counted, Fresh, Unhandled, Ended
<1>9. Past'
  <2>1. job.log <= runs[job.id]
    BY <1>1 DEF Past
  <2>2. ASSUME NEW c \in Clients, NEW i \in 1..Len(inbox'[c])
        PROVE  inbox'[c][i].log <= runs[inbox'[c][i].job]
    <3>1. inbox[c] \in Seq(Message) /\ Len(inbox[c]) \in Nat
      BY <1>2
    <3>2. CASE inbox'[c] = inbox[c]
      BY <3>2 DEF Past
    <3>3. CASE inbox'[c] = Append(inbox[c], message)
      <4>1. CASE i <= Len(inbox[c])
        <5>1. inbox'[c][i] = inbox[c][i]
          BY <3>1, <3>3, <4>1
        <5> QED
          BY <3>1, <4>1, <5>1 DEF Past
      <4>2. CASE ~(i <= Len(inbox[c]))
        <5>1. inbox'[c][i] = message
          BY <3>1, <3>3, <4>2
        <5> QED
          BY <1>4, <2>1, <5>1
      <4> QED
        BY <4>1, <4>2
    <3> QED
      BY <1>4, <3>2, <3>3
  <2> QED
    BY <1>1, <1>3, <2>1, <2>2 DEF Past
<1>10. Files'
  BY <1>1, <1>3 DEF Files, Unhandled, Out, Pending, Kept, Done
<1>11. Spread'
  BY <1>1, <1>3 DEF Spread, Done
<1> QED
  BY <1>5, <1>6, <1>7, <1>8, <1>9, <1>10, <1>11

-----------------------------------------------------------------------------
\* The connection of a page breaks.
LEMMA BreakStep == ASSUME JInv, NEW c \in Clients, Break(c) PROVE JInv'
<1> USE JobsAssumption DEF JInv, JobIds, Absent, Log, files, balancer
<1>1. /\ UNCHANGED <<up, listed, loaded, logs, files, balancer, at, recoverLog, posts>>
      /\ page[c] = "open"
      /\ conns' = [conns EXCEPT ![at[c]] = @ \ {c}]
      /\ page' = [d \in Clients |-> IF d = c THEN "lost" ELSE page[d]]
      /\ reply' = [d \in Clients |-> IF d = c THEN NoLogs ELSE reply[d]]
      /\ inbox' = [d \in Clients |-> IF d = c THEN <<>> ELSE inbox[d]]
  BY DEF Break, Tear
<1>2. Types'
  <2>1. ServerTypes'
    BY <1>1 DEF Types, ServerTypes
  <2>2. PageTypes'
    <3>1. "lost" \in Pages /\ NoLogs \in [JobIds -> Log] /\ <<>> \in Seq(Message)
      BY DEF Pages, NoLogs
    <3> QED
      BY <1>1, <3>1 DEF Types, PageTypes
  <2> QED
    BY <1>1, <2>1, <2>2 DEF Types, FileTypes, BalancerTypes, PostTypes
<1>3. Connected'
  <2>1. \A w \in Workers : \A d \in conns'[w] : d \in conns[w] /\ d # c
    BY <1>1 DEF Connected, Types, ServerTypes
  <2>2. \A w \in Workers : \A d \in conns'[w] : at'[d] = w /\ page'[d] \in Served
    BY <1>1, <2>1 DEF Connected, Types, ServerTypes
  <2> QED
    BY <1>1, <2>2 DEF Connected, NoReg
<1>4. Turn' /\ Spread'
  BY <1>1 DEF Turn, Spread, Done, NoReg, NoLogs, NoJob, Running
<1>5. Counted' /\ Files'
  BY <1>1 DEF Counted, Files, Fresh, Unhandled, Ended, Out, Pending, Kept, Done
<1>6. Past'
  <2>1. \A j \in JobIds : NoLogs[j] <= runs[j]
    BY DEF NoLogs, Types, BalancerTypes
  <2>2. \A d \in Clients, j \in JobIds : reply'[d][j] <= runs[j]
    BY <1>1, <2>1 DEF Past
  <2>3. \A d \in Clients : \A i \in 1..Len(inbox'[d]) : inbox'[d][i].log <= runs[inbox'[d][i].job]
    BY <1>1 DEF Past
  <2> QED
    BY <1>1, <2>2, <2>3 DEF Past
<1> QED
  BY <1>2, <1>3, <1>4, <1>5, <1>6

\* A worker ends.
LEMMA CrashStep == ASSUME JInv, NEW w \in Workers, Crash(w) PROVE JInv'
<1> USE JobsAssumption DEF JInv, JobIds, Absent, Log, files
<1> DEFINE cs == { c \in Clients : at[c] = w /\ page[c] \notin {"out", "lost"} }
<1>1. /\ UNCHANGED <<listed, logs, files, overtaken, runs, at, recoverLog>>
      /\ w \in up /\ up' = up \ {w} /\ loaded' = loaded \ {w} /\ conns' = [conns EXCEPT ![w] = {}]
      /\ page' = [c \in Clients |-> IF c \in cs THEN "lost" ELSE page[c]]
      /\ reply' = [c \in Clients |-> IF c \in cs THEN NoLogs ELSE reply[c]]
      /\ inbox' = [c \in Clients |-> IF c \in cs THEN <<>> ELSE inbox[c]]
      /\ calls' \subseteq calls
      /\ job' = IF job.at # w THEN job
                ELSE IF job.stage = "writing" THEN Finished(job.todo)
                ELSE [job EXCEPT !.stage = "asking", !.at = NONE]
      /\ reg' = IF reg.at = w THEN NoReg ELSE reg
  BY DEF Crash, Tear
<1>2. PICK dropped \in SUBSET (DOMAIN posts) :
          posts' = [j \in DOMAIN posts |-> IF j \in dropped THEN [posts[j] EXCEPT !.stage = "over"] ELSE posts[j]]
  <2>1. PICK mute \in SUBSET { j \in DOMAIN posts : posts[j].at = w /\ posts[j].stage = "answered" } :
            posts' = [j \in DOMAIN posts |->
                         IF j \in mute \/ (posts[j].at = w /\ posts[j].stage = "sent") THEN [posts[j] EXCEPT !.stage = "over"]
                         ELSE posts[j]]
    BY DEF Crash
  <2> DEFINE dropped == mute \cup { j \in DOMAIN posts : posts[j].at = w /\ posts[j].stage = "sent" }
  <2>2. dropped \in SUBSET (DOMAIN posts)
    OBVIOUS
  <2>3. posts' = [j \in DOMAIN posts |-> IF j \in dropped THEN [posts[j] EXCEPT !.stage = "over"] ELSE posts[j]]
    BY <2>1
  <2> QED
    BY <2>2, <2>3
<1>3. /\ posts' \in Seq(PostRecord) /\ DOMAIN posts' = DOMAIN posts /\ Len(posts') = Len(posts)
      /\ \A j \in DOMAIN posts : posts'[j].stage = "sent" => posts[j].stage = "sent"
      /\ \A j \in DOMAIN posts : posts'[j] = posts[j] \/ posts'[j].stage = "over"
  <2>1. posts \in Seq(PostRecord)
    BY DEF Types, PostTypes
  <2>2. \A j \in DOMAIN posts : posts[j] \in PostRecord
    BY <2>1
  <2>3. \A j \in DOMAIN posts : [posts[j] EXCEPT !.stage = "over"] \in PostRecord /\ [posts[j] EXCEPT !.stage = "over"].stage = "over"
    BY <2>2 DEF PostRecord
  <2>4. /\ DOMAIN posts' = DOMAIN posts
        /\ \A j \in DOMAIN posts : posts'[j] \in PostRecord /\ (posts'[j] = posts[j] \/ posts'[j].stage = "over")
    BY <1>2, <2>2, <2>3
  <2>5. DOMAIN posts = 1..Len(posts) /\ Len(posts) \in Nat
    BY <2>1
  <2>6. posts' \in Seq(PostRecord) /\ Len(posts') = Len(posts)
    <3>1. posts' = [j \in 1..Len(posts) |-> posts'[j]]
      BY <1>2, <2>5
    <3> QED
      BY <2>4, <2>5, <3>1
  <2> QED
    BY <2>4, <2>6
<1>4. job \in Job /\ w \in Workers /\ w # NONE
  BY DEF Types, BalancerTypes
<1>5. /\ job' \in Job /\ job'.id = job.id /\ job'.log = job.log /\ job'.todo = job.todo
      /\ \/ job.at # w /\ job' = job
         \/ job.at = w /\ job.stage = "writing" /\ job'.stage = "sending" /\ job'.at = NONE
         \/ job.at = w /\ job.stage \in Running /\ job'.stage = "asking" /\ job'.at = NONE
  <2>1. CASE job.at # w
    BY <1>1, <1>4, <2>1
  <2>2. CASE job.at = w /\ job.stage = "writing"
    BY <1>1, <1>4, <2>2 DEF Finished, Job, Stages
  <2>3. CASE job.at = w /\ job.stage # "writing"
    <3>1. job.stage \in Running
      BY <1>4, <2>3 DEF Turn
    <3> QED
      BY <1>1, <1>4, <2>3, <3>1 DEF Job, Stages
  <2> QED
    BY <2>1, <2>2, <2>3
<1> HIDE DEF cs
<1>6. \A c \in cs : at[c] = w /\ c \in Clients /\ page[c] \notin {"out", "lost"}
  BY DEF cs
<1>7. Types'
  <2>1. ServerTypes'
    BY <1>1 DEF Types, ServerTypes
  <2>2. PageTypes'
    <3>1. "lost" \in Pages /\ NoLogs \in [JobIds -> Log] /\ <<>> \in Seq(Message)
      BY DEF Pages, NoLogs
    <3> QED
      BY <1>1, <3>1 DEF Types, PageTypes
  <2>3. BalancerTypes'
    <3>1. reg' \in [client : Clients \cup {NONE}, at : Workers \cup {NONE}, logs : [JobIds -> Log]]
      BY <1>1 DEF Types, BalancerTypes, NoReg, NoLogs
    <3> QED
      BY <1>1, <1>5, <3>1 DEF Types, BalancerTypes
  <2> QED
    BY <1>1, <1>3, <2>1, <2>2, <2>3 DEF Types, FileTypes, PostTypes
<1>8. Connected'
  <2>1. \A v \in Workers : \A c \in conns'[v] : v # w /\ c \in conns[v]
    BY <1>1 DEF Types, ServerTypes
  <2>2. \A v \in Workers : \A c \in conns'[v] : at'[c] = v /\ page'[c] \in Served
    BY <1>1, <1>6, <2>1 DEF Connected, Types, ServerTypes
  <2>3. \A c \in Clients : inbox'[c] # <<>> => page'[c] \in Served
    BY <1>1 DEF Connected
  <2>4. reg' # NoReg => reg' = reg /\ reg.at # w
    BY <1>1 DEF NoReg
  <2>5. reg' # NoReg => /\ reg'.client \in Clients /\ reg'.at \in up'
                        /\ page'[reg'.client] \in {"out", "lost"} /\ job'.stage = "none"
    BY <1>1, <1>5, <1>6, <2>4 DEF Connected, Running
  <2> QED
    BY <2>2, <2>3, <2>5 DEF Connected
<1>9. Turn'
  <2>1. CASE job' = job /\ job.at # w
    BY <1>1, <2>1 DEF Turn
  <2>2. CASE job.at = w /\ job.stage = "writing" /\ job'.stage = "sending" /\ job'.at = NONE
    BY <1>1, <1>5, <2>2 DEF Turn, Running
  <2>3. CASE job.at = w /\ job.stage \in Running /\ job'.stage = "asking" /\ job'.at = NONE
    BY <1>1, <1>5, <2>3 DEF Turn, Running
  <2> QED
    BY <1>5, <2>1, <2>2, <2>3
<1>10. Counted'
  <2>1. Ended \in Nat /\ Ended' = Ended + 1
    BY <1>1, EndedCounts
  <2>2. \A j \in JobIds : runs[j] \in Nat
    BY DEF Types, BalancerTypes
  <2>3. \A j \in JobIds : runs[j] <= 1 + Ended
    BY DEF Counted
  <2>4. \A j \in JobIds : runs'[j] <= 1 + Ended' /\ runs'[j] <= Ended'
    BY <1>1, <2>1, <2>2, <2>3
  <2>5. \A j \in JobIds : Fresh(j)' => Fresh(j)
    BY <1>1, <1>3 DEF Fresh, Unhandled
  <2>6. calls' \subseteq DOMAIN posts' /\ \A j \in calls' : posts'[j].stage # "sent"
    BY <1>1, <1>3 DEF Counted
  <2>7. job'.stage \in {"asking", "fetching", "running"} => job'.id \in JobIds
    <3>1. job'.stage # "none" => job.stage # "none"
      BY <1>5 DEF Running
    <3> QED
      BY <1>5, <3>1 DEF Turn
  <2> QED
    BY <1>1, <1>5, <2>4, <2>5, <2>6, <2>7 DEF Counted
<1>11. Past'
  <2>1. \A j \in JobIds : NoLogs[j] <= runs[j]
    BY DEF NoLogs, Types, BalancerTypes
  <2>2. \A c \in Clients, j \in JobIds : reply'[c][j] <= runs[j]
    BY <1>1, <2>1 DEF Past
  <2>3. \A c \in Clients : \A i \in 1..Len(inbox'[c]) : inbox'[c][i].log <= runs[inbox'[c][i].job]
    BY <1>1 DEF Past
  <2>4. \A j \in JobIds : reg'.logs[j] <= runs[j]
    BY <1>1, <2>1 DEF Past, NoReg
  <2>5. job'.stage # "none" => job'.log <= runs[job'.id]
    BY <1>5 DEF Past, Running
  <2> QED
    BY <1>1, <2>2, <2>3, <2>4, <2>5 DEF Past
<1>12. Files'
  <2>1. \A j \in JobIds : Unhandled(j)' => Unhandled(j)
    BY <1>3 DEF Unhandled
  <2>2. \A j \in JobIds : Pending(j) => Pending(j)'
    BY <1>5 DEF Pending, Running
  <2>3. job'.stage \in {"running", "saving", "replying", "sending", "writing"} => <<job'.id, 0>> \notin saving
    BY <1>5 DEF Files
  <2> QED
    BY <1>1, <2>1, <2>2, <2>3 DEF Files, Out, Kept, Done
<1>13. Spread'
  <2>1. \A j \in JobIds, v \in up' :
            runs[j] > 0 => \/ Done(logs[v][j]) \/ j \in overtaken
                           \/ job'.id = j /\ (job'.stage \in {"sending", "writing"} => v \in job'.todo)
    BY <1>1, <1>5 DEF Spread
  <2>2. reg' # NoReg => reg' = reg
    BY <1>1
  <2> QED
    BY <1>1, <2>1, <2>2 DEF Spread, Done
<1> QED
  BY <1>7, <1>8, <1>9, <1>10, <1>11, <1>12, <1>13

\* The load balancer strikes a worker that has ended from its list.
LEMMA StrikeStep == ASSUME JInv, NEW w \in Workers, Strike(w) PROVE JInv'
<1> USE JobsAssumption DEF JInv, JobIds, Absent, Log, files, balancer, browser
<1>1. /\ UNCHANGED <<up, loaded, logs, conns, files, balancer, browser, posts>>
      /\ w \in listed \ up /\ listed' = listed \ {w}
  BY DEF Strike
<1>2. Types'
  BY <1>1 DEF Types, ServerTypes, FileTypes, BalancerTypes, PostTypes, PageTypes
<1>3. Connected' /\ Turn'
  BY <1>1 DEF Connected, Turn, Running, NoReg, NoJob, NoLogs
<1>4. Counted' /\ Past' /\ Files' /\ Spread'
  BY <1>1 DEF Counted, Past, Files, Spread, Fresh, Unhandled, Ended, Out, Pending, Kept, Done, NoReg, NoLogs
<1> QED
  BY <1>2, <1>3, <1>4

-----------------------------------------------------------------------------
\* A step that changes nothing.
LEMMA StutterStep == ASSUME JInv, UNCHANGED vars PROVE JInv'
<1> USE DEF vars, server, files, balancer, browser
<1>1. Types'
  BY DEF JInv, Types, ServerTypes, FileTypes, BalancerTypes, PostTypes, PageTypes
<1>2. Connected' /\ Turn'
  BY DEF JInv, Connected, Turn, NoReg, NoJob
<1>3. Counted'
  BY DEF JInv, Counted, Fresh, Unhandled, Ended, Out, Pending, Kept, Done, NoReg, NoLogs
<1>4. Past' /\ Files' /\ Spread'
  BY DEF JInv, Past, Files, Spread, Fresh, Unhandled, Ended, Out, Pending, Kept, Done, NoReg, NoLogs
<1> QED
  BY <1>1, <1>2, <1>3, <1>4 DEF JInv

\* Every step preserves the invariant.
LEMMA NextJInv == JInv /\ [Next]_vars => JInv'
<1> SUFFICES ASSUME JInv, [Next]_vars PROVE JInv'
  OBVIOUS
<1>1. CASE \E c \in Executers : Execute(c)
  BY <1>1, PageSteps, JobsAssumption DEF PageStep
<1>2. ASSUME NEW c \in Clients, Session(c) \/ Break(c) PROVE JInv'
  BY <1>2, PageSteps, OpenStep, RegisterStep, BreakStep DEF Session, PageStep
<1>3. ASSUME NEW j \in JobIds, Request(j) \/ NewJob(j) PROVE JInv'
  BY <1>3, HandleExecuteStep, AnswerSteps, NewJobStep DEF Request
<1>4. CASE Loaded \/ Balance \/ Save
  BY <1>4, LoadedStep, SaveStep, JobSteps, RunStep, FinishStep, SendLogStep, WriteStep DEF Balance, JobStep
<1>5. ASSUME NEW w \in Workers, Crash(w) \/ Strike(w) PROVE JInv'
  BY <1>5, CrashStep, StrikeStep
<1>6. CASE UNCHANGED vars
  BY <1>6, StutterStep
<1> QED
  BY <1>1, <1>2, <1>3, <1>4, <1>5, <1>6 DEF Next

\* So it holds in every state of every behaviour.
LEMMA SpecJInv == Spec => []JInv
  BY InitJInv, NextJInv, PTL DEF Spec

-----------------------------------------------------------------------------
\* However many workers there are and whichever of them end: the load
\* balancer only fails over a job when no worker it knows runs (NewJob), a
\* program is run again only for each worker that ended over it (RunJob), and
\* a result that is out is not left unfinished in the file system (saveLog).
THEOREM SpecJobsInv == Spec => []JobsInv
<1>1. ASSUME JInv PROVE JobsInv
  <2> USE DEF JInv
  <2>1. TypeOK
    <3>1. \A w \in Workers : conns[w] \subseteq { c \in Clients : at[c] = w /\ page[c] \in {"loading", "answered", "open"} }
      BY <1>1 DEF Types, ServerTypes, Connected, Served
    <3>2. \A s \in saving : s[1] \in DOMAIN posts /\ s[2] <= runs[s[1]]
      BY <1>1 DEF Types, FileTypes, Files, Unhandled, Past
    <3>3. job.stage \in Stages
      BY <1>1 DEF Types, BalancerTypes, Job
    <3>4. job.at \in up \cup {NONE} /\ reg.at \in up \cup {NONE}
      BY <1>1 DEF Turn, Connected, NoReg
    <3>5. reg = NoReg \/ job.stage = "none"
      BY <1>1 DEF Connected
    <3>6. loaded \subseteq up /\ listed \subseteq Workers /\ calls \subseteq DOMAIN posts
      BY <1>1 DEF Types, ServerTypes, Counted
    <3>7. \A c \in Clients : inbox[c] # <<>> => page[c] \in {"loading", "answered", "open"}
      BY <1>1 DEF Connected, Served
    <3> QED
      BY <3>1, <3>2, <3>3, <3>4, <3>5, <3>6, <3>7 DEF TypeOK, Stages
  <2>2. OneIsEnough
    <3>1. CASE job.stage = "down"
      <4>1. listed \cap up \subseteq job.todo \cup {NONE}
        BY <1>1, <3>1 DEF Turn, Running
      <4>2. job.todo = {} /\ NONE \notin up
        BY <1>1, <3>1, JobsAssumption DEF Turn, Types, ServerTypes
      <4> QED
        BY <4>1, <4>2 DEF OneIsEnough
    <3> QED
      BY <3>1 DEF OneIsEnough
  <2>3. RunsBounded
    BY <1>1 DEF Counted, Ended, RunsBounded
  <2>4. NotLeftUnfinished
    BY <1>1 DEF Files, Out, Kept, NotLeftUnfinished
  <2> QED
    BY <2>1, <2>2, <2>3, <2>4 DEF JobsInv
<1> QED
  BY <1>1, SpecJInv, PTL

\* However often a worker loads the session again (getSessionAndLogs): what it
\* loads never takes a result from it, unless it read the file system while
\* the result was still on its way there.
THEOREM SpecDoneStays == Spec => DoneStays
<1>1. ASSUME JInv, [Next]_vars, NEW w \in Workers, NEW j \in JobIds, Done(logs[w][j]), ~Done(logs'[w][j])
      PROVE  j \in overtaken
  <2> USE DEF JInv
  <2>1. CASE Loaded
    <3>1. reg # NoReg /\ reg.at \in Workers /\ job = NoJob
      BY <1>1, <2>1 DEF Loaded, Connected, Turn, Types, ServerTypes
    <3>2. logs'[w][j] = IF w # reg.at \/ reg.at \in loaded \/ reg.logs[j] = Absent THEN logs[w][j] ELSE reg.logs[j]
      BY <1>1, <2>1, <3>1 DEF Loaded, Types, ServerTypes
    <3>3. reg.logs[j] # Absent /\ ~Done(reg.logs[j])
      BY <1>1, <3>2
    <3>4. runs[j] > 0
      <4>1. logs[w][j] <= runs[j] /\ logs[w][j] \in Log /\ runs[j] \in Nat
        BY <1>1 DEF Past, Types, ServerTypes, BalancerTypes
      <4> QED
        BY <1>1, <4>1 DEF Done, Log, Absent
    <3> QED
      BY <1>1, <3>1, <3>3, <3>4 DEF Spread
  <2>2. CASE SendLog
    <3>1. job.log > 0
      BY <1>1, <2>2 DEF SendLog, LB, Turn
    <3>2. logs'[w][j] \in {logs[w][j], job.log}
      BY <1>1, <2>2 DEF SendLog, Types, ServerTypes
    <3> QED
      BY <1>1, <3>1, <3>2 DEF Done
  <2>3. CASE ~Loaded /\ ~SendLog
    <3>1. logs' = logs
      BY <1>1, <2>3
      DEF Next, vars, server, files, balancer, browser, Elsewhere, Session, Request, Balance, Execute, Register,
          ServeRecovery, Recover, Open, ServeSession, InitSession, Receive, Break, HandleExecute, Executed, Refused,
          NewJob, Ask, Panic, GetLog, Run, Finish, Result, Write, Complete, Save, Crash, Strike
    <3> QED
      BY <1>1, <3>1
  <2> QED
    BY <2>1, <2>2, <2>3
<1>2. JInv /\ [Next]_vars => [\A w \in Workers, j \in JobIds : Done(logs[w][j]) /\ ~Done(logs'[w][j]) => j \in overtaken]_vars
  BY <1>1
<1> QED
  BY <1>2, SpecJInv, PTL DEF Spec, DoneStays

-----------------------------------------------------------------------------
(***************************************************************************)
(* What a browser lists.                                                   *)
(***************************************************************************)
Has(list, j) == \E i \in DOMAIN list : list[i].job = j
Clicks(list, j) == \E i \in DOMAIN list : list[i].job = j /\ list[i].listeners > 0

\* A list that is put in front of another.
LEMMA ConcatLines ==
    ASSUME NEW a \in Seq(Line), NEW b \in Seq(Line), NEW j
    PROVE  /\ a \o b \in Seq(Line)
           /\ Has(a \o b, j) <=> Has(a, j) \/ Has(b, j)
           /\ Clicks(a \o b, j) <=> Clicks(a, j) \/ Clicks(b, j)
<1>1. /\ a \o b \in Seq(Line) /\ Len(a) \in Nat /\ Len(b) \in Nat
      /\ DOMAIN a = 1..Len(a) /\ DOMAIN b = 1..Len(b) /\ DOMAIN (a \o b) = 1..(Len(a) + Len(b))
  OBVIOUS
<1>2. \A i \in DOMAIN a : i \in DOMAIN (a \o b) /\ (a \o b)[i] = a[i]
  BY <1>1
<1>3. \A i \in DOMAIN b : Len(a) + i \in DOMAIN (a \o b) /\ (a \o b)[Len(a) + i] = b[i]
  BY <1>1
<1>4. \A i \in DOMAIN (a \o b) : i \in DOMAIN a \/ \E k \in DOMAIN b : i = Len(a) + k
  <2> SUFFICES ASSUME NEW i \in DOMAIN (a \o b), i \notin DOMAIN a PROVE \E k \in DOMAIN b : i = Len(a) + k
    OBVIOUS
  <2>1. i - Len(a) \in DOMAIN b /\ i = Len(a) + (i - Len(a))
    BY <1>1
  <2> QED
    BY <2>1
<1>5. \A i \in DOMAIN (a \o b) : (\E k \in DOMAIN a : (a \o b)[i] = a[k]) \/ (\E k \in DOMAIN b : (a \o b)[i] = b[k])
  BY <1>2, <1>3, <1>4
<1> DEFINE c == a \o b
<1>6. /\ \A i \in DOMAIN a : i \in DOMAIN c /\ c[i] = a[i]
      /\ \A i \in DOMAIN b : \E k \in DOMAIN c : c[k] = b[i]
      /\ \A i \in DOMAIN c : (\E k \in DOMAIN a : c[i] = a[k]) \/ (\E k \in DOMAIN b : c[i] = b[k])
  BY <1>2, <1>3, <1>5
<1> HIDE DEF c
<1>7. Has(c, j) <=> Has(a, j) \/ Has(b, j)
  BY <1>6 DEF Has
<1>8. Clicks(c, j) <=> Clicks(a, j) \/ Clicks(b, j)
  BY <1>6 DEF Clicks
<1> QED
  BY <1>1, <1>7, <1>8 DEF c

\* The logs of a reply are listed for the new jobs.
LEMMA ListedLines ==
    ASSUME NEW list \in Seq(Line), NEW received \in [JobIds -> Log], NEW new \in SUBSET JobIds, NEW j
    PROVE  /\ Listed(list, received, new) \in Seq(Line)
           /\ Has(Listed(list, received, new), j) <=> j \in new \/ Has(list, j)
           /\ Clicks(Listed(list, received, new), j) <=> (j \in new /\ Done(received[j])) \/ Clicks(list, j)
<1> DEFINE js == SetToSeq(new)
           front == [i \in DOMAIN js |-> Entry(js[i], IF Done(received[js[i]]) THEN 1 ELSE 0)]
<1>1. IsFiniteSet(new)
  BY JobsAssumption, FS_Interval, FS_Subset, 1 \in Int, MaxJobs \in Int DEF JobIds
<1>2. js \in Seq(new) /\ \A x \in new : \E i \in DOMAIN js : js[i] = x
  BY <1>1, SetToSeqElements
<1>3. Listed(list, received, new) = front \o list
  BY DEF Listed
<1> HIDE DEF js
<1>4. Len(js) \in Nat /\ DOMAIN js = 1..Len(js) /\ \A i \in DOMAIN js : js[i] \in new
  BY <1>2
<1>5. /\ DOMAIN front = DOMAIN js
      /\ \A i \in DOMAIN js : front[i] \in Line /\ front[i].job = js[i] /\ (front[i].listeners > 0 <=> Done(received[js[i]]))
  BY <1>4 DEF Entry, Line
<1>6. front \in Seq(Line)
  BY <1>4, <1>5
<1> HIDE DEF front
<1>7. Has(front, j) <=> j \in new
  BY <1>2, <1>4, <1>5 DEF Has
<1>8. Clicks(front, j) <=> j \in new /\ Done(received[j])
  BY <1>2, <1>4, <1>5 DEF Clicks
<1> QED
  BY <1>3, <1>6, <1>7, <1>8, ConcatLines

\* A job that is listed has a first entry.
LEMMA FirstEntry ==
    ASSUME NEW list \in Seq(Line), NEW j, Has(list, j)
    PROVE  FirstOf(list, j) \in DOMAIN list /\ list[FirstOf(list, j)].job = j
<1> DEFINE T == { i \in DOMAIN list : list[i].job = j }
<1>1. T \in SUBSET Nat /\ T # {} /\ DOMAIN list = 1..Len(list) /\ Len(list) \in Nat
  BY DEF Has
<1>2. PICK m \in T : \A n \in T : m <= n
  BY <1>1, LeastNatural
<1>3. m \in DOMAIN list /\ list[m].job = j /\ \A k \in 1..(m - 1) : list[k].job # j
  BY <1>1, <1>2
<1> QED
  BY <1>3 DEF FirstOf

\* That entry gets a listener.
LEMMA ListeningLines ==
    ASSUME NEW list \in Seq(Line), NEW j, Has(list, j), NEW k
    PROVE  /\ Listening(list, j) \in Seq(Line)
           /\ Has(Listening(list, j), k) <=> Has(list, k)
           /\ Clicks(Listening(list, j), k) <=> k = j \/ Clicks(list, k)
<1> DEFINE f == FirstOf(list, j)
           t == Listening(list, j)
<1>1. f \in DOMAIN list /\ list[f].job = j /\ \A i \in DOMAIN list : list[i] \in Line
  BY FirstEntry
<1>2. t = [list EXCEPT ![f].listeners = list[f].listeners + 1]
  BY DEF Listening
<1>3. [list[f] EXCEPT !.listeners = list[f].listeners + 1] \in Line
  BY <1>1 DEF Line
<1> HIDE DEF f, t
<1>4. /\ t \in Seq(Line) /\ DOMAIN t = DOMAIN list
      /\ \A i \in DOMAIN list : i # f => t[i] = list[i]
      /\ t[f] = [list[f] EXCEPT !.listeners = list[f].listeners + 1]
  BY <1>1, <1>2, <1>3
<1>5. t[f].job = j /\ t[f].listeners > 0
  BY <1>1, <1>4 DEF Line
<1>6. Has(t, k) <=> Has(list, k)
  BY <1>1, <1>4, <1>5 DEF Has
<1>7. Clicks(t, k) <=> k = j \/ Clicks(list, k)
  BY <1>1, <1>4, <1>5 DEF Clicks
<1> QED
  BY <1>4, <1>6, <1>7 DEF t

\* A page lists what it knows, and nothing can be clicked that has not run.
Shown(c) == \A j \in JobIds :
    /\ jobIDs[c][j] = "none" <=> ~Has(logList[c], j)
    /\ jobIDs[c][j] = "done" => Clicks(logList[c], j)
    /\ Clicks(logList[c], j) => runs[j] > 0
Shows == ListTypes /\ \A c \in Clients : Shown(c)

\* What a step makes of the list of c, and of what c knows of its jobs.
Unlisted == UNCHANGED <<jobIDs, logList>>
Answered(c, j) ==
    /\ jobIDs' = [jobIDs EXCEPT ![c][j] = "running"]
    /\ logList' = [logList EXCEPT ![c] = <<Entry(j, 0)>> \o @]
Got(c, j) ==
    /\ jobIDs' = [jobIDs EXCEPT ![c][j] = "done"]
    /\ MatchLog(c, j)
Told(c, new) ==
    /\ new \subseteq JobIds /\ \A j \in JobIds : jobIDs[c][j] = "none" /\ reply[c][j] # Absent => j \in new
    /\ Show(c, reply[c], new)

\* Only these change what a page lists.
LEMMA ListSteps ==
    ASSUME JInv, ListTypes, [Next]_vars
    PROVE  \/ Unlisted
           \/ \E c \in Clients : \/ \E j \in JobIds : Answered(c, j) \/ (Got(c, j) /\ runs[j] > 0)
                                 \/ \E new \in SUBSET JobIds : Told(c, new)
<1>1. CASE \E j \in JobIds : j \in DOMAIN posts /\ Executed(j)
  <2>1. PICK j \in JobIds : j \in DOMAIN posts /\ Executed(j)
    BY <1>1
  <2>2. posts[j].client \in Clients
    <3>1. posts \in Seq(PostRecord)
      BY DEF JInv, Types, PostTypes
    <3>2. posts[j] \in PostRecord
      BY <2>1, <3>1
    <3> QED
      BY <3>2 DEF PostRecord
  <2>3. Answered(posts[j].client, j)
    BY <2>1 DEF Executed, Answered
  <2> QED
    BY <2>2, <2>3
<1>2. ASSUME NEW c \in Clients, Receive(c)
      PROVE  \E j \in JobIds : Got(c, j) /\ runs[j] > 0
  <2> DEFINE m == Head(inbox[c])
  <2>1. inbox[c] \in Seq(Message) /\ inbox[c] # <<>>
    BY <1>2 DEF JInv, Types, PageTypes, Receive
  <2>2. m \in Message /\ m = inbox[c][1] /\ 1 \in 1..Len(inbox[c])
    BY <2>1
  <2>3. m.log <= runs[m.job]
    BY <2>2 DEF JInv, Past
  <2>4. m.job \in JobIds /\ m.log > 0 /\ runs[m.job] > 0
    BY <2>2, <2>3 DEF JInv, Types, BalancerTypes, Message
  <2>5. Got(c, m.job)
    BY <1>2, <2>4 DEF Receive, Got, Status, Done
  <2> QED
    BY <2>4, <2>5
<1>3. ASSUME NEW c \in Clients, Recover(c)
      PROVE  \E new \in SUBSET JobIds : Told(c, new)
  <2>1. Told(c, { j \in JobIds : reply[c][j] # Absent /\ jobIDs[c][j] = "none" })
    BY <1>3 DEF Recover, Told
  <2> QED
    BY <2>1
<1>4. ASSUME NEW c \in Clients, InitSession(c)
      PROVE  \E new \in SUBSET JobIds : Told(c, new)
  <2>1. Told(c, { j \in JobIds : reply[c][j] # Absent })
    BY <1>4 DEF InitSession, Told
  <2> QED
    BY <2>1
<1>5. CASE /\ ~\E j \in JobIds : j \in DOMAIN posts /\ Executed(j)
           /\ ~\E c \in Clients : Receive(c) \/ Recover(c) \/ InitSession(c)
  <2>1. Unlisted
    BY <1>5
    DEF Next, vars, server, files, balancer, browser, Elsewhere, Session, Request, Balance, Execute, Register,
        ServeRecovery, Open, ServeSession, Break, Tear, HandleExecute, Refused, Loaded,
        NewJob, Ask, Panic, GetLog, Run, Finish, Result, SendLog, Write, Complete, Save, Crash, Strike, Unlisted
  <2> QED
    BY <2>1
<1> QED
  BY <1>1, <1>2, <1>3, <1>4, <1>5

\* A job that has been run stays that.
LEMMA RunsGrow == ASSUME JInv, [Next]_vars PROVE \A j \in JobIds : runs[j] > 0 => runs'[j] > 0
<1>1. CASE Run
  BY <1>1 DEF Run, JInv, Types, BalancerTypes
<1>2. CASE ~Run
  BY <1>2
  DEF Next, vars, server, files, balancer, browser, Elsewhere, Session, Request, Balance, Execute, Register,
      ServeRecovery, Recover, Open, ServeSession, InitSession, Receive, Break, HandleExecute, Executed, Refused, Loaded,
      NewJob, Ask, Panic, GetLog, Finish, Result, SendLog, Write, Complete, Save, Crash, Strike
<1> QED
  BY <1>1, <1>2

\* No step makes a page list what it does not know, or hide what it knows.
LEMMA NextShows == ASSUME JInv, Shows, [Next]_vars PROVE Shows'
<1> USE DEF Shows
<1>1. \A j \in JobIds : runs[j] > 0 => runs'[j] > 0
  BY RunsGrow
<1>2. /\ jobIDs \in [Clients -> [JobIds -> {"none", "running", "done"}]]
      /\ logList \in [Clients -> Seq(Line)]
      /\ reply \in [Clients -> [JobIds -> Log]]
  BY DEF ListTypes, JInv, Types, PageTypes
<1>3. CASE Unlisted
  BY <1>1, <1>3 DEF Unlisted, ListTypes, Shown
<1>4. ASSUME NEW c \in Clients,
             jobIDs' = [jobIDs EXCEPT ![c] = jobIDs'[c]], logList' = [logList EXCEPT ![c] = logList'[c]],
             jobIDs'[c] \in [JobIds -> {"none", "running", "done"}], logList'[c] \in Seq(Line),
             Shown(c)'
      PROVE  Shows'
  <2>1. ListTypes'
    BY <1>2, <1>4 DEF ListTypes
  <2>2. \A d \in Clients : d # c => Shown(d)'
    BY <1>1, <1>2, <1>4 DEF Shown
  <2> QED
    BY <1>4, <2>1, <2>2
<1>5. ASSUME NEW c \in Clients, NEW j \in JobIds, Answered(c, j)
      PROVE  Shows'
  <2> DEFINE one == <<Entry(j, 0)>>
  <2>1. one \in Seq(Line) /\ \A k \in JobIds : (Has(one, k) <=> k = j) /\ ~Clicks(one, k)
    BY DEF Entry, Line, Has, Clicks
  <2>2. logList'[c] = one \o logList[c] /\ logList' = [logList EXCEPT ![c] = logList'[c]]
    BY <1>2, <1>5 DEF Answered
  <2> HIDE DEF one
  <2>3. /\ jobIDs'[c] \in [JobIds -> {"none", "running", "done"}] /\ jobIDs' = [jobIDs EXCEPT ![c] = jobIDs'[c]]
        /\ \A k \in JobIds : jobIDs'[c][k] = IF k = j THEN "running" ELSE jobIDs[c][k]
    BY <1>2, <1>5 DEF Answered
  <2>4. /\ logList'[c] \in Seq(Line)
        /\ \A k \in JobIds : /\ Has(logList'[c], k) <=> k = j \/ Has(logList[c], k)
                             /\ Clicks(logList'[c], k) <=> Clicks(logList[c], k)
    BY <1>2, <2>1, <2>2, ConcatLines
  <2>5. Shown(c)'
    BY <1>1, <2>3, <2>4 DEF Shown
  <2> QED
    BY <1>4, <2>2, <2>3, <2>4, <2>5
<1>6. ASSUME NEW c \in Clients, NEW j \in JobIds, Got(c, j), runs[j] > 0
      PROVE  Shows'
  <2> DEFINE one == <<Entry(j, 1)>>
  <2>1. one \in Seq(Line) /\ \A k \in JobIds : (Has(one, k) <=> k = j) /\ (Clicks(one, k) <=> k = j)
    BY DEF Entry, Line, Has, Clicks
  <2>2. /\ logList'[c] = IF jobIDs[c][j] # "none" THEN Listening(logList[c], j) ELSE one \o logList[c]
        /\ logList' = [logList EXCEPT ![c] = logList'[c]]
    BY <1>2, <1>6 DEF Got, MatchLog
  <2> HIDE DEF one
  <2>3. /\ jobIDs'[c] \in [JobIds -> {"none", "running", "done"}] /\ jobIDs' = [jobIDs EXCEPT ![c] = jobIDs'[c]]
        /\ \A k \in JobIds : jobIDs'[c][k] = IF k = j THEN "done" ELSE jobIDs[c][k]
    BY <1>2, <1>6 DEF Got
  <2>4. /\ logList'[c] \in Seq(Line)
        /\ \A k \in JobIds : /\ Has(logList'[c], k) <=> k = j \/ Has(logList[c], k)
                             /\ Clicks(logList'[c], k) <=> k = j \/ Clicks(logList[c], k)
    <3>1. CASE jobIDs[c][j] = "none"
      BY <1>2, <2>1, <2>2, <3>1, ConcatLines
    <3>2. CASE jobIDs[c][j] # "none"
      <4>1. Has(logList[c], j)
        BY <3>2 DEF Shown
      <4> QED
        BY <1>2, <2>2, <3>2, <4>1, ListeningLines
    <3> QED
      BY <3>1, <3>2
  <2>5. Shown(c)'
    BY <1>1, <1>6, <2>3, <2>4 DEF Shown
  <2> QED
    BY <1>4, <2>2, <2>3, <2>4, <2>5
<1>7. ASSUME NEW c \in Clients, NEW new \in SUBSET JobIds, Told(c, new)
      PROVE  Shows'
  <2>1. logList'[c] = Listed(logList[c], reply[c], new) /\ logList' = [logList EXCEPT ![c] = logList'[c]]
    BY <1>2, <1>7 DEF Told, Show
  <2>2. /\ jobIDs'[c] \in [JobIds -> {"none", "running", "done"}] /\ jobIDs' = [jobIDs EXCEPT ![c] = jobIDs'[c]]
        /\ \A k \in JobIds : jobIDs'[c][k] = IF k \in new THEN Status(reply[c][k]) ELSE jobIDs[c][k]
    <3> DEFINE known == [k \in JobIds |-> IF k \in new THEN Status(reply[c][k]) ELSE jobIDs[c][k]]
    <3>1. jobIDs' = [jobIDs EXCEPT ![c] = known]
      BY <1>7 DEF Told, Show
    <3>2. \A k \in JobIds : Status(reply[c][k]) \in {"none", "running", "done"}
      BY DEF Status
    <3>3. /\ known \in [JobIds -> {"none", "running", "done"}]
          /\ \A k \in JobIds : known[k] = IF k \in new THEN Status(reply[c][k]) ELSE jobIDs[c][k]
      BY <1>2, <3>2
    <3> HIDE DEF known
    <3>4. jobIDs'[c] = known
      BY <1>2, <3>1
    <3> QED
      BY <3>1, <3>3, <3>4
  <2>3. /\ logList'[c] \in Seq(Line)
        /\ \A k \in JobIds : /\ Has(logList'[c], k) <=> k \in new \/ Has(logList[c], k)
                             /\ Clicks(logList'[c], k) <=> (k \in new /\ Done(reply[c][k])) \/ Clicks(logList[c], k)
    <3>1. logList[c] \in Seq(Line) /\ reply[c] \in [JobIds -> Log]
      BY <1>2
    <3> QED
      BY <2>1, <3>1, ListedLines
  <2>4. \A k \in JobIds : Done(reply[c][k]) => runs[k] > 0
    <3> SUFFICES ASSUME NEW k \in JobIds, Done(reply[c][k]) PROVE runs[k] > 0
      OBVIOUS
    <3>1. reply[c][k] <= runs[k] /\ reply[c][k] \in Log /\ runs[k] \in Nat
      BY <1>2 DEF JInv, Past, Types, BalancerTypes
    <3> QED
      BY <3>1 DEF Done, Log, Absent
  <2>5. Shown(c)'
    <3> SUFFICES ASSUME NEW k \in JobIds
                 PROVE  /\ jobIDs'[c][k] = "none" <=> ~Has(logList'[c], k)
                        /\ jobIDs'[c][k] = "done" => Clicks(logList'[c], k)
                        /\ Clicks(logList'[c], k) => runs'[k] > 0
      BY DEF Shown
    <3>1. /\ jobIDs[c][k] = "none" <=> ~Has(logList[c], k)
          /\ jobIDs[c][k] = "done" => Clicks(logList[c], k)
          /\ Clicks(logList[c], k) => runs[k] > 0
      BY DEF Shown
    <3>2. CASE k \in new
      <4>1. jobIDs'[c][k] = IF Done(reply[c][k]) THEN "done" ELSE "running"
        BY <2>2, <3>2 DEF Status
      <4> QED
        BY <1>1, <2>3, <2>4, <3>1, <3>2, <4>1
    <3>3. CASE k \notin new
      BY <1>1, <2>2, <2>3, <3>1, <3>3
    <3> QED
      BY <3>2, <3>3
  <2> QED
    BY <1>4, <2>1, <2>2, <2>3, <2>5
<1> QED
  BY <1>3, <1>5, <1>6, <1>7, ListSteps

\* In whatever order the answer to a request, the log over the websocket and
\* the logs of /session and /recover reach a page, and however often: it lists
\* the jobs it knows (initSession, recover, matchLog), what it takes to be done
\* can be clicked, and nothing can that was never run.
THEOREM SpecClickShows == Spec => []ClickShows
<1>1. Init => Shows
  BY DEF Init, Shows, ListTypes, Shown, Has, Clicks
<1>2. JInv /\ Shows /\ [Next]_vars => Shows'
  BY NextShows
<1>3. Shows => ClickShows
  BY DEF Shows, Shown, Has, Clicks, ClickShows, Clickable, Entries
<1> QED
  BY <1>1, <1>2, <1>3, SpecJInv, PTL DEF Spec
=============================================================================
