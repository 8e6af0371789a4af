-------------------------------- MODULE Jobs --------------------------------
(***************************************************************************)
(* Running the program of a session: a browser posts it to its worker,     *)
(* which saves a log of the job and has the load balancer find a worker    *)
(* that runs it; the finished log goes to all workers and from them to all *)
(* browsers, which list the jobs, and let those be clicked whose log they  *)
(* have.  Workers end, connections break and log files are not saved.      *)
(*                                                                         *)
(* A job is the number of the request that began it.  The log of a job is  *)
(* 0 until it is done and then the number of the run it is the result of.  *)
(* The file system is one node here, to which logs are saved as they are   *)
(* to each of several: by goroutines, in any order.                        *)
(***************************************************************************)
EXTENDS Integers, SequencesExt

CONSTANTS
    Workers, Clients,
    NONE,       \* no worker or client
    Executers,  \* the clients who run something
    Inside,     \* who has the session open from the start, all at the worker
    First,      \*   which has it then
    MaxJobs,    \* bounds: requests, and what may go on in a behaviour, as
    Budgets     \*   numbers of: click, open, crash, break, unsaved

ASSUME JobsAssumption ==
    /\ Executers \subseteq Clients /\ Inside \subseteq Clients /\ First \in Workers
    /\ NONE \notin Workers \cup Clients
    /\ IsFiniteSet(Workers)
    /\ MaxJobs \in Nat
    /\ Budgets \subseteq [{"click", "open", "crash", "break", "unsaved"} -> Nat]

VARIABLES
    up,        \* the workers that run
    listed,    \* those the load balancer knows
    loaded,    \* the workers that have the session,
    logs,      \*   and the logs they know (w.logs)
    conns,     \* the clients connected to each (w.clients)
    saved,     \* the logs in the file system,
    saving,    \*   and those on the way there, as <<job, log>>
    posts,     \* the requests that a browser made: [client, at, stage]
    calls,     \* the jobs the load balancer is to be called for
    job,       \* the one it has found a worker for, is looking for one, ...
    reg,       \* the client it is registering, at which worker
    overtaken, \* jobs of which a worker loaded the log while the result was on
               \*   its way to the file system
    runs,      \* how often each job has been run
    page,      \* the browsers: where each is in opening or recovering the session,
    at,        \*   workerIP,
    reply,     \*   the logs that a worker answered /session or /recover with,
    inbox,     \*   the logs in its socket,
    jobIDs,    \*   which jobs it knows, and whether they are done,
    logList,   \*   what it lists of them, the latest first,
    recoverLog,\*   whether a request to run something has not been answered
    torn,      \* the clients whose connection has broken at some time
    budget     \* what may still happen

server == <<up, listed, loaded, logs, conns>>
files == <<saved, saving>>
balancer == <<calls, job, reg, overtaken, runs>>
browser == <<page, at, reply, inbox, jobIDs, logList, recoverLog, torn>>
vars == <<server, files, balancer, browser, posts, budget>>

JobIds == 1..MaxJobs
Absent == -1
Done(log) == log > 0
NoLogs == [j \in JobIds |-> Absent]
NoJob == [stage |-> "none", id |-> 0, at |-> NONE, todo |-> {}, log |-> Absent]
NoReg == [client |-> NONE, at |-> NONE, logs |-> NoLogs]

Init ==
    /\ up = Workers /\ listed = Workers /\ loaded = {First}
    /\ logs = [w \in Workers |-> NoLogs]
    /\ conns = [w \in Workers |-> IF w = First THEN Inside ELSE {}]
    /\ saved = NoLogs /\ saving = {}
    /\ posts = <<>> /\ calls = {} /\ job = NoJob /\ reg = NoReg
    /\ runs = [j \in JobIds |-> 0] /\ overtaken = {}
    /\ page = [c \in Clients |-> IF c \in Inside THEN "open" ELSE "out"]
    /\ at = [c \in Clients |-> IF c \in Inside THEN First ELSE NONE]
    /\ reply = [c \in Clients |-> NoLogs]
    /\ inbox = [c \in Clients |-> <<>>]
    /\ jobIDs = [c \in Clients |-> [j \in JobIds |-> "none"]]
    /\ logList = [c \in Clients |-> <<>>]
    /\ recoverLog = [c \in Clients |-> FALSE]
    /\ torn = {} /\ budget \in Budgets

Spend(kind) == budget[kind] > 0 /\ budget' = [budget EXCEPT ![kind] = @ - 1]

-----------------------------------------------------------------------------
(***************************************************************************)
(* What a browser lists.  An entry has the number of listeners that show   *)
(* the log when it is clicked.                                             *)
(***************************************************************************)
Entry(j, listeners) == [job |-> j, listeners |-> listeners]

\* getElementById: the first entry of a job.
FirstOf(list, j) == CHOOSE i \in DOMAIN list : list[i].job = j /\ \A k \in 1..(i - 1) : list[k].job # j
Listening(list, j) == [list EXCEPT ![FirstOf(list, j)].listeners = @ + 1]

\* The logs of a reply are put into the list for the jobs in new.
Listed(list, received, new) ==
    LET js == SetToSeq(new) IN
    [i \in DOMAIN js |-> Entry(js[i], IF Done(received[js[i]]) THEN 1 ELSE 0)] \o list

Status(log) == IF Done(log) THEN "done" ELSE "running"

Show(c, received, new) ==
    /\ jobIDs' = [jobIDs EXCEPT ![c] = [j \in JobIds |-> IF j \in new THEN Status(received[j]) ELSE @[j]]]
    /\ logList' = [logList EXCEPT ![c] = Listed(@, received, new)]

\* A request of c to run the program.
Post(c) ==
    /\ Len(posts) < MaxJobs
    /\ posts' = Append(posts, [client |-> c, at |-> at[c], stage |-> "sent"])

\* execute.  While one request is not answered the user makes no other.
Execute(c) ==
    /\ page[c] # "out" /\ ~recoverLog[c]
    /\ Spend("click")
    /\ recoverLog' = [recoverLog EXCEPT ![c] = TRUE]
    /\ Post(c)
    /\ UNCHANGED <<server, files, balancer, page, at, reply, inbox, jobIDs, logList, torn>>

\* Its answer.
Executed(j) ==
    LET c == posts[j].client IN
    /\ posts[j].stage = "answered"
    /\ posts' = [posts EXCEPT ![j].stage = "over"]
    /\ jobIDs' = [jobIDs EXCEPT ![c][j] = "running"]
    /\ logList' = [logList EXCEPT ![c] = <<Entry(j, 0)>> \o @]
    /\ recoverLog' = [recoverLog EXCEPT ![c] = FALSE]
    /\ UNCHANGED <<server, files, balancer, page, at, reply, inbox, torn, budget>>

\* Faulty MatchLog: a job that is listed already is left as it is.
MatchLogNew(c, j) ==
    IF jobIDs[c][j] # "none" THEN UNCHANGED logList
    ELSE logList' = [logList EXCEPT ![c] = <<Entry(j, 1)>> \o @]

MatchLog(c, j) ==
    logList' = [logList EXCEPT ![c] = IF jobIDs[c][j] # "none" THEN Listening(@, j) ELSE <<Entry(j, 1)>> \o @]

\* onMessage, of a log.
Receive(c) ==
    /\ inbox[c] # <<>>
    /\ LET j == Head(inbox[c]).job IN
       /\ MatchLog(c, j)
       /\ jobIDs' = [jobIDs EXCEPT ![c][j] = Status(Head(inbox[c]).log)]
    /\ inbox' = [inbox EXCEPT ![c] = Tail(@)]
    /\ UNCHANGED <<server, files, balancer, page, at, reply, recoverLog, torn, posts, budget>>

-----------------------------------------------------------------------------
(***************************************************************************)
(* Opening the session, and recovering it.  The load balancer keeps its    *)
(* lock while the worker it registers a client at loads the session.       *)
(***************************************************************************)
\* Faulty MayRegister: not while another client is, but while a job runs.
MayRegisterAnytime == reg = NoReg

MayRegister == reg = NoReg /\ job.stage = "none"

\* register or recover; RegisterNewClient.
Register(c) ==
    /\ MayRegister
    /\ \/ page[c] = "out" /\ Spend("open")
       \/ page[c] = "lost" /\ UNCHANGED budget
    /\ \E w \in listed \cap up :
        \* getSessionAndLogs, from a neighbour or else from the file system
        \E source \in IF w \in loaded THEN {logs[w]}
                      ELSE IF loaded \cap up # {} THEN { logs[v] : v \in loaded \cap up }
                      ELSE {saved} :
            /\ reg' = [client |-> c, at |-> w, logs |-> source]
            /\ overtaken' = IF source # saved THEN overtaken
                            ELSE overtaken \cup { j \in JobIds : \E s \in saving : s[1] = j /\ Done(s[2]) }
    /\ UNCHANGED <<server, files, calls, job, runs, browser, posts>>

Loaded ==
    /\ reg # NoReg /\ reg.at \in up
    /\ LET c == reg.client IN
       /\ logs' = [logs EXCEPT ![reg.at] = [j \in JobIds |-> IF reg.at \in loaded \/ reg.logs[j] = Absent THEN @[j] ELSE reg.logs[j]]]
       /\ loaded' = loaded \cup {reg.at}
       /\ at' = [at EXCEPT ![c] = reg.at]
       /\ page' = [page EXCEPT ![c] = IF @ = "out" THEN "opening" ELSE "asking"]
    /\ reg' = NoReg
    /\ UNCHANGED <<up, listed, conns, files, calls, job, overtaken, runs, reply, inbox, jobIDs, logList, recoverLog, torn, posts, budget>>

\* recoveryHandler
ServeRecovery(c) ==
    /\ page[c] = "asking" /\ at[c] \in up
    /\ reply' = [reply EXCEPT ![c] = logs[at[c]]]
    /\ page' = [page EXCEPT ![c] = "recovering"]
    /\ UNCHANGED <<server, files, balancer, at, inbox, jobIDs, logList, recoverLog, torn, posts, budget>>

\* Faulty Resent: it is not.
ResentNot(c) == UNCHANGED posts
\* A request that was not answered is sent again.
Resent(c) == IF recoverLog[c] THEN Post(c) ELSE UNCHANGED posts

\* The logs of jobs it does not know are listed.
Recover(c) ==
    /\ page[c] = "recovering"
    /\ Show(c, reply[c], { j \in JobIds : reply[c][j] # Absent /\ jobIDs[c][j] = "none" })
    /\ Resent(c)
    /\ page' = [page EXCEPT ![c] = "reopening"]
    /\ reply' = [reply EXCEPT ![c] = NoLogs]
    /\ UNCHANGED <<server, files, balancer, at, inbox, recoverLog, torn, budget>>

\* The websocket opens (wsHandler, onOpen), and the session is asked for
\* unless it is there.
Open(c) ==
    /\ page[c] \in {"opening", "reopening"} /\ at[c] \in up
    /\ conns' = [conns EXCEPT ![at[c]] = @ \cup {c}]
    /\ page' = [page EXCEPT ![c] = IF @ = "opening" THEN "loading" ELSE "open"]
    /\ UNCHANGED <<up, listed, loaded, logs, files, balancer, at, reply, inbox, jobIDs, logList, recoverLog, torn, posts, budget>>

\* sessionHandler
ServeSession(c) ==
    /\ page[c] = "loading" /\ at[c] \in up
    /\ reply' = [reply EXCEPT ![c] = logs[at[c]]]
    /\ page' = [page EXCEPT ![c] = "answered"]
    /\ UNCHANGED <<server, files, balancer, at, inbox, jobIDs, logList, recoverLog, torn, posts, budget>>

\* initSession: all logs are listed.
InitSession(c) ==
    /\ page[c] = "answered"
    /\ Show(c, reply[c], { j \in JobIds : reply[c][j] # Absent })
    /\ page' = [page EXCEPT ![c] = "open"]
    /\ reply' = [reply EXCEPT ![c] = NoLogs]
    /\ UNCHANGED <<server, files, balancer, at, inbox, recoverLog, torn, posts, budget>>

\* What becomes of the pages in cs when their worker is gone or their
\* connection breaks: each recovers from the beginning.  (The log in a reply
\* or socket is lost; that a reply comes later is left to Recovery.)
Tear(cs) ==
    /\ torn' = torn \cup cs
    /\ page' = [c \in Clients |-> IF c \in cs THEN "lost" ELSE page[c]]
    /\ reply' = [c \in Clients |-> IF c \in cs THEN NoLogs ELSE reply[c]]
    /\ inbox' = [c \in Clients |-> IF c \in cs THEN <<>> ELSE inbox[c]]
    /\ UNCHANGED <<at, jobIDs, logList, recoverLog>>

Break(c) ==
    /\ page[c] = "open" /\ Spend("break")
    /\ Tear({c})
    /\ conns' = [conns EXCEPT ![at[c]] = @ \ {c}]
    /\ UNCHANGED <<up, listed, loaded, logs, files, balancer, posts>>

-----------------------------------------------------------------------------
(* The worker that is asked to run something, and the file system.         *)

\* executeHandler, up to its call of the load balancer.
HandleExecute(j) ==
    /\ posts[j].stage = "sent" /\ posts[j].at \in up
    /\ posts' = [posts EXCEPT ![j].stage = "answered"]
    /\ saving' = saving \cup {<<j, 0>>}
    /\ calls' = calls \cup {j}
    /\ UNCHANGED <<server, saved, job, reg, overtaken, runs, browser, budget>>

\* saveLogToNode.  A log that a node cannot save is not looked for there.
Save ==
    \E s \in saving :
        /\ saving' = saving \ {s}
        /\ \/ saved' = [saved EXCEPT ![s[1]] = s[2]] /\ UNCHANGED budget
           \/ saved' = [saved EXCEPT ![s[1]] = Absent] /\ Spend("unsaved")
        /\ UNCHANGED <<server, balancer, browser, posts>>

-----------------------------------------------------------------------------
(***************************************************************************)
(* NewJob: under its lock the load balancer asks one worker after the      *)
(* other to run the job, until one has, and sends the log to each of them. *)
(***************************************************************************)
NewJob(j) ==
    /\ j \in calls /\ calls' = calls \ {j}
    /\ reg = NoReg /\ job.stage = "none"
    /\ job' = IF listed = {} THEN job ELSE [NoJob EXCEPT !.stage = "asking", !.id = j, !.todo = listed]
    /\ UNCHANGED <<server, files, reg, overtaken, runs, browser, posts, budget>>

LB(stage) == job.stage = stage /\ UNCHANGED <<calls, reg, overtaken>>
Elsewhere == UNCHANGED <<browser, posts, budget>>

\* Faulty Todo: only one worker is asked; a worker that has ended is asked
\* over and over.
TodoNone(w) == {}
TodoKept(w) == job.todo
Todo(w) == job.todo \ {w}

Ask ==
    /\ LB("asking")
    /\ \E w \in job.todo :
        job' = [job EXCEPT !.todo = Todo(w), !.stage = IF w \in up THEN "fetching" ELSE @, !.at = IF w \in up THEN w ELSE NONE]
    /\ UNCHANGED <<server, files, runs>> /\ Elsewhere

\* There is no result, and its first element is taken.
Panic ==
    /\ LB("asking") /\ job.todo = {}
    /\ job' = [job EXCEPT !.stage = "down"]
    /\ UNCHANGED <<server, files, runs>> /\ Elsewhere

\* RunJob: the log is fetched until there is one, run unless it is done,
\* and saved.
GetLog ==
    /\ LB("fetching") /\ saved[job.id] # Absent
    /\ job' = [job EXCEPT !.log = saved[job.id], !.stage = IF Done(saved[job.id]) THEN "replying" ELSE "running"]
    /\ UNCHANGED <<server, files, runs>> /\ Elsewhere

Run ==
    /\ LB("running")
    /\ runs' = [runs EXCEPT ![job.id] = @ + 1]
    /\ job' = [job EXCEPT !.log = runs[job.id] + 1, !.stage = "saving"]
    /\ UNCHANGED <<server, files>> /\ Elsewhere

SaveLog(j, log) == saving' = saving \cup {<<j, log>>}

Finish ==
    /\ LB("saving")
    /\ SaveLog(job.id, job.log)
    /\ job' = [job EXCEPT !.stage = "replying"]
    /\ UNCHANGED <<server, saved, runs>> /\ Elsewhere

Finished(todo) == [job EXCEPT !.stage = "sending", !.at = NONE, !.todo = todo]

Ran == Finished(listed)

\* The load balancer has the result.
Result ==
    /\ LB("replying")
    /\ job' = Ran
    /\ UNCHANGED <<server, files, runs>> /\ Elsewhere

\* SendLog: the worker keeps the log, and writes it to all its clients.
SendLog ==
    /\ LB("sending")
    /\ \E w \in job.todo :
        /\ job' = IF w \in up THEN [job EXCEPT !.todo = @ \ {w}, !.stage = "writing", !.at = w] ELSE [job EXCEPT !.todo = @ \ {w}]
        /\ logs' = IF w \in up THEN [logs EXCEPT ![w][job.id] = job.log] ELSE logs
    /\ UNCHANGED <<up, listed, loaded, conns, files, runs>> /\ Elsewhere

\* Faulty Receivers: a log is not written to who posted the job.
ReceiversOther == conns[job.at] \ {posts[job.id].client}
Receivers == conns[job.at]

Write ==
    /\ LB("writing")
    /\ inbox' = [c \in Clients |-> IF c \in Receivers THEN Append(inbox[c], [job |-> job.id, log |-> job.log]) ELSE inbox[c]]
    /\ job' = Finished(job.todo)
    /\ UNCHANGED <<server, files, runs, page, at, reply, jobIDs, logList, recoverLog, torn, posts, budget>>

Complete ==
    /\ LB("sending") /\ job.todo = {}
    /\ job' = NoJob
    /\ UNCHANGED <<server, files, runs>> /\ Elsewhere

Balance == Ask \/ GetLog \/ Run \/ Finish \/ Result \/ SendLog \/ Write \/ Complete \/ Panic

-----------------------------------------------------------------------------
(* Failures. *)

\* A worker ends: what it has not called the load balancer for, or answered,
\* may be lost; the load balancer tries the next worker.
Crash(w) ==
    /\ w \in up /\ Spend("crash")
    /\ up' = up \ {w} /\ loaded' = loaded \ {w}
    /\ conns' = [conns EXCEPT ![w] = {}]
    /\ Tear({ c \in Clients : at[c] = w /\ page[c] \notin {"out", "lost"} })
    /\ \E lost \in SUBSET { j \in calls : posts[j].at = w } : calls' = calls \ lost
    /\ \E mute \in SUBSET { j \in DOMAIN posts : posts[j].at = w /\ posts[j].stage = "answered" } :
        posts' = [j \in DOMAIN posts |->
                     IF j \in mute \/ (posts[j].at = w /\ posts[j].stage = "sent") THEN [posts[j] EXCEPT !.stage = "over"]
                     ELSE posts[j]]
    /\ job' = IF job.at # w THEN job
              ELSE IF job.stage = "writing" THEN Finished(job.todo)
              ELSE [job EXCEPT !.stage = "asking", !.at = NONE]
    /\ reg' = IF reg.at = w THEN NoReg ELSE reg
    /\ UNCHANGED <<listed, logs, files, overtaken, runs>>

\* monitor
Strike(w) ==
    /\ w \in listed \ up /\ MayRegister
    /\ listed' = listed \ {w}
    /\ UNCHANGED <<up, loaded, logs, conns, files, balancer, browser, posts, budget>>

\* A request to a worker that has ended.
Refused(j) ==
    /\ posts[j].stage = "sent" /\ posts[j].at \notin up
    /\ posts' = [posts EXCEPT ![j].stage = "over"]
    /\ UNCHANGED <<server, files, balancer, browser, budget>>

Session(c) ==
    Register(c) \/ ServeRecovery(c) \/ Recover(c) \/ Open(c) \/ ServeSession(c) \/ InitSession(c) \/ Receive(c)
Request(j) == j \in DOMAIN posts /\ (HandleExecute(j) \/ Executed(j) \/ Refused(j))

Next ==
    \/ \E c \in Executers : Execute(c)
    \/ \E c \in Clients : Session(c) \/ Break(c)
    \/ \E j \in JobIds : Request(j) \/ NewJob(j)
    \/ Loaded \/ Balance \/ Save
    \/ \E w \in Workers : Crash(w) \/ Strike(w)

Spec == Init /\ [][Next]_vars

\* Requests are answered, goroutines run, and a page tries again to connect.
\* A waiter for the load balancer's lock is not overtaken for ever.
Fairness ==
    /\ \A c \in Clients : SF_vars(page[c] # "out" /\ Register(c)) /\ WF_vars(page[c] # "out" /\ Session(c))
    /\ \A j \in JobIds : WF_vars(Request(j)) /\ SF_vars(NewJob(j))
    /\ WF_vars(Loaded) /\ WF_vars(Balance) /\ WF_vars(Save)
FairSpec == Spec /\ Fairness

-----------------------------------------------------------------------------
(***************************************************************************)
(* Properties.                                                             *)
(***************************************************************************)
Entries(c, j) == { i \in DOMAIN logList[c] : logList[c][i].job = j }
Clickable(c, j) == \E i \in Entries(c, j) : logList[c][i].listeners > 0

TypeOK ==
    /\ loaded \subseteq up /\ listed \subseteq Workers /\ calls \subseteq DOMAIN posts
    /\ \A w \in Workers : conns[w] \subseteq { c \in Clients : at[c] = w /\ page[c] \in {"loading", "answered", "open"} }
    /\ \A s \in saving : s[1] \in DOMAIN posts /\ s[2] <= runs[s[1]]
    /\ job.stage \in {"none", "asking", "fetching", "running", "saving", "replying", "sending", "writing", "down"}
    /\ job.at \in up \cup {NONE} /\ reg.at \in up \cup {NONE}
    /\ reg = NoReg \/ job.stage = "none"
    /\ \A c \in Clients : inbox[c] # <<>> => page[c] \in {"loading", "answered", "open"}

\* Whatever order the answer to execute, the log over the websocket and the
\* lists of /session and /recover come in (execute, matchLog, initSession,
\* recover), a browser lists exactly the jobs it knows, one it takes to be
\* done can be clicked, and what can be clicked has been run.
ClickShows ==
    \A c \in Clients, j \in JobIds :
        /\ jobIDs[c][j] = "none" <=> Entries(c, j) = {}
        /\ jobIDs[c][j] = "done" => Clickable(c, j)
        /\ Clickable(c, j) => runs[j] > 0

\* The load balancer, which takes the result whether there is one or not,
\* only goes down over a job when all workers it knows have ended.
OneIsEnough == job.stage = "down" => listed \cap up = {}

\* A program is run again only for each worker that ended over it, however
\* slowly its results are saved.
RunsBounded == \A j \in JobIds : runs[j] <= 1 + Cardinality(Workers \ up)

\* Once a result is out, the file system does not keep the job as unfinished,
\* to be listed as that by who opens the session later.
NotLeftUnfinished ==
    \A j \in JobIds :
        (\E w \in Workers : Done(logs[w][j])) /\ (\A s \in saving : s[1] # j) => saved[j] # 0

\* Types, and what NewJob, RunJob and the file system make of a job whatever
\* workers end over it.
JobsInv == TypeOK /\ OneIsEnough /\ RunsBounded /\ NotLeftUnfinished

\* A worker that loads the session (getSessionAndLogs) does not overwrite a
\* result with an older log of the job: the load balancer does not register
\* clients while a job is run.  (It may when the result is still on its way to
\* the file system and no other worker has the session.)
DoneStays ==
    [][\A w \in Workers, j \in JobIds : Done(logs[w][j]) /\ ~Done(logs'[w][j]) => j \in overtaken]_vars

\* The load balancer is stuck, with its lock, over a job whose log was never
\* saved.
Stuck == job.stage = "down" \/ (job.stage = "fetching" /\ saved[job.id] = Absent)

\* Every job comes to an end and every registration: the load balancer gives
\* back its lock, although workers end at any step of it, or is stuck.
LockReleased == []<>(MayRegister \/ Stuck)

\* Everybody can click a finished job in the end: who had the session open,
\* who posted it, and who opens the session while the log is being sent.
\* Only who lost a connection may have missed the log.
EventuallyClickable ==
    []<>(\A c \in Clients, j \in JobIds :
            page[c] = "open" /\ (\E w \in Workers : Done(logs[w][j]))
                => Clickable(c, j) \/ c \in torn \/ j \in overtaken)

\* Whoever runs something gets an answer, from the next worker if the first
\* one ends, before or after it has handled the request.
ExecuteAnswered ==
    []<>(\A c \in Executers : recoverLog[c] => Stuck \/ listed \cap up = {})
=============================================================================
