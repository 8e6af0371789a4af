# Golab: models, model checking and proofs

Golab is a collaborative Go editor. Browsers edit a *session* (a text) together, a mesh of workers keeps replicas of it,
a load balancer assigns browsers to workers and has them run the program a session holds, a replicated file system keeps sessions and logs. The editor in the
browser is CodeMirror, of which the repository carries a copy; the handlers of Golab rely on its events, history and line objects. This directory
holds TLA+ models of its core logic, the TLC configurations that check them, and proofs checked by TLAPS.

## 1. The system

| part | source | state | operations |
|---|---|---|---|
| Session list | `lib/session/session.go` | `CRDT` (map id -> element with `PrevID`, `NextID`, `Deleted`), `Head`, `Next`, a mutex | `Add` (`getPrev`, `insert`), `Delete` |
| Browser list and editor | `app/public/js/crdt/{crdt,operation,mapping}.js` | the browser's copy of the list, the mapping of visible characters to ids (rows and columns), the editor's text, a queue of changes and a promise that works it off, a cache of unacknowledged elements | local and remote input and delete, paste, indentation, undo and redo, cleaning of carriage returns |
| Browser socket and recovery | `js/socket/socket.js`, `js/app.js` | the websocket, the reconnection state, timers | send, receive, register, `initSession`, `recover` |
| Editor widget | `js/codemirror/codemirror.js`, `addon/edit/matchbrackets.js`, `mode/go/go.js` | the tree of lines with their marks, styles and parser states; selections; the undo history; the view and its nodes; one operation at a time | change, select, undo, redo, mark, scroll, draw, highlight |
| Worker, client side | `worker/worker.go` `onElement`, `addToSession`, `sendToClients` | sessions, `clientSessions`, one goroutine per websocket | apply and broadcast an element |
| Worker, mesh | `worker.go` `sendLocalElements`, `ApplyIncomingElements`, `cleanAcks`, `getWorkers` | `localElements`, `elementsToAck`, connections to peers | flood, acknowledge, reconnect |
| Worker, sessions | `worker.go` `getSessionAndLogs`, `LoadSession`, `recoveryHandler`, `lib/cache/cache.go` | pending marks, the element cache | fetch a session from a peer or the file system |
| Load balancer | `worker/server.go` | workers with heartbeats and strikes, known sessions, one global lock | register, monitor, pick a worker, `NewJob` |
| Jobs | `worker.go` `executeHandler`, `RunJob`, `SendLog`, `worker/server.go` `NewJob`, `app.js` `execute`, `matchLog` | logs per job id in workers, files and browsers; the list of jobs in each browser | run a snapshot, save and distribute the log, list and open it |
| File system | `fs/server.go`, `fs/fsnode.go` | nodes with heartbeats and connections; per session and log, the nodes that have it; the files | register, heartbeat, save, get |
| Application server | `app/server.go` | names of users and sessions | register a name, forward |

A character typed in a browser is applied there, sent over a websocket to the browser's worker, applied to that worker's
list, written to the other websockets of the worker, and every two seconds flooded to the other workers. Every few
seconds the worker sends modified sessions to the file system server, which sends them on to all its nodes.
What connects the parts is messages (websocket, HTTP, Go RPC), and, inside a worker, goroutines that share memory.

What is hard here:

* three placement rules (typing, remote input in JavaScript, `getPrev` in Go) must give one order for every interleaving;
* the worker has a goroutine per websocket, and only the calls on a list are under its mutex: what comes before and after
  `Add`, and the encoders that copy a session, are not;
* the file system server starts goroutines per node and forgets about them, while nodes come, go, and are slow;
* flooding, acknowledgement and caching in the mesh depend on orders nobody enforces;
* the load balancer makes remote calls while it holds its only lock, and keeps it while a program is run;
* an edit goes through three data structures (the editor's lines, the rows of the mapping, the list), of which two are changed at once or in microtasks;
* after a failure, requests, timers, websockets and their late events of several attempts to recover are under way at once;
* the editor draws, highlights, marks and undoes from caches (a view, saved parser states, spans, history) that every change has to bring up to date.

What makes each part correct: the session list is at any time one sequence without loops and losses, in which an element
is behind the one it was typed behind; the browsers and the worker converge, and an editor shows its own list; the file
system never lists a node whose file is out of date, and a read never goes back behind what was saved; an element that
was acknowledged is on another worker (mesh); an element stays in the cache until it expires, and what is cached is in the session (worker sessions);
a client is only sent to a worker that has its session, and the lock is always released (load balancer); editor, mapping and list are the same text after every
command, and the others get it; what was typed is not forgotten when connections break (browser); a program is run once unless a worker ends, and everybody can open the result (jobs); the
tree, marks, history and view of the editor are those of its text (widget).

`PROJECT.json` lists the hazards at their lines with the properties that guard against each of them.

## 2. The modules

```
Elements ── SequenceCRDT ─────────────(abstract)──┬── Collab ── MCCollab
   └── Session ── SessionHistory ── MCSession     │      ├─ ClientList
                       └── SessionProofs          │      └── CollabProofs
ClientList ─┬── Recovery ── MCRecovery
            │      └── RecoveryProofs
Lists ──────┴── Mapping ─┬── Editor ── MCEditor
   └── Text ─────────────┘
Text ─┬── LineTree ── Marks ── Document ── MCDocument
      │                           └─ UndoStack (abstract)
      └── View ── MCView
GoMode ──┘
Jobs ── MCJobs
   └── JobsProofs
FileSystem ── MCFileSystem
   └── FileSystemProofs
WorkerMesh ── MCWorkerMesh
   └── WorkerMeshProofs
WorkerSessions ── MCWorkerSessions
   └── WorkerSessionsProofs
SequenceLemmas ── SessionProofs, CollabProofs, RecoveryProofs, WorkerMeshProofs, JobsProofs
```

**Elements** has the constants every list module shares: ids, authors, the order of ids (as a relation, because Go and
JavaScript order them differently) and the placement rule (`Skips`, `IsPlace`) of `getPrev`. Its assumptions are that the null id
is not an id, that each id has an author, and that no id is greater than itself. It is not assumed that the order is total or transitive.

**SequenceCRDT** is the abstract specification: a sequence of elements in which a placed element never moves, and a set of tombstones.
`InsertHead`, `InsertAfter` and `Bury` are what `Session.insert` and `Session.delete` promise.

**Session** is `session.go` at the grain of memory accesses. A call of `Add` takes the mutex (`BeginAdd`), walks (`WalkOn`,
`WalkDone`), writes the next element's `PrevID` (`Relink`), the previous one's `NextID` or `Head` (`Link`), and the map
(`Store`). `Delete` is one write. The readers (`sessionHandler`, `GetSession`, `saveModifiedSessionsToFS`) take no mutex; they
read the map entry by entry and then `Head`, between any two of those writes. A PrevID the map does not have ends the process ("panicked"), a
write to the map while it is iterated may end it ("fatal", the Go runtime's check).

**SessionHistory** adds two history variables, the sequence meant (`order`) and the PrevID each element was sent with (`sent`), and states
what the pointers should be in terms of them. `RefinesSequence` is the refinement: `Abs == INSTANCE SequenceCRDT`
with the tombstones read off the map.

**ClientList** is the browser's side as pure operators on a document (`next`, `prev`, `head`, `dead`, the text as a sequence of ids, `length`):
browsers are single-threaded, so each handler is one function. An id is the pair of its number and its author. The text is a
single line; **Mapping** has the lines.

**Collab** composes browsers with one worker. A browser's handlers are `Type`, `Erase` and `Arrive`; each websocket is a pair of
queues; the worker's `onElement` goroutine of each user is `Process` (read, decide, apply to the list: the calls under the mutex) followed by one
`Broadcast` step per other user, and broadcasts of several users overlap. The worker's list is the sequence of `SequenceCRDT`, which
`Session` was shown to implement, instantiated with the order `strings.Compare` gives to ids.

**FileSystem** is the file system server with its nodes, for one session. A save takes unconnected nodes off the list
and starts a task per connected node; a task calls (`CallNode`), the node truncates (`Truncate`) and writes (`Write`) or fails (`DiskFails`),
and `Reply` puts the node on the list or takes it off. A read copies the list (`BeginRead`), asks one node after the other, and takes those off that fail.
Nodes register in two steps (`AddNode`, `Dial`, which may fail and leave the node without a connection although it is registered and beats), beat, lose their heartbeat without being down (`Expire`), crash at any
point of a call, and restart with their disks. A call before `Dial`, or after one that failed, ends the server (`serverUp`), as the code does.
Logs are saved and read by code of the same shape.

**WorkerMesh** is what `worker.go` does among workers: `Handle` and `QueueAck` are `onElement` before and after its broadcast;
`Collect`, `Visit`, `PingFails`, `Reply` and `EndRound` are one round of `sendLocalElements`, whose counts are taken at the start and used at the end; `Apply` takes
one element of a call of `ApplyIncomingElements`. `PingFails` holds `getWorkers` and the dialling in both directions, each of which may fail, `EndRound` `ackElements` with `cleanAcks`, of which
`Cleaned` gives the elements it removes, the skipped ones excepted. A connection object is live, broken or gone; breaking one fails the call under way for its
caller, whether or not the request arrived. A session is just the set of elements a worker has, since `Session` says where they stand; an element whose PrevID is
not in the set ends the worker, as `PanicOnlyOnUnknownPrev` allows.

**WorkerSessions** is how a worker comes to have a session. A *handler* is a call of `LoadSession` (from `RegisterNewClient` of the load balancer, which holds
its lock meanwhile), of `ApplyIncomingElements` or of `recoveryHandler`; if there is no session it runs `getSessionAndLogs`: `Start` sets the pending mark, `AskPeer` asks one worker after the other,
`AskFileServer` the file server (whose empty reply ends the worker, or only the request when it was an HTTP one), `Assign` stores what was fetched, and `EndFetch` is the end of the function, which the code reaches only if nothing was fetched. `FinishApply`,
`FinishLoad` and `FinishRecover` are what each caller does afterwards. Handlers of one worker interleave at each of those steps. The cache is a sequence of entries with timestamps: `CacheAdd`, and
`Cleaned`, which works out what `clean` does when it ranges over a slice that it shifts. `Create` is `CreateNewSession`; it may end the worker after the load balancer has noted the session as created.
`BeginSave` and `EndSave` are the call in `saveModifiedSessionsToFS` and its reply. A session is the set of its elements; no element is typed behind another here, since a fetch is about which are there at all.

**Lists** and **Text** are operators on sequences, and on texts with positions and changes as CodeMirror has them (`Pos`, `Replaced`, `Inverted`, `AdjustForChange`).

**Mapping** is `mapping.js`: rows of ids, the carriage return being the last element of its row. `Update` and `Delete` split and join them, `PositionsOf` and `PrecedingIn` look things up, `ToRows` computes
the rows anew from the list (`SeqCRDT.toMapping`), which is the reference they are checked against.

**Editor** puts one browser together: the `beforeChange` handler, the queue `changes` with `changesInProgress`, the list, the mapping, the editor's text and history. A command of the user (`TypeChar`, `TypeTwice`, `Enter`,
`IndentMore`, `Indent`, `Erase`, `Paste`, `Undo`, `Redo`, `Reset`) leaves a sequence of changes in `todo`; `Make` announces one to the handler and makes it (`Cancel` drops one that the handler refuses), `Microtask` and `EndOp` work the queue off between two commands,
`RemoteType` and `RemoteErase` come in when the browser is at rest. The cleaning of carriage returns at the end of a queue is part of `EndOp`. `other` is the list at the far end of the websocket. The handler is correct only for some commands; `Fits` and `InOrder` say which (`Gentle`).

**Recovery** is one browser's connection: `Opened`, `Receive`, `Closed`, `TimerFires` and the replies to its requests (`Registered`, `SessionLoaded`, `Reassigned`, `Recovered`, `RecoveryFails`) are its callbacks, each websocket ever opened is
an entry of `conns` with its queues and state, requests are in `asks` until they are answered or fail (`Fails`). Workers are as in WorkerMesh, at the grain of one element spread to one worker (`Spread`, a call of `ApplyIncomingElements`) or acknowledged (`Acknowledge`).
What a client sends goes into the list and `out` of its worker (`OnElement`, `ForeignEdit`), but only what comes from another worker goes into the element cache `wcache` (`Spread`), where it is for ten seconds: `Answer` replies to `/recover` with any suffix of it (`Cached`).
So a page that comes back to a worker does not get what other clients of that worker typed, nor what is older. `getWorker` has no error handler: a `POST /register` that fails ends the recovery, which sets `gaveUp` like a `/recover` that fails.
A connection that is refused fires `error` and `close`, and both handlers set a timer (`Ends`); the second websocket that results finds `recovering` reset, loads the session and does not send the cache. A page whose session was never loaded and that recovers has only what was in the cache.
The code is not made for nine situations. All of them are in the model, in behaviours whose variable `unruly` has their names; the head of the module describes them, `hazards` has their lines. A *budget* says for a behaviour which of them may happen and how many edits, breaks, crashes and failed requests.

**Jobs** follows a job from the click to the entry in everybody's list: `Execute`, `HandleExecute`, `Executed` on the way from browser to worker and back; `NewJob`, `Ask`, `GetLog`, `Run`, `Finish`, `Result`, `SendLog`, `Write`, `Complete`, `Panic`
are `NewJob` of the load balancer under its lock with the worker's `RunJob` and `SendLog` inside; `Register`, `Loaded`, `ServeSession`, `ServeRecovery`, `Open`, `InitSession`, `Recover`, `Receive` are the other ways a log gets to a browser; `Save` is a goroutine that puts a log
into the file system. Workers end at any step (`Crash`), connections break (`Break`), files are not written. A log is the number of the run it came from.

**LineTree**, **Marks** and **Document** are the document of the editor widget. `LineTree` is the B-tree of lines (`InsertInner`, `RemoveInner`, `MaybeSpill`, collapse), with node sizes as constants; `Marks` the spans of markers on lines and what `updateDoc` does to both; `Document` selections (`NormalizeSelection`,
`ComputeSelAfterChange`), the history with its merging of typing, of selections and of marks (`AddChangeToHistory`, `MergeOldSpans`, `MakeChangeFromHistory`), bracket matching when the cursor moves, and the operations that use them. Text is of tokens of one type, so that a bracket matches any other. **UndoStack** is the abstract specification of a history: a stack of texts behind
and one ahead of the present one. `RefinesUndoStack` reads them off the two arrays of changes.

**GoMode** is the tokenizer of the Go mode as far as its state goes beyond a line (raw strings, block comments); **View** is what the widget keeps of lines it shows: `ChangedView`, `AdjustView`, `PatchDisplay`, `UpdateDisplayIfNeeded`, `PostUpdateDisplay` for the window of lines that are drawn, `ContextBefore`,
`LineStyles`, `RetreatFrontier` and `Work` for highlighting in time slices, `FindMaxLine` and `MeasureMax` for the width, `EndOperation` for the order they come in. The editor is hidden while a log is shown (`LogClicked`) and refreshed half a second after.

**MCSession**, **MCCollab**, **MCFileSystem**, **MCWorkerMesh**, **MCWorkerSessions**, **MCEditor**, **MCRecovery**, **MCJobs**, **MCDocument**, **MCView** instantiate them for TLC. **SessionProofs**,
**CollabProofs**, **RecoveryProofs**, **FileSystemProofs**, **WorkerMeshProofs**, **WorkerSessionsProofs** and **JobsProofs** hold the proofs, **SequenceLemmas** what several of them need about sequences.

Operators whose comment begins with "Faulty" stand directly in front of the definition they are a
variant of. Nothing uses them in a run: they are the mutations a property is tried
against, listed under `mutants` in `PROJECT.json`.

## 3. The runs

| run | instance | question and answer |
|---|---|---|
| `session_list` | 3 elements of 2 authors, all orders of arrival, any PrevID, deletes; one reader at any time | The list is one sequence between calls, an element stays behind its PrevID, `Add` panics only on an unknown PrevID and always gives the mutex back or the process is down, a copy that falls between calls is one list, and the list refines `SequenceCRDT`. |
| `collab_two` | 2 users, 1 initial element, numbers up to 2, user 2 deletes | The editors and the worker have the same text whenever nothing is under way; the editor shows its list at any time; numbers are fresh; the editors finally agree for good. |
| `collab_three` | 3 users, 1 initial element, nobody deletes | Although elements overtake each other on the way to a third user, the worker itself never meets an unknown PrevID and each editor shows its own list. |
| `fs_serial` | 2 nodes, one joins late; 2 saves that do not overlap, 1 read, 1 crash | Between saves only nodes with the latest version are listed; a read never returns less than what was completely saved when it began. |
| `mesh` | 3 workers, minimum 2; two clients of one worker, the second answers the first; one broken connection, one failed dial or dial back, one crash, one leave; only that worker starts rounds | An acknowledged element is on at least two other workers that still run (or ended later), elements that arrive during a round included; an element not acknowledged is still among those to be sent, although `cleanAcks` skips elements. |
| `mesh_flood` | 3 workers, minimum 1; one element, all workers flood, one broken connection | A worker may forget a peer for good; the element still reaches every worker and is acknowledged. |
| `sessions` | 2 workers, 2 clients, 2 elements, expiry after 2 units of time, 2 failures of any kind (a call, a save, a worker that ends), 3 elements and failures together | As long as nothing fails, a client is sent to a worker that has the session, although several handlers fetch it and `LoadSession` reports no error; the load balancer always gives its lock back, even when workers end one after the other; a cache of two elements keeps what has not expired, whichever of them `clean` ranges over after it has shifted them. |
| `editor` | one browser with a text of a tab, a carriage return and a letter; 2 edits and one undo or redo out of typing, typing over a queue that is not empty, Enter, indenting, deleting, pasting, loading a session, remote elements | After every command the editor shows its list, the mapping is the one computed from the list, the other side has the same text; the queue never holds an operation that throws, and every command ends. |
| `recovery` | a browser and 2 workers; ten budgets of up to 2 elements typed or deleted, an edit of somebody else, a broken connection or a worker that ends at any time, a request that fails; all nine situations of `Unruly` are in some budget | Whatever happens, what the user has typed is in the cache of the page until two workers have it or one has been told of its deletion, and a page that lost its websocket is connected again unless a request failed or no worker is left. Where the situations that break them stay out, nothing that is sent, also again, ends a worker, and a page at rest shows the text of its worker. |
| `jobs` | 2 workers, 2 users; of the four budgets one has two workers end, one a broken connection, one a log that is not saved with a user who comes later, one two clicks with a user who comes later | Entries, known jobs and listeners agree in every order; one worker is enough; a program is run once more only for a worker that ended; a result is not put back to unfinished by a load or a save; the lock is given back and every request answered, unless a log was never saved; everybody who kept the connection can open the result. |
| `cm_document` | leaves of 2 lines and nodes of 2 children; six kinds of session of up to 3 edits, 2 moves, 2 undos over the text `(` / `r)` | The tree is the text with right sizes, heights and parents; selections are sorted and within the text, those in the history within the text they come back with; marks are where their text went, and undo restores them; undo and redo are those of a stack of texts; the marked brackets belong together. |
| `cm_view` | a window of two and a half lines over 6 lines, parser states saved every 2 lines and looked for over 3; eight kinds of session of up to 2 edits and 3 moves | The view is of the lines that are there; what is drawn is the document and fills the window; saved parser states above the frontier are right; the text is as wide as its longest line; highlighting catches up. |

Each module has a type invariant. `CollabInv`, `MeshInv`, `LoadInv`, `EditorInv`, `PageInv`, `DocumentInv`, `ViewInv` and `JobsInv` are conjunctions of it with named invariants of the module, so that a run checks all of them;
the type invariants of `Session` and `FileSystem` are proved (section 4).

Several of these runs have a shape that leaves out behaviour the code does have. Each was tried in the model and is listed under `hazards` with its line:

* `collab_two` and `collab_three` have nobody type at the very start (`Openers`): two concurrent insertions there are not compared at all (operation.js:305), and typing in front of a tombstone cuts it off the list together with
  what another user types behind it. With nine initial elements (numbers 9 and 10) `Converged` fails, because the worker compares ids as strings. With three users only the editors' own lists and the worker's safety are claimed: a user who gets an answer before the element answered to puts it at the start.
* `fs_serial` has saves that do not overlap: a goroutine of an older save can write and list last.
* `mesh` has both clients on one worker: with an author on each of two workers and one broken connection an answer reaches the third worker first and ends it. `mesh_flood` has no dial that fails.
* `sessions` does not claim that what is cached is in the session: two handlers can fetch it, and the second copy replaces the one an element has been applied to.
* `QuietCopyIsOneList` speaks of copies that fall between calls of `Add`: one made during a call may contain an element its pointers do not lead to.
* `editor` has `Gentle` commands: a carriage return over a selection, the paste or composition of a single character, a paste of nothing followed by typing, and undo of an event of several changes are sent wrongly or not at all (operation.js:79-103).
* `recovery` lets everything happen, but two of its properties speak of some behaviours only. `Converged` is claimed of behaviours in which at most "moved" happens: TLC finds it violated with each of "start" (elements at the start are not compared), "early" (`initSession` overwrites what came before), "doubled" (two recoveries), "slow" (`w.clients` of the next connection deleted),
  "lost" (a worker ends with what only it has, or the page comes back before the workers have what it had sent), "erase" (a deletion is taken out of the cache by its own element), "gap" (an element between the reply to `/recover` and the websocket) and "missed" (the reply to `/recover` does not have what the page has missed: it was typed by a client of the same worker, or is older than ten seconds).
  `NoWorkerPanics` is claimed of behaviours with at most "start", "erase", "gap" and "missed": TLC finds it violated with "moved" (text typed in front of text that is not acknowledged, or the deletion of such an element with more text behind it: what is sent again then refers to an element sent after it), "early", "doubled", "slow" and "lost".
  `PageInv` and `Reconnects` hold with all of them. `Reconnects` is claimed where the reply to `/recover` is free ("missed"), because otherwise the guard of `Answer` would leave a request without an answer for ever.
* `jobs` excludes, by `Stuck`, a job whose first log was never saved (RunJob asks for it for ever, under the lock), by `torn` a log sent while a browser was away, by `overtaken` a worker that loads from the file system while the result is on its way there. The load balancer going down over a job when all workers have ended is what the code does.
* `cm_document` lets a cancelled undo drop the history, and does not claim that brackets stay right when a remote change alters their nesting: they are only matched again when the cursor moves.
* `cm_view` excludes lines above the view that the highlighting worker went past without restyling them (codemirror.js:4060), and speaks of drawn lines when the refresh after showing the editor is over.

**Bounds.** *Session*: three ids of two authors, compared a1 < b1 < a2, give chains in which a walk passes an element, is stopped by a
smaller id, by the same author, and by the end, and one insertion beside a reader at the front, middle and end; the theorems remove this bound. *Collab*: `MaxNumber` bounds the numbers in ids. Numbers up to 2 after one initial element let each user type twice, an element answer
another, two users insert behind the same element, and one be typed behind a deleted one. *FileSystem*: `MaxSaves` = 2 is what a stale file takes; `MaxReads`, `MaxCrashes` = 1 give a read across
a save and a crash at every point of either. *WorkerMesh*: `MaxBreaks`, `MaxMissed`, `MaxCrashes`, `MaxLeaves` = 1 put each
kind of failure at every point of a round; two elements are what `cleanAcks` needs to skip one and what an answer needs; `Senders` leaves the rounds of the other two workers out of `mesh` only, `mesh_flood` has them all. *WorkerSessions*: `MaxClock` = `EXPIRY_THRESHOLD` = 2 has an element that is just too young and one that just expires;
two elements are what a slice that shifts needs; `MaxFailures` = 2 lets both workers end, or a save fail and a worker with it; `MaxTogether` = 3 has two elements with one failure and one element with two. *Editor*: two edits are what a queue with a second change, a row split and joined again, and an undo of an edit with remote elements behind it take. *Recovery*: two own elements have one typed behind, in front of or deleted beside an unacknowledged one, sent again in order; `Calm` pairs own and foreign edits with a break and a crash, `Lossy` adds what loses text but ends no worker, `Wild` adds everything else,
with a crash or a refused connection and a failed request in the middle of a recovery. The theorem removes these bounds. *Jobs*: a budget of each kind of failure alone and with a late user; three requests are one click sent again twice, or two clicks. *Document*: the sizes 2 and 3 make leaves spill and nodes collapse within two edits (CodeMirror has 25, 50 and 10, with the same conditions); the kinds of session are
one for each pair of mechanisms that meet (marks and undo, two cursors and deletion, selections and undo, heights and undo). *View*: margins, look-back, saving distance and slack are 1 to 3 instead of 5 to 500, so that six lines have all cases of each comparison.
No symmetry is used: authors and ids are ordered, and the nodes of `fs_serial` differ.

**Deadlock** checking is off in all runs: every model may come to rest (all elements inserted, nobody types, all saves done,
a process has panicked).

**Fairness.** `FairHSpec`: the goroutine that holds the mutex is scheduled until it lets go (weak fairness of the steps of `Add`
only; no call has to be made). `FairSpec` of Collab: an open websocket delivers, and the worker's goroutines run. `FairSpec` of WorkerMesh: each worker's round goes on, calls are served and answered unless cut off, and `onElement` reaches its last line; no connection has to break or to be mended by itself. `FairSpec` of WorkerSessions: the load balancer goes on with the client it registers, and the worker with the load it was asked for; nothing else has to happen. `FairSpec` of Editor: a command once begun goes on, and microtasks run. `FairSpec` of Recovery: the page's callbacks run as long as there are any (`Page`), and the load balancer and the workers go on (`Service`): each as a whole, so that it is not assumed that one callback or one worker has its turn; requests are answered or fail, websockets open or end, timers fire. `FairSpec` of Jobs: goroutines and replies, and a page that tries to connect; strong fairness for `Register` and `NewJob` since Go's mutex
lets a waiter in after a millisecond (starvation mode). `Spec` of View: timers fire. Users need never type.
Go's scheduler, the browser's event loop and TCP give these; nothing is assumed fair whose occurrence is up to a user, a disk or a crash.

## 4. The proofs

Each theorem holds for every value of the constants its module's assumption admits: any number of users, workers, clients, elements, jobs and nodes, and
any budget of failures. A run shows the same property on a small instance with the same module, so that what is proved is what is checked. The assumptions are
`ElementsAssumption`, `CollabAssumption`, `RecoveryAssumption`, `FileSystemAssumption`, `MeshAssumption`, `SessionsAssumption` and `JobsAssumption`; where a theorem needs more, it says so as a hypothesis.

**The list of a session** (`SessionProofs`)

* `TypeCorrect` (`SessionProofs`): `TypeOK` is an invariant of `Session`, unlocked readers included.
* `InvariantHolds`: `HInv` is an invariant of `HSpec`. "The list is a sequence" alone is not inductive, because it is false
  between the writes of `Add`. `HInv` therefore says what each pointer is at each control point: `PointerInv` (behind
  `Relink` the successor already points back to the new element; behind `Link` the predecessor or the head points forward to it), `CallInv` with
  `WalkInv` (the cursor stands at some place c, not before the place p of the PrevID; all elements from p+1 to c were to be skipped; once
  the walk is over, the next one is not; the local element's `NextID` is the one behind the cursor), and `HistoryInv` (the sequence has each key of the map once).
  One lemma per action shows that it is preserved; `StoreStep` is the hard one and rests on `SequenceLemmas` (what `InsertAt` contains, and that it repeats nothing).
* `ListCorrect`, `PanicCorrect`, `IntentCorrect`: three safety properties, from `HInv`.
* `CopyCorrect`: `QuietCopyIsOneList`, the copy a reader makes without the mutex. It needs `CopyInv` beside `HInv`: an `Add` that is over while the reader is at work has left a key
  that the reader will not copy; as long as there is none, the `NextID`s copied so far are those of the list. That all copied elements are then reached from the head in as many steps as there are keys is `ListIsSequence`.
* `ListRefinesSequence`: `HSpec => RefinesSequence`. `Store` is the step that maps to `InsertHead` or `InsertAfter` (that `i` in `IsPlace` exists
  is `WalkInv`), `Delete` maps to `Bury`, everything else stutters.

**The browsers and their worker** (`CollabProofs`)

* `SpecNeverPanics`: `NeverPanics`. The invariant is `CInv`: whatever a browser has is in the worker's list or on the way there, and so is, further ahead in the same websocket or in the list, the element any other was typed
  behind (`OnTheWay`); the worker sends only what is in its list (`Delivered`); an element anybody has is one its author has, whose next number is greater than its own ones (`Numbered`), so that an id is given once.
* `SpecTypeOK`: the types, from the same invariant.
* `SpecEditorShowsList`: `EditorShowsList`, if nobody types at the very start or nobody deletes (`Openers = {} \/ Deleters = {}`). Without the hypothesis it is false: typing in front of a tombstone cuts the tombstone off the list
  (operation.js:194-225 takes the first visible element for the next one). `DocList` says that `next`, `prev` and `head` are those of one sequence of the known elements and that the text is a selection of it; `InsertList` is the lemma that an insertion between two neighbours
  at the place of the last visible element before them keeps that, `HideList` the one about deleting. `PlaceIsKnown` and `VisibleBeforePlace` say where the two walks of `handleRemoteInput` end.
* Walks and `toMapping` are recursive functions. That such a function has the values its definition says is proved from the least natural number at which it would not (`WalkExists`, by `LeastNatural`), since the induction theorems of the library cannot be used.

**Convergence of two users** (`CollabProofs`)

The theorems say `Len(Joined) = 2`: with three users an answer can arrive before the element answered to, and the texts differ. Two users are all on one path each way: the websocket of the author, its goroutine in the worker, the websocket of the other.

* `SpecConverged`: `Converged`, if nobody types at the very start and numbers have one digit (`Openers = {}`, `MaxNumber <= 9`). Neither hypothesis can go: elements at the start are not compared at all (operation.js:305), and from number 10 on the worker's order of strings is not the browsers' order of numbers; TLC finds `Converged` violated with `Openers = {1, 2}`, and with nine initial elements.
  The number of elements and the times at which they are typed, deleted, handled and sent on are free. The invariant has these parts:
  * `Flow`: the numbers of one author grow from what the other browser has over what is in its websocket and in the goroutine to what is still on the way to the worker, and all of it is there (`Chain`).
  * `Counted`: a browser's count is that of its elements, and an own element's number is no greater than the count of what there was when it was typed (`Ranked`). Both give `NewestNumber`: a new number is greater than all its author has seen, so that typing without a comparison puts the element where `handleRemoteInput` would.
  * `Prepared` and `Deleted`: a message arrives behind what it needs, and a deletion is everywhere or on its way.
  * `Lists`: there is one parent for each element such that in the worker's list and in both browsers' every element stands behind its parent with only greater ones in between (`Canonical`). `CanonicalInserted` says which insertions keep that; `PlacedLocal`, `PlacedRemote` and `PlacedAfter` that the three rules (no comparison, comparison of numbers, comparison of strings and authors) are of that kind;
    `getPrev` also stops at a greater element of the same author, which cannot happen here because `Flow` says that the author's numbers grow.
  * `CanonicalUnique` is the end of the argument: such a list is determined by its elements. Once everything has arrived the elements are the same and so are the deleted ones, therefore the lists, therefore the texts (`SelectionUnique`).
* `SpecCollabInv`: `CollabInv`, that is `TypeOK`, `EditorShowsList` (under its hypothesis) and, from `Flow` and `Counted`, `NewestNumber`, whatever numbers there are.

**A browser's connection** (`RecoveryProofs`)

* `SpecPageInv`: `PageInv`, that is the types and `TypedIsKept`, for any number of workers, elements typed, elements of others, broken connections, failed requests and workers that end, and without any hypothesis about `Unruly`: refused connections set two timers, recoveries overlap, replies are late or miss what the page has missed, and elements are deleted while others are on their way.
  `TypedIsKept` says where what the user typed is: in the cache of the page, which sends it again (`sendCachedElements`), or on two workers, or a worker has been told that it is deleted. It is not inductive, because the page takes an element out of the cache for whatever comes in with its id (operation.js:266-277). `KeptInv` follows the ids of this user through every queue:
  * `SessionOK` and `ConnOK`: what a worker has of this user, and what is on its way to one, the page knows.
  * `OutOK` and `SentToOK`: what a worker has sent to another one, that one has too, unless it is a deletion; so what has been sent to another worker is kept.
  * `CacheOK`, `AckOK` and `AskOK`: the element cache of a worker that runs, what it acknowledges, and the replies to `/recover` have only kept elements of this user. This is where it matters that the cache is filled by `ApplyIncomingElements` only: an element that only `onElement` has seen is on one worker, and coming back from there in a reply to `/recover` it would leave the cache of the page too early.
  * `PageOK`: the list of the page is one of its own elements (which `initSession` may have replaced, `OverwrittenOK`), and each own one is in the cache or kept.
  `KeptGrows` says that what is kept stays so, so that each action has to be looked at only where it adds something to a queue.

**The file system** (`FileSystemProofs`)

* `SerialSaves`, `ListedCorrect`, `ReadCorrect` (`FileSystemProofs`): under `~Overlap`, with `FileSystemAssumption`, for any set of nodes and any bounds,
  `ListedIsLatest` and `ReadIsRecent` are invariants. Neither is inductive, because each speaks of the end of a save or read. `SerialInv` adds what holds
  on the way: all goroutines belong to the latest save and there is one per node (`SavesInv`); a listed node without one has the latest version, and with one
  its file is at most one save old (`ListedInv`); every node a read may still ask has a file that does not decode, none, or one no older than
  the read's floor (`ReadInv`). The hypothesis is needed: with two overlapping saves TLC finds `ListedIsLatest` violated.

**The mesh** (`WorkerMeshProofs`)

* `SpecMeshInv`, `SpecAckedIsReplicated`: `NothingForgotten` and `AckedIsReplicated`, from `MInv`. Neither is inductive: a round takes the number of elements to acknowledge when it starts and cuts so many off the queue when it ends, and in between
  answers come in one by one. `RoundInv` therefore says of a round under way that the first `acks` elements to acknowledge are among those it sends, and that each worker that has answered has all it sends or has ended; `CallInv` says the same of the call under way, less what
  is still to be applied; `FromHome` that nobody passes on what the author's worker does not have. `RankIsBijection` and `FirstKept` are about `cleanAcks`: an element moves forward by the number of those removed in front of it, so that what `EndRound` cuts off were among the first.
  A round that comes by a worker twice (after a connection to it was replaced) counts it twice, so that its elements are not on the minimum of workers that the comment at worker.go:789 speaks of; the elements it acknowledges are `recounted`, and only one other worker is claimed to have them.

**The sessions of a worker** (`WorkerSessionsProofs`)

* `CacheSorted`, `YoungStayCorrect` (`WorkerSessionsProofs`): for any workers, elements, expiry time and failures, from `SessionsAssumption`, no step takes an element out of a cache
  that has not expired. The invariant is `CacheInv`: the timestamps in a cache are in order and none is later than the clock (`Cache.Add` appends, with the present time), and what a handler applies is an element.
  `PassesStop` is the argument about `clean`: its pass i looks at an element at or behind the one it removes; by the order it has not expired unless the removed one has. `CleanedKeeps` and `CacheAddKeeps` say what the two operations preserve.
* `LoadCorrect`: `TypeOK` and `HandedOutHasSession`, with `LInv`: before the session is created there are no handlers (`Quiet`), the load balancer waits for at most one load (`OneLoad`), a handler that stores something has something to store (`Running`), and one that is at its end without a failure leaves a session (`Fetched`).

**Jobs** (`JobsProofs`)

* `SpecJobsInv`: `TypeOK`, `OneIsEnough`, `RunsBounded` and `NotLeftUnfinished`, from `JInv`: `Turn` says where the load balancer is with its job and which workers it may still ask, `Counted` that a job was run at most once more than workers have ended, `Past` that no log is of a run that has not been,
  `Files` that a result kept by a worker is in the file system or on its way there, `Spread` that every worker has the result of a job that is over.
* `SpecDoneStays`: the action property `DoneStays`, from `JInv`.
* `SpecClickShows`: `ClickShows`, with `Shows`: a browser's list and what it knows of jobs agree.

Only model-checked: liveness (`AddReturns`, `EventuallyTheSame`, `EventuallyAcked`, `LockReleased`, `CommandEnds`, `Reconnects`, `EventuallyClickable`, `ExecuteAnswered`, `HighlightedInTheEnd`), which is out of the prover's reach under fairness;
`Converged` of `Recovery`, whose Quiet states compare two texts, that of the page with the one of a worker that was given its elements in another order: it would take the canonical lists of the convergence of two users, with a third way, the reply to /recover, by which elements arrive; `NoWorkerPanics` of `Recovery`, which needs the order of the whole cache of the page against what each worker has; `Editor`, `Document` and `View`, whose texts and trees are walked by bounded recursion and folds (`SelectSeq` and the folds of the library are recursive definitions the prover cannot expand).

## 5. What is not modelled, and the plan

Assumed or left out in what there is: user names are distinct (the application server does not refuse a name that is taken); in `Collab` one worker
without peers and websockets that stay open (`Recovery` has the others, with one browser); selections and cursors in `Editor` (a command may apply anywhere; `Document` has them); an element, once in the map, is not
sent with other contents. In `WorkerMesh` one session that every worker has loaded, insertions only, one chunk per round, each append one step. In `WorkerSessions` one session without deletes, every peer reachable unless it has ended, no addition to a session by two goroutines at the same instant. In `FileSystem` one session, no restart of the server (it forgets all sessions and turns away known nodes).
In `Jobs` one session, job ids that differ (two runs within a second get the same one, worker.go:672), one file node. In `Document` and `View` the options Golab sets: no wrapping, folding, bidirectional text, read-only or atomic marks, linked documents.

Not modelled as code at all:

* type declarations, HTML, modals and alerts, the compiler run of a job;
* of CodeMirror: the drawing of spans within a line, measuring of characters, key maps, mouse dragging and drag and drop, gutters and widgets, and the hidden textarea with its polling (`TextareaInput`): its state is a diff of two strings and a set of timers
  around browser events that the repository does not define. Those parts keep no state the Golab code reads;
* the add-ons for closing brackets and tags, which no page of Golab switches on, jQuery and Bootstrap (minified);
* the application server: two append-only name lists and a forwarded call.

What is left to do: theorems for `NoWorkerPanics` and `Converged` of `Recovery`; deletes, chunks and unsynchronized appends in `WorkerMesh`; a restart of the file system server.
