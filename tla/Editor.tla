------------------------------- MODULE Editor -------------------------------
(***************************************************************************)
(* One browser: the CodeMirror editor, the handler of its beforeChange     *)
(* event (operation.js), the queue of changes that promises work off, the  *)
(* two-dimensional Mapping and the list.  A command of the user is a       *)
(* sequence of changes; CodeMirror announces each of them to the handler   *)
(* and then makes it.  The handler deletes at once, by id, and queues what *)
(* is inserted, character by character; the first queued change is handled *)
(* before the change that queued it is made, the others in microtasks when *)
(* the command is over.  Websocket messages come between commands.         *)
(*                                                                         *)
(* The other side of the websocket is a second list, which gets every      *)
(* element that is sent and whose own elements come in: Collab is about    *)
(* their order on the way.  Selections, and with them the cursors, are     *)
(* left out; a command may apply anywhere.                                 *)
(***************************************************************************)
EXTENDS Mapping, Text

CONSTANTS
    TAB,          \* the value of a tab
    Letters,      \* a sequence of values: what the n-th command types
    Me, Other,    \* the user of this browser and the one of the other side
    Start,        \* the values of the text the session begins with
    Pastes,       \* the texts that may be pasted
    Commands,     \* the kinds of command the user gives
    Gentle,       \* only what the handler is made for: see Fits
    MaxEdits,     \* bound: commands and messages that change the text,
    MaxCommands   \* bound: these and undo and redo

ASSUME EditorAssumption ==
    /\ Me \in Nat /\ Other \in Nat /\ Me # Other
    /\ MaxEdits \in Nat /\ MaxCommands \in Nat /\ Len(Letters) > MaxEdits
    /\ Gentle \in BOOLEAN

VARIABLES
    doc,        \* the list (CRDT), with its visible ids in one line
    val,        \* the values of its elements
    rows,       \* mapping.arr
    text,       \* what the editor shows
    done,       \* CodeMirror's history: what undo takes back,
    undone,     \*   and what redo does again
    lastOrigin, \* the origin of the latest change,
    cursor,     \*   and where it has left the cursor, if there is only one
    todo,       \* the changes the command has still to make
    changes,    \* the queue
    changesInProgress,
    other,      \* the list of the other side
    edits,      \* how many commands there have been,
    undos       \*   and of undo and redo

crdt == <<doc, val, rows, other>>
editor == <<text, done, undone, lastOrigin, cursor>>
vars == <<crdt, editor, todo, changes, changesInProgress, edits, undos>>

Change(from, to, lines, origin) == [from |-> from, to |-> to, text |-> lines, origin |-> origin]
Plain(c) == [from |-> c.from, to |-> c.to, text |-> c.text]

\* splitLines: the lines of a string.
Lines(s) ==
    Folded(LAMBDA t, v : IF v = RETURN THEN Append(t, <<>>) ELSE ReplaceAt(t, Len(t), Append(Last(t), v)),
             << <<>> >>, s)

\* initSession: the session's list, its mapping, and setValue, which the
\* history of the editor keeps like any other change.
Init ==
    LET ids == [i \in DOMAIN Start |-> <<i - 1, Other>>]
        whole == Change(Pos(0, 0), Pos(0, 0), Lines(Start), "setValue") IN
    /\ doc = Loaded(ids)
    /\ other = Loaded(ids)
    /\ val = [id \in Range(ids) |-> Start[id[1] + 1]]
    /\ rows = ToRows(doc, val)
    /\ text = Lines(Start)
    /\ done = << <<Inverted(<< <<>> >>, whole)>> >>
    /\ undone = <<>>
    /\ lastOrigin = "setValue"
    /\ cursor = NIL
    /\ todo = <<>> /\ changes = <<>> /\ changesInProgress = FALSE
    /\ edits = 0 /\ undos = 0

-----------------------------------------------------------------------------
(***************************************************************************)
(* The list and the mapping: handleLocalInput and handleLocalDeleteByID,   *)
(* as functions of the four variables they change.                         *)
(***************************************************************************)

State == [doc |-> doc, val |-> val, rows |-> rows, other |-> other]

InputThrows(s, line, ch) == PrecedingThrows(s.rows, line, ch) \/ UpdateThrows(s.rows, line)

\* handleLocalInput.  What it sends reaches the other side.
LocalInputAt(s, line, ch, v) ==
    LET id   == NewID(s.doc, Me)
        prev == PrecedingIn(s.rows, line, ch)
        next == IF prev # NIL THEN s.doc.next[prev] ELSE Get(s.rows, line, ch)
    IN  [ doc   |-> Insert(s.doc, id, prev, next, IndexIn(s.doc.text, prev)),
          val   |-> [k \in DOMAIN s.val \cup {id} |-> IF k = id THEN v ELSE s.val[k]],
          rows  |-> Update(s.rows, line, ch, id, v),
          other |-> RemoteInput(s.other, id, prev) ]

\* Faulty LocalDelete: the deletion is not sent.
LocalDeleteUnsent(s, id) ==
    LET p == CHOOSE q \in PositionsOf(s.rows, id) : TRUE IN
    [ s EXCEPT !.doc = Hide(@, id), !.rows = Delete(@, p.line, p.ch, s.val[id]) ]

\* handleLocalDeleteByID, for an element that is in the mapping.
LocalDelete(s, id) ==
    LET p == CHOOSE q \in PositionsOf(s.rows, id) : TRUE IN
    [ s EXCEPT !.doc = Hide(@, id), !.rows = Delete(@, p.line, p.ch, s.val[id]),
               !.other = RemoteDelete(@, id) ]

\* handleBulkDelete
BulkDelete(s, from, to) == Folded(LocalDelete, s, EffectedIDs(s.rows, from, to))

(***************************************************************************)
(* The kinds of change the handler tells apart.                            *)
(***************************************************************************)
IsDelete(c) == c.text = << <<>> >>
IsCarriageReturn(c) == c.text = <<<<>>, <<>>>>
IsBulk(c) == Len(c.text) > 1 \/ Len(c.text[1]) > 1 \/ EffectedIDs(rows, c.from, c.to) # <<>>

\* handleBulkInput: every line but the last gets the carriage return that
\* ends it, in the change itself, which CodeMirror then makes as it is,
WithReturns(lines) == [i \in DOMAIN lines |-> IF i < Len(lines) THEN Append(lines[i], RETURN) ELSE lines[i]]

\* and every character becomes a change of its own.
Characters(c) ==
    LET lines == WithReturns(c.text)
        at(i, j) == Pos(c.from.line + i - 1, (IF i = 1 THEN c.from.ch ELSE 0) + j - 1)
        one(i, j) == Change(at(i, j), at(i, j),
                            IF lines[i][j] = RETURN THEN <<<<>>, <<>>>> ELSE << <<lines[i][j]>> >>, "+input")
    IN  FlattenSeq([i \in DOMAIN lines |-> [j \in DOMAIN lines[i] |-> one(i, j)]])

\* The origin a change has in the queue.
QueuedOrigin(c) ==
    IF c.origin \in {"undo", "redo"} \/ (IsDelete(c) /\ c.origin = "cut")
    THEN IF IsDelete(c) THEN "+delete" ELSE "+input"
    ELSE c.origin

\* What the handler makes of a change: what it deletes, what it queues, and
\* the text CodeMirror goes on with.
Handled(c) == c.origin \notin {"ignore", "setValue"}
InBulk(c) == Handled(c) /\ IsBulk(c) /\ ~IsCarriageReturn(c)
AfterDelete(c) == IF InBulk(c) THEN BulkDelete(State, c.from, c.to) ELSE State
Queued(c) == IF ~InBulk(c) THEN <<[c EXCEPT !.origin = QueuedOrigin(c)]>>
             ELSE IF IsDelete(c) THEN <<>> ELSE Characters(c)
Announced(c) == IF InBulk(c) /\ ~IsDelete(c) THEN [c EXCEPT !.text = WithReturns(@)] ELSE c

\* handleOperation.  Only +input and +delete mean anything to it; a queued
\* deletion is one of which nothing was in the mapping.
OpInput(op) == op.origin = "+input" /\ (IsCarriageReturn(op) \/ op.text[1] # <<>>)
OpDelete(op) == op.origin = "+delete" /\ Get(rows, op.from.line, op.from.ch) # NIL
HandleOperation(s, op) ==
    IF OpInput(op)
    THEN LocalInputAt(s, op.from.line, op.from.ch, IF IsCarriageReturn(op) THEN RETURN ELSE op.text[1][1])
    ELSE IF OpDelete(op) THEN LocalDelete(s, Get(s.rows, op.from.line, op.from.ch))
    ELSE s

\* processOpPromise of a queue leaves it as it is when the operation throws.
Throws(s, queue) == /\ queue # <<>> /\ OpInput(Head(queue))
                    /\ InputThrows(s, Head(queue).from.line, Head(queue).from.ch)
Processed(s, queue) == IF queue = <<>> \/ Throws(s, queue) THEN s ELSE HandleOperation(s, Head(queue))
Left(s, queue) == IF queue = <<>> \/ Throws(s, queue) THEN queue ELSE Tail(queue)

SetState(s) == \E n \in {s} : doc' = n.doc /\ val' = n.val /\ rows' = n.rows /\ other' = n.other

-----------------------------------------------------------------------------
(***************************************************************************)
(* CodeMirror: making a change and keeping its history.                    *)
(***************************************************************************)

\* addChangeToHistory: the change begins an event of the history or becomes
\* part of the latest one; what is typed where the latest change ends only
\* extends it.
Recorded(events, c, merge, t) ==
    IF merge /\ events # <<>>
    THEN LET event == Last(events)
             latest == IF event = <<>> THEN <<>> ELSE Last(event) IN
         ReplaceAt(events, Len(events),
             IF c.from = c.to /\ event # <<>> /\ c.from = Last(event).to
             THEN ReplaceAt(event, Len(event), [Last(event) EXCEPT !.to = ChangeEnd(c)])
             ELSE Append(event, Inverted(t, c)))
    ELSE Append(events, <<Inverted(t, c)>>)

Moved(p, c) == IF p = NIL THEN NIL ELSE AdjustForChange(p, c)

\* The same for a change of its own operation, by the program.
MakeIgnored(c) ==
    IF IsEmptyChange(c) THEN UNCHANGED editor
    ELSE /\ text' = Replaced(text, c)
         /\ done' = Recorded(done, c, FALSE, text)
         /\ undone' = <<>>
         /\ lastOrigin' = c.origin
         /\ cursor' = Moved(cursor, c)

\* What is typed, or deleted character by character, soon after a change of
\* the same kind where that has left the cursor may become part of it (a
\* selection made in between is in the history itself and keeps them apart).
MayMerge(c) ==
    /\ c.origin = lastOrigin
    /\ cursor # NIL
    /\ \/ c.origin = "+input" /\ c.from = c.to /\ c.to = cursor
       \/ c.origin = "+delete" /\ cursor \in {c.from, c.to} /\ Len(FlattenSeq(GetBetween(text, c.from, c.to))) <= 1

Idle == todo = <<>> /\ ~changesInProgress
Rest == Idle /\ changes = <<>>

\* No carriage return takes the place of a selection, and nothing brings a
\* literal carriage return back that EndOp removed together with other
\* characters.
Fits(c) == /\ IsCarriageReturn(c) => c.from = c.to
           /\ \/ c.text = << <<RETURN>> >>
              \/ \A i \in DOMAIN c.text : RETURN \notin Range(c.text[i])

\* No line break is taken back behind an insertion of several characters:
\* the deletion is made at once, in front of the characters still queued.
InOrder(cs) ==
    \A i, j \in DOMAIN cs :
        i < j /\ Len(Joined(cs[i].text, RETURN)) > 1 => cs[j].from.line = cs[j].to.line

\* A command: the changes it makes one after the other.
Give(cs, joins) ==
    /\ Idle
    /\ Gentle => InOrder(cs) /\ \A i \in DOMAIN cs : Fits(cs[i])
    /\ todo' = [i \in DOMAIN cs |-> [change |-> cs[i], joins |-> IF i = 1 THEN joins ELSE "must"]]
    /\ UNCHANGED <<crdt, changes, changesInProgress>>

Count == edits < MaxEdits /\ edits + undos < MaxCommands /\ edits' = edits + 1 /\ UNCHANGED undos
CountUndo == edits + undos < MaxCommands /\ undos' = undos + 1 /\ UNCHANGED edits

\* With one cursor and nothing selected, or else.
Command(cs) == Count /\ Give(cs, "may") /\ UNCHANGED editor
Multiple(cs) == Count /\ Give(cs, "never") /\ UNCHANGED editor

\* beforeChange was cancelled (a line that is a literal carriage return);
\* undo and redo then forget the rest of their stack.
Cancel ==
    /\ todo # <<>>
    /\ LET c == todo[1].change IN
       /\ c.text[1] = <<RETURN>>
       /\ todo' = IF c.origin \in {"undo", "redo"} THEN <<>> ELSE Tail(todo)
       /\ done' = IF c.origin = "undo" THEN <<>> ELSE done
       /\ undone' = IF c.origin = "redo" THEN <<>> ELSE undone
    /\ UNCHANGED <<crdt, text, lastOrigin, cursor, changes, changesInProgress, edits, undos>>

\* The handler of beforeChange.
BeforeChange(c) ==
    IF ~Handled(c) THEN UNCHANGED <<crdt, changes, changesInProgress>>
    ELSE /\ \E s \in {AfterDelete(c)}, queue \in {changes \o Queued(c)} :
               /\ SetState(IF changesInProgress THEN s ELSE Processed(s, queue))
               /\ changes' = IF changesInProgress THEN queue ELSE Left(s, queue)
         /\ changesInProgress' = TRUE

\* The next change of the command: the handler (filterChange), then the
\* history and the text.
Make ==
    /\ todo # <<>>
    /\ todo[1].change.text[1] # <<RETURN>>
    /\ LET c == todo[1].change
           made == Announced(c) IN
       /\ BeforeChange(c)
       /\ IF c.origin \in {"undo", "redo"}
          THEN /\ text' = Replaced(text, made)
               /\ LET anti(events) == ReplaceAt(events, Len(events), Append(Last(events), Inverted(text, made))) IN
                  IF c.origin = "undo" THEN undone' = anti(undone) /\ done' = done
                                       ELSE done' = anti(done) /\ undone' = undone
               /\ UNCHANGED <<lastOrigin, cursor>>
          ELSE IF IsEmptyChange(made) THEN UNCHANGED editor
          ELSE /\ text' = Replaced(text, made)
               /\ \E merge \in BOOLEAN :
                     /\ todo[1].joins = "must" => merge
                     /\ merge => todo[1].joins = "must" \/ (todo[1].joins = "may" /\ MayMerge(c))
                     /\ done' = Recorded(done, made, merge, text)
               /\ undone' = <<>>
               /\ lastOrigin' = c.origin
               /\ cursor' = IF todo[1].joins = "may" \/ (todo[1].joins = "must" /\ cursor # NIL)
                            THEN ChangeEnd(made) ELSE NIL
    /\ todo' = Tail(todo)
    /\ UNCHANGED <<edits, undos>>

-----------------------------------------------------------------------------
(***************************************************************************)
(* The commands of the user.                                               *)
(***************************************************************************)
Ranges == { r \in Positions(text) \X Positions(text) : UpTo(r[1], r[2]) }

\* A character, over the selection (applyTextInput).
TypeChar ==
    /\ "type" \in Commands
    /\ \E r \in Ranges : Command(<<Change(r[1], r[2], << <<Letters[edits + 1]>> >>, "+input")>>)

\* A character at two cursors, the last one first.
TypeTwice ==
    /\ "twice" \in Commands
    /\ \E r \in Ranges : /\ r[1] # r[2]
                         /\ LET at(p) == Change(p, p, << <<Letters[edits + 1]>> >>, "+input") IN
                            Multiple(<<at(r[2]), at(r[1])>>)

Indent(line) ==
    LET n == CHOOSE k \in 0..Len(line) : /\ \A i \in 1..k : line[i] = TAB
                                         /\ k = Len(line) \/ line[k + 1] # TAB
    IN  SubSeq(line, 1, n)

\* newlineAndIndent: the new line gets the indentation of the one above.
Enter ==
    /\ "enter" \in Commands
    /\ \E r \in Ranges :
          LET above == Indent(SubSeq(LineOf(text, r[1].line), 1, r[1].ch))
              end   == LineOf(text, r[2].line)
              has   == Indent(SubSeq(end, r[2].ch + 1, Len(end)))
              n     == r[1].line + 1 IN
          /\ Command(<<Change(r[1], r[2], <<<<>>, <<>>>>, "+input")>>
                     \o IF has = above THEN <<>>
                        ELSE <<Change(Pos(n, 0), Pos(n, Len(has)), <<above>>, "+input")>>)

\* indentMore: the selected lines get one more tab each.
IndentMore ==
    /\ "indent" \in Commands
    /\ \E m \in 0..LastLine(text) : \E n \in (m + 1)..LastLine(text) :
          LET lines == SelectSeq([i \in 1..(n - m + 1) |-> m + i - 1],
                                 LAMBDA k : \E i \in DOMAIN LineOf(text, k) : LineOf(text, k)[i] # TAB)
              more(k) == Change(Pos(k, 0), Pos(k, Len(Indent(LineOf(text, k)))),
                                <<Append(Indent(LineOf(text, k)), TAB)>>, "+input")
          IN  Multiple([i \in DOMAIN lines |-> more(lines[i])])

\* deleteNearSelection: what is selected, or next to the cursor.
Erase ==
    /\ "delete" \in Commands
    /\ \E r \in Ranges : r[1] # r[2] /\ Command(<<Change(r[1], r[2], << <<>> >>, "+delete")>>)

Paste ==
    /\ "paste" \in Commands
    /\ \E r \in Ranges, lines \in Pastes : Multiple(<<Change(r[1], r[2], lines, "paste")>>)

\* makeChangeFromHistory: the changes of the latest event, from the last to
\* the first, become an event of the other stack.
Backward(event, type) ==
    LET e == Reverse(event) IN [i \in DOMAIN e |-> Change(e[i].from, e[i].to, e[i].text, type)]

Undo ==
    /\ CountUndo /\ done # <<>>
    /\ Give(Backward(Last(done), "undo"), "never")
    /\ done' = Front(done)
    /\ undone' = Append(undone, <<>>)
    /\ lastOrigin' = "none"
    /\ cursor' = NIL
    /\ UNCHANGED text

Redo ==
    /\ CountUndo /\ undone # <<>>
    /\ Give(Backward(Last(undone), "redo"), "never")
    /\ undone' = Front(undone)
    /\ done' = Append(done, <<>>)
    /\ lastOrigin' = "none"
    /\ cursor' = NIL
    /\ UNCHANGED text

\* reset (app.js), when the log shown is closed: setValue with the text of
\* the list.
Reset ==
    /\ "reset" \in Commands
    /\ Multiple(<<Change(Pos(0, 0), LastPos(text), Lines(ToSnippet(ToRows(doc, val), val)), "setValue")>>)

-----------------------------------------------------------------------------
(***************************************************************************)
(* Promises and messages.                                                  *)
(***************************************************************************)

\* The next microtask takes the next change from the queue (initOpPromise).
Microtask ==
    /\ todo = <<>> /\ changesInProgress /\ changes # <<>>
    /\ SetState(Processed(State, changes))
    /\ changes' = Left(State, changes)
    /\ UNCHANGED <<editor, todo, changesInProgress, edits, undos>>

\* cleanTokenCarriageReturns: the literal carriage return at the end of a
\* line is removed, alone or by replacing the token it is part of.
Cleaning(t, n, whole) ==
    LET line == LineOf(t, n)
        last == Pos(n, Len(line)) IN
    IF whole /\ Len(line) > 1 THEN Change(Pos(n, 0), last, <<Front(line)>>, "ignore")
    ELSE Change(Pos(n, Len(line) - 1), last, << <<>> >>, "ignore")

\* e is the editor's text, history and cursor.
Cleaned(e, n, whole) ==
    LET c == Cleaning(e.text, n, whole) IN
    IF n \in 0..LastLine(e.text) /\ LineOf(e.text, n) # <<>> /\ Last(LineOf(e.text, n)) = RETURN
    THEN [ text |-> Replaced(e.text, c), done |-> Recorded(e.done, c, FALSE, e.text), undone |-> <<>>,
           lastOrigin |-> "ignore", cursor |-> Moved(e.cursor, c) ]
    ELSE e

\* Faulty EndOp: the flag stays.
EndOpBusy ==
    /\ todo = <<>> /\ changesInProgress /\ changes = <<>>
    /\ UNCHANGED vars

\* endOpPromise: the queue is empty.  Whether the last token of a line (the
\* highlighter's) is the whole line, as in a comment, is left open.
EndOp ==
    /\ todo = <<>> /\ changesInProgress /\ changes = <<>>
    /\ \E whole \in BOOLEAN :
       LET now == [text |-> text, done |-> done, undone |-> undone, lastOrigin |-> lastOrigin, cursor |-> cursor]
           clean(e, n) == Cleaned(e, n, whole)
       IN  \E e \in {Folded(clean, now, [i \in DOMAIN rows |-> i - 1])} :
             /\ text' = e.text /\ done' = e.done /\ undone' = e.undone
             /\ lastOrigin' = e.lastOrigin /\ cursor' = e.cursor
    /\ changesInProgress' = FALSE
    /\ UNCHANGED <<crdt, todo, changes, edits, undos>>

\* handleRemoteInput: the element is shown behind the last visible one in
\* front of it.
Shown(prev) ==
    LET at == VisibleBefore(doc, prev) IN
    IF at = NIL THEN Pos(0, 0)
    ELSE LET p == CHOOSE q \in PositionsOf(rows, at) : TRUE IN
         IF val[at] = RETURN THEN Pos(p.line + 1, 0) ELSE Pos(p.line, p.ch + 1)

\* The other user types v behind ch visible characters.
RemoteType(ch, v) ==
    LET id == NewID(other, Other)
        prev == Preceding(other, ch)
        p == Shown(ListPlace(doc, id, prev)) IN
    /\ Rest /\ "remote" \in Commands
    /\ Count
    /\ ch = 0 => other.head \notin other.dead
    /\ other' = LocalInput(other, Other, ch)
    /\ doc' = RemoteInput(doc, id, prev)
    /\ val' = [k \in DOMAIN val \cup {id} |-> IF k = id THEN v ELSE val[k]]
    /\ MakeIgnored(Change(ClipPos(text, p), ClipPos(text, p), Lines(<<v>>), "ignore"))
    /\ rows' = Update(rows, p.line, p.ch, id, v)
    /\ UNCHANGED <<todo, changes, changesInProgress>>

\* handleRemoteDelete: the other user deletes the ch-th visible character.
RemoteErase(ch) ==
    LET id == other.text[ch]
        p == CHOOSE q \in PositionsOf(rows, id) : TRUE
        to == IF val[id] = RETURN THEN Pos(p.line + 1, 0) ELSE Pos(p.line, p.ch + 1) IN
    /\ Rest /\ "remote" \in Commands
    /\ Count
    /\ id \notin doc.dead
    /\ other' = Hide(other, id)
    /\ doc' = Hide(doc, id)
    /\ MakeIgnored(Change(ClipPos(text, p), ClipPos(text, to), << <<>> >>, "ignore"))
    /\ rows' = Delete(rows, p.line, p.ch, val[id])
    /\ UNCHANGED <<val, todo, changes, changesInProgress>>

User == TypeChar \/ TypeTwice \/ Enter \/ IndentMore \/ Erase \/ Paste \/ Undo \/ Redo \/ Reset
Remote == \/ \E ch \in 0..Len(other.text), v \in {Letters[edits + 1], RETURN} : RemoteType(ch, v)
          \/ \E ch \in 1..Len(other.text) : RemoteErase(ch)
Next == User \/ Cancel \/ Make \/ Microtask \/ EndOp \/ Remote

Spec == Init /\ [][Next]_vars

\* The browser carries a command out and runs its microtasks.
FairSpec == Spec /\ WF_vars(Cancel \/ Make \/ Microtask \/ EndOp)

-----------------------------------------------------------------------------
TypeOK ==
    /\ DOMAIN val = Known(doc)
    /\ \A i \in DOMAIN rows : rows[i] # <<>> /\ Range(rows[i]) \subseteq Known(doc) \ doc.dead
    /\ text # <<>>
    /\ changesInProgress \in BOOLEAN
    /\ edits \in 0..MaxEdits /\ undos \in 0..MaxCommands

\* Between commands the editor shows the text of its list (SeqCRDT.verify).
EditorShowsList == Rest => Joined(text, RETURN) = ToSnippet(ToRows(doc, val), val)

\* The mapping that is kept up to date line by line is the one computed anew
\* from the list.
MappingIsList == Rest => rows = ToRows(doc, val)

\* The others have what this editor shows, although what was typed, pasted,
\* indented, undone or redone was sent character by character.
OthersSeeEditor == Rest => [i \in DOMAIN other.text |-> val[other.text[i]]] = Joined(text, RETURN)

\* The queue can be worked off: no queued change is for a row that the
\* mapping does not have.  One that is would be tried again for ever, without
\* the page getting anything else to do.
NeverStuck == ~Throws(State, changes)

\* Types, the three copies of the text in the browser (editor, mapping and
\* list), and a queue that can be worked off.
EditorInv == TypeOK /\ EditorShowsList /\ MappingIsList /\ NeverStuck

\* A command is over at some time.
CommandEnds == ~Idle ~> Idle
=============================================================================
