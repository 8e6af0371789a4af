------------------------------ MODULE Document ------------------------------
(***************************************************************************)
(* The document of the editor: CodeMirror's Doc with its lines and markers *)
(* (Marks), the selections, the history and the operations on them that    *)
(* Golab and its user call.  Golab's editors agree because every change of *)
(* the text goes through makeChange or the history, whichever made it; the *)
(* module Editor takes from here that the text is the one Text.Replaced    *)
(* gives, and that undo takes back what an event did.                      *)
(*                                                                         *)
(* The document is one record, doc; an operator gives the document that    *)
(* the function of the same name leaves.  Its fields text and where are    *)
(* for the properties: the text as Text.Replaced gives it, and the marked  *)
(* range as its ends are moved.  Each action is one operation of the       *)
(* editor: what it changes and, when the cursor was concerned, the         *)
(* handler of cursorActivity that marks the matching brackets.  Whether    *)
(* two operations are less than historyEventDelay apart is left open.      *)
(***************************************************************************)
EXTENDS Marks

CONSTANTS
    Openers, Closers, \* brackets: the i-th of the one belongs to the i-th of the other
    StartText,        \* the text of the session, loaded by setValue
    Inserts,          \* texts that are typed, pasted or come from others
    Values,           \* texts of setValue
    Refused,          \* a line that the handler of beforeChange cancels
    UndoDepth,        \* events and selections the history keeps (200)
    Sessions          \* what may be done in a session: kinds of operation, and
                      \* as bounds how many edits, moves and undos

ASSUME DocumentAssumption ==
    /\ Len(Openers) = Len(Closers)
    /\ UndoDepth \in Nat

VARIABLES
    doc,    \* the document
    before, \* where the composition was before the latest change, if that
            \* began an event
    session, \* what may be done in this one,
    count   \* and how much of it has been done

vars == <<doc, before, session, count>>

Does(kind) == kind \in session.kinds
Counted(sort) ==
    /\ count[sort] < session[sort]
    /\ count' = [count EXCEPT ![sort] = @ + 1]
    /\ UNCHANGED session

-----------------------------------------------------------------------------
(***************************************************************************)
(* Selections: sorted ranges that do not touch, with the primary one.      *)
(***************************************************************************)
Range2(anchor, head) == [anchor |-> anchor, head |-> head]
From(r) == MinPos(r.anchor, r.head)
To(r) == MaxPos(r.anchor, r.head)
IsEmpty(r) == r.anchor = r.head
Selection(ranges, prim) == [ranges |-> ranges, prim |-> prim]
SimpleSelection(anchor, head) == Selection(<<Range2(anchor, head)>>, 1)
SomethingSelected(sel) == \E i \in DOMAIN sel.ranges : ~IsEmpty(sel.ranges[i])
Touches(sel, from, to) == \E i \in DOMAIN sel.ranges : UpTo(From(sel.ranges[i]), to) /\ UpTo(from, To(sel.ranges[i]))

\* minPos(anchor, head) is the head, as an object.
HeadFirst(r) == ~Before(r.anchor, r.head)

\* Faulty NormalizeSelection: only ranges that overlap are joined.
NormalizeTouching(ranges, prim) ==
    LET order == SortSeq([i \in DOMAIN ranges |-> i], LAMBDA i, j : Before(From(ranges[i]), From(ranges[j])))
    IN  Selection([i \in DOMAIN order |-> ranges[order[i]]], prim)

NormalizeSelection(ranges, prim) ==
    LET order == SortSeq([i \in DOMAIN ranges |-> i],
                         LAMBDA i, j : \/ Before(From(ranges[i]), From(ranges[j]))
                                       \/ From(ranges[i]) = From(ranges[j]) /\ i < j)
        join(sel, i) ==
            LET cur == ranges[i]
                n == Len(sel.ranges)
                prev == sel.ranges[n]
                from == MinPos(From(prev), From(cur))
                to == MaxPos(To(prev), To(cur))
                back == IF IsEmpty(prev) THEN HeadFirst(cur) ELSE HeadFirst(prev)
            IN  IF n > 0 /\ UpTo(From(cur), To(prev))
                THEN Selection(ReplaceAt(sel.ranges, n, IF back THEN Range2(to, from) ELSE Range2(from, to)),
                               IF n < sel.prim THEN sel.prim - 1 ELSE sel.prim)
                ELSE [sel EXCEPT !.ranges = Append(@, cur)]
    IN  Folded(join, Selection(<<>>, IndexOf(order, prim)), order)

ComputeSelAfterChange(d, c) ==
    NormalizeSelection([i \in DOMAIN d.sel.ranges |->
                            Range2(AdjustForChange(d.sel.ranges[i].anchor, c), AdjustForChange(d.sel.ranges[i].head, c))],
                       d.sel.prim)

OffsetPos(p, old, new) ==
    IF p.line = old.line THEN Pos(new.line, p.ch - old.ch + new.ch)
    ELSE Pos(new.line + (p.line - old.line), p.ch)

\* computeReplacedSel: the selection at the start of what replaces it, or
\* around it.
ComputeReplacedSel(d, changes, hint) ==
    LET next(w, i) ==
            LET c == changes[i]
                from == OffsetPos(c.from, w.old, w.new)
                to == OffsetPos(ChangeEnd(c), w.old, w.new)
                r == IF hint = "start" THEN Range2(from, from)
                     ELSE IF Before(d.sel.ranges[i].head, d.sel.ranges[i].anchor) THEN Range2(to, from)
                     ELSE Range2(from, to)
            IN  [old |-> c.to, new |-> to, ranges |-> Append(w.ranges, r)]
    IN  Selection(Folded(next, [old |-> Pos(0, 0), new |-> Pos(0, 0), ranges |-> <<>>],
                         [i \in DOMAIN changes |-> i]).ranges, d.sel.prim)

-----------------------------------------------------------------------------
(***************************************************************************)
(* The history: change events and selections; below a change event is the  *)
(* selection there was before it.                                          *)
(***************************************************************************)
IsSel(event) == "ranges" \in DOMAIN event
EndsInChange(events) == events # <<>> /\ ~IsSel(Last(events))

\* What undoes a change, with the spans that it may have cut.
HistoryChange(d, c) ==
    [ from |-> c.from, to |-> ChangeEnd(c), text |-> GetBetween(Content(d), c.from, c.to),
      spans |-> [i \in 1..(c.to.line - c.from.line + 1) |-> d.line[GetLine(d, c.from.line + i - 1)].spans] ]

PushSelection(events, sel) ==
    IF events # <<>> /\ Last(events) = sel THEN events ELSE Append(events, sel)

ClearSelectionEvents(events) ==
    LET n == CHOOSE k \in 0..Len(events) : /\ \A i \in (k + 1)..Len(events) : IsSel(events[i])
                                           /\ k > 0 => ~IsSel(events[k])
    IN  SubSeq(events, 1, n)

\* lastChangeEvent: the history with the event a change may be merged into on
\* top, if there is one.
LastChangeEvent(events, force) ==
    IF force THEN ClearSelectionEvents(events)
    ELSE IF Len(events) > 1 /\ IsSel(Last(events)) /\ ~IsSel(events[Len(events) - 1]) THEN Front(events)
    ELSE events

\* The oldest entries are dropped so that a selection remains at the bottom.
Trimmed(events) ==
    LET over == Len(events) - UndoDepth
        n == IF over <= 0 THEN 0 ELSE IF IsSel(events[over + 1]) THEN over ELSE over + 1
    IN  SubSeq(events, n + 1, Len(events))

Plus(origin) == origin \in {"+input", "+delete", "+move"}

MayMerge(d, c, soon) == d.op \/ (d.lastOrigin = c.origin /\ Plus(c.origin) /\ soon)

\* Faulty AddChangeToHistory: what can be redone stays.
AddChangeKeepsUndone(d, c, selAfter, soon) ==
    [ d EXCEPT !.done = Append(Append(PushSelection(@, d.sel), [changes |-> <<HistoryChange(d, c)>>]), selAfter),
               !.lastOrigin = c.origin, !.lastSelOrigin = c.origin, !.sameTime = TRUE, !.op = TRUE, !.selOp = TRUE ]

AddChangeToHistory(d, c, selAfter, soon) ==
    LET merged(changes) == IF c.from = c.to /\ c.from = Last(changes).to
                           THEN Append(Front(changes), [Last(changes) EXCEPT !.to = ChangeEnd(c)])
                           ELSE Append(changes, HistoryChange(d, c))
        base(old) == IF old = <<>> \/ EndsInChange(old) THEN PushSelection(old, d.sel) ELSE old
        with(old) == IF MayMerge(d, c, soon) /\ EndsInChange(old)
                     THEN Append(Front(old), [changes |-> merged(Last(old).changes)])
                     ELSE Trimmed(Append(base(old), [changes |-> <<HistoryChange(d, c)>>]))
    IN  [ d EXCEPT !.done = Append(Given(IF MayMerge(d, c, soon) THEN LastChangeEvent(@, d.op) ELSE @, with), selAfter),
                   !.undone = <<>>, !.lastOrigin = c.origin, !.lastSelOrigin = c.origin,
                   !.sameTime = TRUE, !.op = TRUE, !.selOp = TRUE ]

AddSelectionToHistory(d, sel, origin, clearRedo, soon) ==
    LET top == Last(d.done)
        alike == /\ Len(top.ranges) = Len(sel.ranges)
                 /\ SomethingSelected(top) = SomethingSelected(sel)
        merge == \/ d.selOp
                 \/ /\ origin # "none" /\ d.lastSelOrigin = origin
                    /\ \/ d.sameTime /\ d.lastOrigin = origin
                       \/ origin = "*mouse"
                       \/ Plus(origin) /\ alike /\ soon
    IN  [ d EXCEPT !.done = IF merge THEN Append(Front(@), sel) ELSE PushSelection(@, sel),
                   !.undone = IF clearRedo THEN ClearSelectionEvents(@) ELSE @,
                   !.lastSelOrigin = origin, !.sameTime = FALSE, !.selOp = TRUE ]

\* setSelectionNoUndo
ShowSelection(d, sel) == IF sel = d.sel THEN d ELSE [d EXCEPT !.sel = sel, !.active = TRUE]
SetSelection(d, sel, origin, clearRedo, soon) ==
    AddSelectionToHistory(ShowSelection(d, sel), sel, origin, clearRedo, soon)
SetSelectionReplaceHistory(d, sel, soon) ==
    IF d.done # <<>> /\ IsSel(Last(d.done))
    THEN ShowSelection([d EXCEPT !.done = Append(Front(@), sel)], sel)
    ELSE SetSelection(d, sel, "none", FALSE, soon)

-----------------------------------------------------------------------------
(***************************************************************************)
(* Changes.                                                                *)
(***************************************************************************)
Change(from, to, lines, origin, full) ==
    [from |-> from, to |-> to, text |-> lines, origin |-> origin, full |-> full]

\* Where the ends of a marked range get: what is inserted at one of them is
\* outside, and what is left of a range that is cut is in front of the change
\* or behind it.
Followed(r, c) ==
    LET from == AdjustForChange(r.from, c)
        to == IF Before(c.to, r.to) THEN AdjustForChange(r.to, c) ELSE MinPos(r.to, c.from)
    IN  IF ~c.full /\ Before(from, to) THEN [from |-> from, to |-> to] ELSE NoRange

\* makeChangeSingleDoc and makeChangeSingleDocInEditor
MakeChangeSingleDoc(d, c, selAfter, spans) ==
    Given([d EXCEPT !.active = @ \/ Touches(d.sel, c.from, c.to), !.text = Replaced(@, c),
                    !.where = [m \in DOMAIN @ |-> Followed(@[m], c)]],
          LAMBDA touched : Given(UpdateDoc(touched, c, spans), LAMBDA e : ShowSelection(e, selAfter)))

\* filterChange: the handler may cancel a change.
Cancelled(c) == c.text[1] = Refused

MakeChange(d, c, soon) ==
    IF Cancelled(c) \/ IsEmptyChange(c) THEN d
    ELSE Given(ComputeSelAfterChange(d, c),
               LAMBDA after : Given(AddChangeToHistory(d, c, after, soon),
                                    LAMBDA e : MakeChangeSingleDoc(e, c, after, StretchSpans(d, c))))

\* Faulty MergeOldSpans: only what is there is stretched.
MergeNothingOld(d, c) == StretchSpans(d, c)

\* mergeOldSpans: the spans that the change had cut off come back.
MergeOldSpans(d, c) ==
    LET stretched == StretchSpans(d, c) IN
    [i \in DOMAIN c.text |-> c.spans[i] \o SelectSeq(stretched[i], LAMBDA sp : ~HasSpan(c.spans[i], sp.marker))]

\* One change of an event that is undone or redone; at is its place there.
Revert(d, c, at, source, dest) ==
    LET change == Change(c.from, c.to, c.text, "none", FALSE) @@ [spans |-> c.spans] IN
    IF d.stopped THEN d
    ELSE IF Cancelled(change) THEN [d EXCEPT ![source] = <<>>, !.stopped = TRUE]
    ELSE MakeChangeSingleDoc(
            [d EXCEPT ![dest] = ReplaceAt(@, Len(@), [changes |-> Append(Last(@).changes, HistoryChange(d, change))])],
            change,
            IF at > 1 \/ d[source] = <<>> THEN ComputeSelAfterChange(d, change) ELSE Last(d[source]),
            MergeOldSpans(d, change))

\* makeChangeFromHistory: the selections above the latest event go over to
\* the other stack, then the event, or the selection that was asked for.
MakeChangeFromHistory(d, type, selOnly) ==
    LET source == IF type = "undo" THEN "done" ELSE "undone"
        dest == IF type = "undo" THEN "undone" ELSE "done"
        events == d[source]
        usable(e) == IF selOnly THEN IsSel(e) /\ e # d.sel ELSE ~IsSel(e)
        stops(e) == ~IsSel(e) \/ (selOnly /\ e # d.sel)
        n == CHOOSE k \in DOMAIN events : stops(events[k]) /\ \A j \in (k + 1)..Len(events) : ~stops(events[j])
        above == Reverse(SubSeq(events, n + 1, Len(events)))
        selAfter == IF above = <<>> THEN d.sel ELSE Last(above)
        taken == [ d EXCEPT ![source] = SubSeq(@, 1, n - 1),
                            ![dest] = Folded(PushSelection, @, above),
                            !.lastOrigin = "none", !.lastSelOrigin = "none" ]
        changes == events[n].changes
        order == Reverse([i \in DOMAIN changes |-> i])
        opened == [taken EXCEPT ![dest] = Append(PushSelection(@, selAfter), [changes |-> <<>>])]
    IN  IF ~\E i \in DOMAIN events : usable(events[i]) THEN d
        ELSE IF IsSel(events[n])
        THEN SetSelection([taken EXCEPT ![dest] = PushSelection(@, events[n])], events[n], "none", FALSE, FALSE)
        ELSE Folded(LAMBDA e, i : Revert(e, changes[i], i, source, dest), opened, order)

-----------------------------------------------------------------------------
(***************************************************************************)
(* matchbrackets.js: when the cursor may have moved, the brackets next to  *)
(* the cursors and the ones they belong to are marked.                     *)
(***************************************************************************)
IsBracket(ch) == ch \in Range(Openers) \cup Range(Closers)
Mate(ch) == IF ch \in Range(Openers) THEN Closers[IndexOf(Openers, ch)] ELSE Openers[IndexOf(Closers, ch)]

\* Faulty ScanForBracket: the next bracket that turns the other way.
ScanUncounted(t, p, dir) ==
    LET there == { q \in Positions(t) : /\ q.ch < Len(LineOf(t, q.line))
                                        /\ IF dir = 1 THEN UpTo(p, q) ELSE Before(q, p)
                                        /\ LineOf(t, q.line)[q.ch + 1] \in Range(IF dir = 1 THEN Closers ELSE Openers) }
        near(q) == \A r \in there : IF dir = 1 THEN UpTo(q, r) ELSE UpTo(r, q)
    IN  IF there = {} THEN [any |-> FALSE] ELSE [any |-> TRUE, found |-> CHOOSE q \in there : near(q)]

\* scanForBracket: the characters from a position on (or before it, backwards),
\* with what is open on the way.
ScanForBracket(t, p, dir) ==
    LET all == Folded(LAMBDA s, n : s \o [i \in DOMAIN LineOf(t, n) |-> Pos(n, i - 1)], <<>>,
                      [n \in DOMAIN t |-> n - 1])
        way == IF dir = 1 THEN SelectSeq(all, LAMBDA q : UpTo(p, q))
               ELSE Reverse(SelectSeq(all, LAMBDA q : Before(q, p)))
        step(w, q) ==
            LET ch == LineOf(t, q.line)[q.ch + 1] IN
            IF w.found # NoRange.from \/ w.any \/ ~IsBracket(ch) THEN w
            ELSE IF (ch \in Range(Openers)) = (dir = 1) THEN [w EXCEPT !.open = @ + 1]
            ELSE IF w.open > 0 THEN [w EXCEPT !.open = @ - 1]
            ELSE [w EXCEPT !.found = q, !.any = TRUE]
    IN  Folded(step, [open |-> 0, found |-> NoRange.from, any |-> FALSE], way)

\* findMatchingBracket: the bracket in front of the cursor, or else behind it.
BracketAt(t, p) ==
    LET line == LineOf(t, p.line) IN
    IF p.ch > 0 /\ IsBracket(line[p.ch]) THEN p.ch - 1
    ELSE IF p.ch < Len(line) /\ IsBracket(line[p.ch + 1]) THEN p.ch ELSE None

FreeMarker(d) == CHOOSE m \in 1..(Cardinality(DOMAIN d.mark) + 1) : m \notin DOMAIN d.mark
MarkChar(d, p) ==
    LET m == FreeMarker(d) IN
    [MarkText(d, m, p, Pos(p.line, p.ch + 1)) EXCEPT !.brackets = Append(@, m)]

MarkBracket(d, t, p) ==
    LET dir == IF LineOf(t, p.line)[p.ch + 1] \in Range(Openers) THEN 1 ELSE -1
        mark(scan) == Folded(MarkChar, d, IF scan.any THEN <<p, scan.found>> ELSE <<p>>)
    IN  Given(ScanForBracket(t, IF dir = 1 THEN Pos(p.line, p.ch + 1) ELSE p, dir), mark)

MatchBrackets(d, r) ==
    LET mark(t, at) == IF at = None THEN d ELSE MarkBracket(d, t, Pos(r.head.line, at)) IN
    IF ~IsEmpty(r) THEN d ELSE Given(Content(d), LAMBDA t : mark(t, BracketAt(t, r.head)))

\* A cleared marker is not restored from the history either.
Forgotten(events, gone) ==
    LET kept(spans) == SelectSeq(spans, LAMBDA sp : sp.marker \notin gone) IN
    [i \in DOMAIN events |->
        IF IsSel(events[i]) THEN events[i]
        ELSE [changes |-> [j \in DOMAIN events[i].changes |->
                 [events[i].changes[j] EXCEPT !.spans = [k \in DOMAIN @ |-> kept(@[k])]]]]]
Cleared(d, ms) ==
    [Folded(Clear, d, ms) EXCEPT !.done = Forgotten(@, Range(ms)), !.undone = Forgotten(@, Range(ms))]

\* doMatchBrackets
DoMatchBrackets(d) == Folded(MatchBrackets, [Cleared(d, d.brackets) EXCEPT !.brackets = <<>>], d.sel.ranges)

\* The end of an operation: cursorActivity.
Ended(d) ==
    [ (IF d.active THEN DoMatchBrackets(d) ELSE d)
        EXCEPT !.active = FALSE, !.op = FALSE, !.selOp = FALSE, !.stopped = FALSE ]

-----------------------------------------------------------------------------
(***************************************************************************)
(* The operations.                                                         *)
(***************************************************************************)
Start == Pos(0, 0)
EmptyDoc ==
    LET sel == SimpleSelection(Start, Start) IN
    [ node |-> (Root :> [leaf |-> FALSE, kids |-> <<1>>, size |-> 1, height |-> 1, parent |-> None])
               @@ (1 :> [leaf |-> TRUE, kids |-> <<0>>, size |-> 0, height |-> 1, parent |-> Root]),
      line |-> (0 :> [text |-> <<>>, spans |-> <<>>, height |-> 1, parent |-> 1]),
      next |-> 1, mark |-> [m \in {} |-> <<>>], brackets |-> <<>>, composing |-> {},
      sel |-> sel, done |-> <<sel>>, undone |-> <<>>, lastOrigin |-> "none", lastSelOrigin |-> "none",
      sameTime |-> FALSE, op |-> FALSE, selOp |-> FALSE, active |-> FALSE, stopped |-> FALSE,
      text |-> << <<>> >>, where |-> [m \in {} |-> NoRange] ]

SetValue(d, lines) ==
    Given(MakeChange(d, Change(Start, LastPos(Content(d)), lines, "setValue", TRUE), FALSE),
          LAMBDA e : SetSelection(e, SimpleSelection(Start, Start), "none", TRUE, FALSE))

\* replaceSelections; the ranges are replaced from the last to the first.
ReplaceSelections(d, lines, collapse, origin, soon) ==
    LET rs == d.sel.ranges
        changes == [i \in DOMAIN rs |-> Change(From(rs[i]), To(rs[i]), lines, origin, FALSE)]
        selected(e) == IF collapse = "end" THEN e
                       ELSE SetSelectionReplaceHistory(e, ComputeReplacedSel(d, changes, collapse), soon)
    IN  Given(Folded(LAMBDA e, c : MakeChange(e, c, soon), d, Reverse(changes)), selected)

\* deleteH backwards: what is selected, or when nothing is, with
\* deleteNearSelection the character or line break in front of the cursors.
Near(t, r) ==
    [ from |-> IF r.head.ch > 0 THEN Pos(r.head.line, r.head.ch - 1)
               ELSE IF r.head.line > 0 THEN Pos(r.head.line - 1, Len(LineOf(t, r.head.line - 1)))
               ELSE r.head,
      to   |-> r.head ]
DeleteNear(d, soon) ==
    LET kill == [i \in DOMAIN d.sel.ranges |-> Near(Content(d), d.sel.ranges[i])]
        joined == IF Len(kill) = 2 /\ UpTo(kill[2].from, kill[1].to)
                  THEN <<[from |-> MinPos(kill[1].from, kill[2].from), to |-> kill[2].to]>> ELSE kill
    IN  Folded(LAMBDA e, k : MakeChange(e, Change(k.from, k.to, << <<>> >>, "+delete", FALSE), soon), d, Reverse(joined))

DeleteH(d, soon) ==
    IF SomethingSelected(d.sel) THEN ReplaceSelections(d, << <<>> >>, "end", "+delete", soon) ELSE DeleteNear(d, soon)

Init ==
    /\ doc = Ended(SetValue(EmptyDoc, StartText))
    /\ before = <<>>
    /\ session \in Sessions
    /\ count = [edits |-> 0, moves |-> 0, undos |-> 0]

Ranges == { r \in Positions(doc.text) \X Positions(doc.text) : UpTo(r[1], r[2]) }

\* The number of change events of a history.
Depth(events) == Cardinality({ i \in DOMAIN events : ~IsSel(events[i]) })

Edit(d) ==
    /\ Counted("edits")
    /\ \E e \in {d} : /\ doc' = Ended(e)
                     /\ before' = IF Depth(e.done) > Depth(doc.done) THEN <<doc.where>> ELSE <<>>

\* Typing or pasting over the selections (applyTextInput), or replacing them
\* with a selection of what is new.
Type ==
    \E lines \in Inserts, collapse \in {"end", "start", "around"} \cap session.kinds, soon \in BOOLEAN :
        Edit(ReplaceSelections(doc, lines, collapse, "+input", soon))
Delete == Does("delete") /\ \E soon \in BOOLEAN : Edit(DeleteH(doc, soon))

\* A remote element, an indentation or a cleaned carriage return.
ReplaceRange ==
    /\ Does("replace")
    /\ \E r \in Ranges, lines \in Inserts : Edit(MakeChange(doc, Change(r[1], r[2], lines, "ignore", FALSE), FALSE))
Load == Does("load") /\ \E lines \in Values : Edit(SetValue(doc, lines))

Move(d) ==
    /\ Counted("moves")
    /\ doc' = Given(d, Ended)
    /\ before' = <<>>

\* Keys move all cursors, or with shift the heads of the ranges.
ExtendRange(r, head, extend) == Range2(IF extend THEN r.anchor ELSE head, head)
ExtendSelections(heads, extend) ==
    NormalizeSelection([i \in DOMAIN heads |-> ExtendRange(doc.sel.ranges[i], heads[i], extend)], doc.sel.prim)
MoveCursors ==
    /\ Does("select")
    /\ \E heads \in [DOMAIN doc.sel.ranges -> Positions(doc.text)], extend, soon \in BOOLEAN :
        Move(SetSelection(doc, ExtendSelections(heads, extend), "+move", TRUE, soon))

\* leftButtonSelect, with the control key: at p and dragged to q a range is
\* added; a cursor that is there goes instead, and another range is replaced.
Clicked(sel, p, q) ==
    LET hit == { i \in DOMAIN sel.ranges : Touches(Selection(<<sel.ranges[i]>>, 1), p, p) }
        i == Min(hit)
        less == RemoveAt(sel.ranges, i)
        r == Range2(p, q)
    IN  IF hit = {} THEN Selection(Append(sel.ranges, r), Len(sel.ranges) + 1)
        ELSE IF Len(sel.ranges) = 1 \/ ~IsEmpty(sel.ranges[i])
        THEN Selection(ReplaceAt(sel.ranges, i, r), IF p = q THEN sel.prim ELSE i)
        ELSE IF p = q THEN Selection(less, 1)
        ELSE Selection(IF i <= Len(less) THEN ReplaceAt(less, i, r) ELSE Append(less, r), i)

\* Within what is selected a click begins to drag that.
Click ==
    \E p, q \in Positions(doc.text) :
        /\ \A i \in DOMAIN doc.sel.ranges : ~(Before(From(doc.sel.ranges[i]), p) /\ Before(p, To(doc.sel.ranges[i])))
        /\ \E kind \in {"click", "add"} \cap session.kinds :
              LET sel == IF kind = "click" THEN SimpleSelection(p, q) ELSE Clicked(doc.sel, p, q) IN
              Move(SetSelection(doc, NormalizeSelection(sel.ranges, sel.prim), "*mouse", TRUE, FALSE))

\* The range of a composition is marked until it ends.
Compose ==
    /\ Does("compose") /\ doc.composing = {}
    /\ LET r == doc.sel.ranges[doc.sel.prim]
           m == FreeMarker(doc) IN
       /\ ~IsEmpty(r)
       /\ Move([MarkText(doc, m, From(r), To(r)) EXCEPT !.composing = {m}, !.where = m :> [from |-> From(r), to |-> To(r)]])
EndComposition ==
    /\ doc.composing # {}
    /\ LET m == CHOOSE k \in doc.composing : TRUE IN
       Move([Cleared(doc, <<m>>) EXCEPT !.composing = {}, !.where = [k \in {} |-> NoRange]])

\* A line turns out to be higher than estimated (updateHeightsInViewport).
Measure ==
    /\ Does("measure")
    /\ \E l \in DOMAIN doc.line : doc.line[l].height = 1 /\ Move(UpdateLineHeight(doc, l, 2))

\* undo, redo, undoSelection and redoSelection
History(type, selOnly) ==
    /\ Counted("undos")
    /\ doc' = Given(Given(MakeChangeFromHistory(doc, type, selOnly), Ended), LAMBDA e : [e EXCEPT !.where = [m \in e.composing |-> Find(e, m)]])
    /\ before' = <<>>
Selecting == IF Does("selection") THEN BOOLEAN ELSE {FALSE}
Undo == \E selOnly \in Selecting : History("undo", selOnly)
Redo == \E selOnly \in Selecting : History("redo", selOnly)

Next == \/ Type \/ Delete \/ ReplaceRange \/ Load
        \/ MoveCursors \/ Click \/ Compose \/ EndComposition \/ Measure
        \/ Undo \/ Redo

Spec == Init /\ [][Next]_vars

-----------------------------------------------------------------------------
(***************************************************************************)
(* Properties.                                                             *)
(***************************************************************************)

\* The texts that an array of the history leads back to, one behind the other.
Unwound(events, t) ==
    LET back(s, e) == IF IsSel(e) THEN s ELSE Append(s, Folded(Replaced, Last(s), Reverse(e.changes)))
    IN  Reverse(Tail(Folded(back, <<t>>, Reverse(events))))

\* Undo and redo are those of a stack of texts.
Stack == INSTANCE UndoStack WITH
            past <- Unwound(doc.done, doc.text), text <- doc.text, future <- Unwound(doc.undone, doc.text)
RefinesUndoStack == Stack!USpec

TypeOK ==
    /\ DOMAIN doc.mark = Range(doc.brackets) \cup doc.composing
    /\ Len(doc.brackets) <= 2 * Len(doc.sel.ranges)
    /\ doc.sel.prim \in DOMAIN doc.sel.ranges
    /\ ~doc.active /\ ~doc.op /\ ~doc.stopped
    /\ \A sort \in DOMAIN count : count[sort] \in 0..session[sort]

\* The tree holds the text that the changes make, whatever the shape it has
\* got by them, and leads from numbers and heights to lines and back.
TreeHoldsText == TreeHolds(doc) /\ Content(doc) = doc.text

\* Selections are in the text, sorted, and do not touch, those in the history
\* in the text they will be shown with.
Fits(sel, t) ==
    /\ \A i \in DOMAIN sel.ranges : {sel.ranges[i].anchor, sel.ranges[i].head} \subseteq Positions(t)
    /\ \A i \in 1..(Len(sel.ranges) - 1) : Before(To(sel.ranges[i]), From(sel.ranges[i + 1]))
FitWhenShown(events) ==
    LET walk(t, i) == IF IsSel(events[i]) THEN t ELSE Folded(Replaced, t, Reverse(events[i].changes))
        at(n) == Folded(walk, doc.text, Reverse([i \in 1..Len(events) - n |-> n + i]))
    IN  \A n \in DOMAIN events : /\ IsSel(events[n]) => Fits(events[n], at(n))
                                 /\ ~IsSel(events[n]) => n > 1 /\ IsSel(events[n - 1])
SelectionsFit == Fits(doc.sel, doc.text) /\ FitWhenShown(doc.done) /\ FitWhenShown(doc.undone)

\* Types, and that tree, selections and history are of one text.
DocumentInv == TypeOK /\ TreeHoldsText /\ SelectionsFit

\* A marked range is where its ends have been moved by the changes, however
\* they cut and joined the spans of its lines, and its spans are one piece.
MarksFollow == MarksHold(doc) /\ \A m \in doc.composing : Find(doc, m) = doc.where[m]

\* Undoing a change brings back the marks that it had cut off.
UndoRestoresMarks ==
    [][ count'.undos > count.undos /\ before # <<>> /\ Depth(doc'.done) < Depth(doc.done) /\ doc'.done # <<>>
        => doc'.where = before[1] ]_vars

\* The characters from p up to q, both left out, open and close the same
\* number of brackets, and never more are closed than opened.
Balanced(t, p, q) ==
    LET between(r) == { s \in Positions(t) : Before(p, s) /\ Before(s, r) /\ s.ch < Len(LineOf(t, s.line)) }
        number(r, set) == Cardinality({ s \in between(r) : LineOf(t, s.line)[s.ch + 1] \in Range(set) })
    IN  /\ number(q, Openers) = number(q, Closers)
        /\ \A r \in between(q) : number(r, Openers) >= number(r, Closers)

\* When the cursor has moved, the marked brackets are one next to it and the
\* one it belongs to, with everything in between closed.
BracketsMatch ==
    [][ doc'.sel # doc.sel =>
        \A i \in DOMAIN doc'.brackets :
            LET p == Find(doc', doc'.brackets[i]).from IN
            \/ \E j \in DOMAIN doc'.sel.ranges : BracketAt(doc'.text, doc'.sel.ranges[j].head) = p.ch
                                                   /\ doc'.sel.ranges[j].head.line = p.line
            \/ LET q == Find(doc', doc'.brackets[i - 1]).from
               IN  Balanced(doc'.text, MinPos(p, q), MaxPos(p, q)) ]_vars
=============================================================================
