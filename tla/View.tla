-------------------------------- MODULE View --------------------------------
(***************************************************************************)
(* What the editor shows: of the lines of the document only those around   *)
(* the scroll position are drawn, a cached view of them is patched by each *)
(* operation, and the highlighting behind it is redone by a timer, some    *)
(* lines at a time.  Golab hides the editor while a log is looked at, and  *)
(* goes on editing it.                                                     *)
(*                                                                         *)
(* The editor is one record, ed; an operator gives the editor that the     *)
(* function of the same name leaves.  Numbers of lines count from 0; all   *)
(* lines have the same height, nothing wraps or is folded.                 *)
(***************************************************************************)
EXTENDS Text, GoMode

CONSTANTS
    LineHeight, WindowHeight,
    Margin,     \* lines drawn above and below the window (viewportMargin, 10)
    Keep,       \* lines more that are left drawn (20)
    Lookback,   \* lines in which a saved parser state is looked for (100)
    SaveEvery,  \* the parser state is saved after each n-th line (5)
    Slack,      \* distance from which an edit leaves the frontier alone (10)
    Ahead,      \* lines below the view the worker goes on to (500)
    NumberBase, \* line numbers from here on are wider (10)
    StartText,  \* the text of the session
    Sessions    \* what may be done in a session: kinds of operation, the texts
                \* that are typed, pasted or come from others and, as bounds, how
                \* many edits and moves, and how many lines an edit may span

ASSUME ViewAssumption ==
    /\ {LineHeight, WindowHeight, SaveEvery} \subseteq Nat \ {0}
    /\ {Margin, Keep, Lookback, Slack, Ahead, NumberBase} \subseteq Nat
    /\ SaveEvery < Lookback /\ LineHeight <= WindowHeight

VARIABLES
    ed,      \* the editor
    passed,  \* lines above the view whose old styles the worker went past
    session, \* what may be done in this one,
    count    \* and how much of it has been done

vars == <<ed, passed, session, count>>

Nil == -1           \* no number
None == "none"      \* no parser state
NoStyles == <<"none">>

Does(kind) == kind \in session.kinds
Counted(sort) ==
    /\ count[sort] < session[sort]
    /\ count' = [count EXCEPT ![sort] = @ + 1]
    /\ UNCHANGED session

Size(e) == Len(e.lines)
LineAt(e, n) == e.lines[n + 1]
Content(e) == [i \in DOMAIN e.lines |-> e.lines[i].text]
DocHeight(e) == Size(e) * LineHeight
LineAtHeight(e, h) == Min({Max({h, 0}) \div LineHeight, Size(e)})

-----------------------------------------------------------------------------
(***************************************************************************)
(* Highlighting: a line may have styles, and the state of the parser after *)
(* it.  What is saved above highlightFrontier is up to date.               *)
(***************************************************************************)
\* The nearest line to parse from: below a saved state, or else, in the
\* lines looked at, the lowest of those indented least.
FindStartLine(e, n) ==
    LET searched == Max({n - Lookback + 1, 0})..n
        found == { s \in searched : s = 0 \/ LineAt(e, s - 1).after # None }
        indented(s) == Indentation(LineAt(e, s - 1).text)
    IN  IF found # {} THEN Max(found)
        ELSE Max({ s \in searched : \A t \in searched : indented(s) <= indented(t) }) - 1

InView(e, n) == e.from <= n /\ n < e.to

\* Context.fromSaved: the state that parsing starts from at a line.
FromSaved(e, start) ==
    IF start = 0 \/ LineAt(e, start - 1).after = None THEN Code ELSE LineAt(e, start - 1).after

\* processLine, on the way to line n.
ProcessLine(w, pos, n) ==
    LET keep == pos = n - 1 \/ pos % SaveEvery = 0 \/ InView(w.e, pos) IN
    Given(Parsed(LineAt(w.e, pos).text, w.state).after,
          LAMBDA s : [e |-> [w.e EXCEPT !.lines[pos + 1].after = IF keep THEN s ELSE None], state |-> s])

\* getContextBefore: the state of the parser before line n, and the editor
\* with the states saved on the way.
ContextFrom(e, start, n) ==
    Folded(LAMBDA w, pos : ProcessLine(w, pos, n), [e |-> e, state |-> FromSaved(e, start)],
           [i \in 1..(n - start) |-> start + i - 1])
ContextBefore(e, n) == Given(FindStartLine(e, n), LAMBDA start : ContextFrom(e, start, n))

Styled(e, n, p, frontier) ==
    [e EXCEPT !.lines[n + 1].styles = p.styles, !.lines[n + 1].after = p.after, !.highlightFrontier = frontier]

\* Faulty LineStyles: the frontier follows whatever line is drawn.
LineStylesAnywhere(e, n, allowFrontierUpdate) ==
    Given(ContextBefore(e, n),
          LAMBDA w : Given(Parsed(LineAt(w.e, n).text, w.state), LAMBDA p : Styled(w.e, n, p,
                            IF allowFrontierUpdate THEN Max({w.e.highlightFrontier, n + 1}) ELSE w.e.highlightFrontier)))

\* getLineStyles: line n with its styles.  If it is the first line below the
\* frontier, the frontier moves on.
LineStyles(e, n, allowFrontierUpdate) ==
    IF LineAt(e, n).styles # NoStyles THEN e
    ELSE Given(ContextBefore(e, n),
               LAMBDA w : Given(Parsed(LineAt(w.e, n).text, w.state), LAMBDA p : Styled(w.e, n, p,
                                 IF allowFrontierUpdate /\ e.highlightFrontier = n THEN n + 1 ELSE e.highlightFrontier)))

RetreatFrontier(e, n) ==
    LET saved == { line \in 1..(n - 1) : LineAt(e, line).after # None }
        start == IF saved = {} THEN 0 ELSE Max(saved) + 1
    IN  IF e.highlightFrontier < n - Slack THEN e ELSE [e EXCEPT !.highlightFrontier = Min({@, start})]

\* Faulty StartWorker: what is below the top of the view is not redone.
StartWorkerAbove(e) == IF e.highlightFrontier < e.from THEN [e EXCEPT !.timer = TRUE] ELSE e

StartWorker(e) == IF e.highlightFrontier < e.to THEN [e EXCEPT !.timer = TRUE] ELSE e

-----------------------------------------------------------------------------
(***************************************************************************)
(* The view: an item for each line from viewFrom up to viewTo, with the    *)
(* node that shows it (0 before it is drawn) and whether that is outdated. *)
(***************************************************************************)
LineView(e, n) == [line |-> LineAt(e, n).id, node |-> 0, changed |-> FALSE]
BuildViewArray(e, from, to) == [i \in 1..(to - from) |-> LineView(e, from + i - 1)]

ResetView(e) == [e EXCEPT !.view = <<>>, !.from = 0, !.to = 0, !.rendered = FALSE]

\* The view is cut or moved as line from and what follows up to line to have
\* changed, and are diff lines more.
ChangedView(e, from, to, diff) ==
    LET upTo(n) == SubSeq(e.view, 1, n - e.from)
        since(n) == SubSeq(e.view, n - e.from + 1, Len(e.view))
    IN  IF from >= e.to THEN e
        ELSE IF to <= e.from THEN [e EXCEPT !.from = @ + diff, !.to = @ + diff]
        ELSE IF from <= e.from /\ to >= e.to THEN ResetView(e)
        ELSE [e EXCEPT !.rendered = FALSE,
                       !.view = IF from <= e.from THEN since(to)
                                ELSE IF to >= e.to THEN upTo(from)
                                ELSE upTo(from) \o BuildViewArray(e, from, to + diff) \o since(to),
                       !.from = IF from <= e.from THEN to + diff ELSE @,
                       !.to = IF to >= e.to /\ from > e.from THEN from ELSE @ + diff]

\* regChange.  ext is a line that was drawn elsewhere in order to measure it.
RegChange(e, from, to, diff) ==
    LET renumber == diff # 0 /\ to < e.to /\ (e.numbers = Nil \/ e.numbers > from)
        ext == IF e.ext = <<>> THEN <<>>
               ELSE IF to < e.ext[1].n THEN << [e.ext[1] EXCEPT !.n = @ + diff] >>
               ELSE IF from <= e.ext[1].n THEN <<>>
               ELSE e.ext
    IN  [ChangedView(e, from, to, diff) EXCEPT !.numbers = IF renumber THEN from ELSE @,
                                               !.ext = ext, !.op.viewChanged = TRUE]

RegLineChange(e, n) ==
    LET ext == IF e.ext # <<>> /\ e.ext[1].n = n THEN <<>> ELSE e.ext
        v == [e EXCEPT !.ext = ext, !.op.viewChanged = TRUE]
    IN  IF ~InView(e, n) \/ e.view[n - e.from + 1].node = 0 THEN v
        ELSE [v EXCEPT !.view[n - e.from + 1].changed = TRUE]

AdjustView(e, from, to) ==
    [e EXCEPT !.view = [i \in 1..(to - from) |-> LET n == from + i - 1 IN
                                                 IF InView(e, n) THEN e.view[n - e.from + 1] ELSE LineView(e, n)],
              !.from = from, !.to = to,
              !.rendered = @ /\ e.view # <<>> /\ from = e.from /\ to = e.to]

\* getLineContent: the content of line n is built, or taken from where it has
\* been measured.
LineContent(e, n) ==
    IF e.ext # <<>> /\ e.ext[1].line = LineAt(e, n).id
    THEN [e |-> [e EXCEPT !.ext = <<>>], text |-> e.ext[1].text, styles |-> e.ext[1].styles]
    ELSE Given(LineStyles(e, n, TRUE),
               LAMBDA s : [e |-> s, text |-> LineAt(s, n).text, styles |-> LineAt(s, n).styles])

\* patchDisplay: what is drawn becomes the nodes of the items.  The i-th item
\* keeps its node, unless it has none, and the node its content, unless that
\* is outdated.
NodeOf(e, id) == CHOOSE d \in Range(e.dom) : d.id = id
Renumbered(e, n) == e.numbers # Nil /\ e.numbers <= n
FreshNode(old, new) ==
    Min((1..(Len(old) + Len(new) + 1)) \ ({ d.id : d \in Range(old) } \cup { d.id : d \in Range(new) }))
NodeFor(e, dom, v, n, content) ==
    [id |-> IF v.node = 0 THEN FreshNode(e.dom, dom) ELSE v.node, text |-> content.text, styles |-> content.styles,
     number |-> IF v.node = 0 \/ Renumbered(e, n) THEN n ELSE NodeOf(e, v.node).number]
Patched(w, v, n) ==
    IF v.node = 0 \/ v.changed
    THEN Given(LineContent(w.e, n), LAMBDA c : [e |-> c.e, dom |-> Append(w.dom, NodeFor(c.e, w.dom, v, n, c))])
    ELSE [w EXCEPT !.dom = Append(@, [NodeOf(w.e, v.node) EXCEPT !.number = IF Renumbered(w.e, n) THEN n ELSE @])]
Redrawn(e, dom) ==
    [e EXCEPT !.dom = dom, !.view = [i \in DOMAIN @ |-> [@[i] EXCEPT !.node = dom[i].id, !.changed = FALSE]]]
PatchDisplay(e) ==
    Given(Folded(LAMBDA w, i : Patched(w, e.view[i], e.from + i - 1), [e |-> e, dom |-> <<>>], [i \in DOMAIN e.view |-> i]),
          LAMBDA w : Redrawn(w.e, w.dom))

-----------------------------------------------------------------------------
(***************************************************************************)
(* Bringing what is drawn up to date, and scrolling.  A hidden editor has  *)
(* no size and is not scrolled.                                            *)
(***************************************************************************)
\* visibleLines, for a scroll position or, with ensure, for one that shows
\* that line.
VisibleLines(e, top, ensure) ==
    LET at == Max({IF top = Nil THEN e.scroller ELSE top, 0})
        from == LineAtHeight(e, at)
        to == LineAtHeight(e, at + WindowHeight)
        v == IF ensure = Nil \/ (ensure >= from /\ Min({ensure, Size(e) - 1}) < to) THEN [from |-> from, to |-> to]
             ELSE IF ensure < from
             THEN [from |-> ensure, to |-> LineAtHeight(e, ensure * LineHeight + WindowHeight)]
             ELSE [from |-> LineAtHeight(e, ensure * LineHeight - WindowHeight), to |-> ensure]
    IN  [v EXCEPT !.to = Max({@, v.from + 1})]

Covers(e, visible) == e.from <= visible.from /\ visible.to <= e.to
IsDirty(e) == \E i \in DOMAIN e.view : e.view[i].node = 0 \/ e.view[i].changed
UpToDate(e) == e.rendered /\ ~IsDirty(e) /\ (e.numbers = Nil \/ e.numbers >= e.to)
NumberChars(e) == IF Size(e) < NumberBase THEN 1 ELSE 2

\* The lines to draw: those visible and a margin, and no less than is drawn if
\* that is little more.
Port(e, visible) ==
    LET from == Max({visible.from - Margin, 0})
        to == Min({Size(e), visible.to + Margin})
    IN  [from |-> IF e.from < from /\ from - e.from < Keep THEN e.from ELSE from,
         to |-> IF e.to > to /\ e.to - to < Keep THEN Min({Size(e), e.to}) ELSE to]
Sized(e) == IF NumberChars(e) = e.numberChars THEN e ELSE [ResetView(e) EXCEPT !.numberChars = NumberChars(e)]
Redraw(e, different) ==
    Given(PatchDisplay(e),
          LAMBDA d : Given([d EXCEPT !.rendered = TRUE, !.numbers = Nil],
                           LAMBDA f : [e |-> IF different THEN StartWorker(f) ELSE f, updated |-> TRUE]))
Adjusted(e, port, force) ==
    LET different == port.from # e.from \/ port.to # e.to IN
    Given(AdjustView(e, port.from, port.to),
          LAMBDA a : IF ~different /\ ~force /\ UpToDate(a) THEN [e |-> a, updated |-> FALSE] ELSE Redraw(a, different))
UpdateDisplayIfNeeded(e, visible, force) ==
    IF e.hidden THEN [e |-> ResetView(e), updated |-> FALSE]
    ELSE IF ~force /\ Covers(e, visible) /\ UpToDate(e) THEN [e |-> e, updated |-> FALSE]
    ELSE Given(Sized(e), LAMBDA s : Given(Port(s, visible), LAMBDA port : Adjusted(s, port, force)))

\* The scroller gets the height of the document; it is never scrolled beyond.
MaxScroll(e) == IF e.hidden THEN 0 ELSE Max({e.sizer - WindowHeight, 0})
SetDocumentHeight(e) ==
    LET s == [e EXCEPT !.sizer = DocHeight(e)] IN [s EXCEPT !.scroller = Min({@, MaxScroll(s)})]

\* Faulty PostUpdateDisplay: what was visible before the update is taken for
\* what is visible after it.
PostUpdateOnce(e, top, ensure) == e

\* postUpdateDisplay: once more, if what is visible now is not drawn.  As all
\* lines have the height they were taken to have, that is enough.
Covering(e, visible) ==
    IF Covers(e, visible) THEN e
    ELSE Given(UpdateDisplayIfNeeded(e, visible, FALSE), LAMBDA u : IF u.updated THEN SetDocumentHeight(u.e) ELSE u.e)
PostUpdateDisplay(e, top, ensure) ==
    Given(IF top = Nil THEN VisibleLines(e, Nil, ensure)
          ELSE VisibleLines(e, Min({DocHeight(e) - WindowHeight, top}), Nil), LAMBDA visible : Covering(e, visible))

SetScrollTop(e, val, force) ==
    LET v == Min({MaxScroll(e), val}) IN
    IF e.scroller = v /\ ~force THEN e
    ELSE [e EXCEPT !.top = v, !.scroller = Max({Min({v, MaxScroll(e)}), 0})]

UpdateDisplaySimple(e, top) ==
    Given(Given(VisibleLines(e, top, Nil), LAMBDA visible : UpdateDisplayIfNeeded(e, visible, FALSE)),
          LAMBDA u : IF u.updated THEN Given(PostUpdateDisplay(u.e, top, Nil), SetDocumentHeight) ELSE u.e)

UpdateScrollTop(e, val) ==
    IF val = e.top THEN e
    ELSE Given(UpdateDisplaySimple(e, val), LAMBDA u : Given(SetScrollTop(u, val, TRUE), StartWorker))

\* scrollPosIntoView with calculateScrollPos, for a position in line n.
ScrollIntoView(e, n) ==
    LET top == n * LineHeight
        bottom == top + LineHeight
        docBottom == DocHeight(e)
        newTop == Min({top, (IF bottom > docBottom - LineHeight THEN docBottom ELSE bottom) - WindowHeight})
        target == IF top < e.scroller THEN (IF top < LineHeight THEN 0 ELSE top)
                  ELSE IF bottom > e.scroller + WindowHeight /\ newTop # e.scroller THEN newTop
                  ELSE Nil
    IN  IF target = Nil THEN e ELSE UpdateScrollTop(e, target)

-----------------------------------------------------------------------------
(***************************************************************************)
(* The longest line: it gives the text its width, by being measured.       *)
(***************************************************************************)
Lengths(e) == { Len(e.lines[i].text) : i \in DOMAIN e.lines }
FindMaxLine(e) ==
    LET m == CHOOSE i \in DOMAIN e.lines : /\ Len(e.lines[i].text) = Max(Lengths(e))
                                           /\ \A j \in 1..(i - 1) : Len(e.lines[j].text) < Len(e.lines[i].text)
    IN  [e EXCEPT !.max = e.lines[m].id, !.maxLength = Max(Lengths(e)), !.maxChanged = TRUE]

\* measureChar at the end of the longest line: as it is drawn, or else, if it
\* is not, as it is drawn for that.
Width(e, text) == IF e.hidden THEN 0 ELSE Len(text)
External(e, n) ==
    LET l == LineAt(e, n) IN
    [e EXCEPT !.ext = << [line |-> e.max, n |-> n, text |-> l.text, styles |-> l.styles] >>, !.width = Width(e, l.text)]
MeasuredAt(e, n) ==
    LET drawn == IF InView(e, n) THEN e.view[n - e.from + 1].node ELSE 0
        measured == e.ext # <<>> /\ e.ext[1].n = n
    IN  IF drawn # 0 THEN [e EXCEPT !.width = Width(e, NodeOf(e, drawn).text)]
        ELSE IF measured /\ ~InView(e, n) THEN [e EXCEPT !.width = Width(e, e.ext[1].text)]
        ELSE Given(LineStyles(e, n, FALSE), LAMBDA s : External(s, n))
MeasureMax(e) == MeasuredAt(e, (CHOOSE i \in DOMAIN e.lines : e.lines[i].id = e.max) - 1)

-----------------------------------------------------------------------------
(***************************************************************************)
(* An operation: what it does to the document is noted in op, and what is  *)
(* shown is brought up to date at its end.                                 *)
(***************************************************************************)
NoOp == [viewChanged |-> FALSE, forceUpdate |-> FALSE, updateMaxLine |-> FALSE, scrollTop |-> Nil, scrollToPos |-> Nil]

\* endOperation_R1 to endOperation_finish
R1(e) == [ (IF e.op.updateMaxLine THEN FindMaxLine(e) ELSE e) EXCEPT !.op = NoOp ]
MustUpdate(e, op) == \/ op.viewChanged \/ op.forceUpdate \/ op.scrollTop # Nil
                     \/ op.scrollToPos # Nil /\ ~InView(e, op.scrollToPos)
W1(e, op, must) ==
    IF must THEN Given(VisibleLines(e, op.scrollTop, op.scrollToPos),
                       LAMBDA visible : UpdateDisplayIfNeeded(e, visible, op.forceUpdate))
    ELSE [e |-> e, updated |-> FALSE]
R2(e) == IF e.maxChanged THEN [MeasureMax(e) EXCEPT !.maxChanged = FALSE] ELSE e
W2(e, op, updated) ==
    IF updated THEN Given(SetDocumentHeight(e), LAMBDA f : PostUpdateDisplay(f, op.scrollTop, op.scrollToPos)) ELSE e
Finish(e, op) ==
    Given(IF op.scrollTop = Nil THEN e ELSE SetScrollTop(e, op.scrollTop, FALSE),
          LAMBDA f : IF op.scrollToPos = Nil THEN f ELSE ScrollIntoView(f, op.scrollToPos))
EndOperation(e) ==
    LET op == e.op IN
    Given(Given(R1(e), LAMBDA f : W1(f, op, MustUpdate(e, op))),
          LAMBDA u : Given(Given(Given(R2(u.e), LAMBDA f : W2(f, op, u.updated)), LAMBDA f : Finish(f, op)),
                           LAMBDA f : IF f.hidden THEN f ELSE [f EXCEPT !.top = f.scroller]))
Ended(e) == Given(e, EndOperation)

ScrollTo(e, h) == [e EXCEPT !.op.scrollTop = h]
EnsureVisible(e, n) == [e EXCEPT !.op.scrollToPos = n]

IsWholeLineUpdate(c) == c.from.ch = 0 /\ c.to.ch = 0 /\ Last(c.text) = <<>>

\* The number of the line that becomes the i-th of those of a change, as an
\* object; the others are new.
KeptLine(c, i) ==
    IF c.full THEN Nil
    ELSE IF IsWholeLineUpdate(c) THEN IF i = Len(c.text) THEN c.to.line ELSE Nil
    ELSE IF i = 1 THEN c.from.line
    ELSE IF i = Len(c.text) /\ c.to.line > c.from.line THEN c.to.line
    ELSE Nil

\* updateDoc: the lines after a change; those it touches have no styles.
UpdateDoc(e, c) ==
    LET n == Len(c.text)
        text == Replaced(Content(e), c)
        kept(i) == IF KeptLine(c, i) = Nil THEN Nil ELSE LineAt(e, KeptLine(c, i)).id
        used == { l.id : l \in Range(e.lines) } \cup { v.line : v \in Range(e.view) } \cup { x.line : x \in Range(e.ext) } \cup {e.max}
        free == (1..(Cardinality(used) + n)) \ used
        fresh(i) == CHOOSE k \in free : Cardinality({ j \in free : j <= k }) = i
        line(i) == [id |-> IF kept(i) = Nil THEN fresh(i) ELSE kept(i), text |-> text[c.from.line + i],
                    styles |-> NoStyles, after |-> None]
    IN  [e EXCEPT !.lines = SubSeq(@, 1, c.from.line) \o [i \in 1..n |-> line(i)] \o SubSeq(@, c.to.line + 2, Len(@))]

\* makeChangeSingleDocInEditor
MakeChange(e, c) ==
    LET n == Len(c.text)
        diff == n - (c.to.line - c.from.line) - 1
        hit == \E l \in c.from.line..c.to.line : LineAt(e, l).id = e.max
        longest(u) ==
            LET len(i) == Len(u.lines[i].text)
                new == (c.from.line + 1)..(c.from.line + n)
                m == CHOOSE i \in new : \A j \in new : len(j) < len(i) \/ (len(j) = len(i) /\ i <= j)
            IN  IF len(m) > u.maxLength THEN [u EXCEPT !.max = u.lines[m].id, !.maxLength = len(m), !.maxChanged = TRUE]
                ELSE [u EXCEPT !.op.updateMaxLine = @ \/ hit]
        register(u) ==
            IF c.full THEN RegChange(u, 0, Size(u), 0)
            ELSE IF c.from.line = c.to.line /\ n = 1 /\ ~IsWholeLineUpdate(c) THEN RegLineChange(u, c.from.line)
            ELSE RegChange(u, c.from.line, c.to.line + 1, diff)
        retreat(u) == StartWorker(RetreatFrontier(u, c.from.line))
    IN  IF IsEmptyChange(c) THEN e
        ELSE Given(Given(Given(UpdateDoc(e, c), longest), retreat), register)

Change(from, to, text) == [from |-> from, to |-> to, text |-> text, full |-> FALSE]

SetValue(e, text) ==
    ScrollTo(MakeChange(e, [Change(Pos(0, 0), LastPos(Content(e)), text) EXCEPT !.full = TRUE]), 0)

\* refresh, with clearCaches
DoRefresh(e) ==
    Ended(ScrollTo([RegChange(e, 0, Size(e), 0) EXCEPT !.op.forceUpdate = TRUE, !.maxChanged = TRUE,
                                                              !.numberChars = Nil], e.top))

\* An editor just made, hidden: one empty line.
Blank ==
    [ lines |-> << [id |-> 1, text |-> <<>>, styles |-> NoStyles, after |-> None] >>,
      view |-> <<>>, from |-> 0, to |-> 0, rendered |-> FALSE, numbers |-> Nil, numberChars |-> Nil, dom |-> <<>>, ext |-> <<>>,
      hidden |-> TRUE, top |-> 0, scroller |-> 0, sizer |-> 0,
      max |-> 1, maxLength |-> 0, maxChanged |-> FALSE, width |-> 0,
      highlightFrontier |-> 0, timer |-> FALSE, refreshes |-> 0, op |-> NoOp ]

\* The text is loaded, the editor shown and, half a second later, refreshed.
Reset(e, text) == [Ended(SetValue(e, text)) EXCEPT !.hidden = FALSE, !.refreshes = @ + 1]

-----------------------------------------------------------------------------
(***************************************************************************)
(* The actions.                                                            *)
(***************************************************************************)
\* The lines that the highlighting has to be right for, or may be wrong for
\* because the worker went past them: old styles of lines it did not restyle.
StylesOf(e) == { [id |-> l.id, styles |-> l.styles] : l \in Range(e.lines) }
Show(e, past) ==
    /\ ed' = e
    /\ passed' = { id \in passed \cup past : \E l \in StylesOf(ed') \cap StylesOf(ed) : l.id = id }

Init ==
    /\ session \in Sessions
    /\ count = [edits |-> 0, moves |-> 0]
    /\ passed = {}
    /\ ed = Reset(Blank, StartText)

\* What is typed or comes from others, at the ends of lines and over some of
\* them.
Ends(t) == UNION { {Pos(n, 0), Pos(n, Len(LineOf(t, n)))} : n \in 0..LastLine(t) }
Stretches(t) == { p \in Ends(t) \X Ends(t) : UpTo(p[1], p[2]) /\ p[2].line <= p[1].line + session.span }
Changes(t, texts) == { c \in { Change(p[1], p[2], text) : p \in Stretches(t), text \in texts } : ~IsEmptyChange(c) }

\* An edit of the user; the cursor is scrolled to.
Type ==
    /\ Does("type") /\ ~ed.hidden /\ Counted("edits")
    /\ \E c \in Given(Content(ed), LAMBDA t : Changes(t, session.texts)) :
        Show(Ended(EnsureVisible(MakeChange(ed, c), ChangeEnd(c).line)), {})

\* One of another user's.
Remote ==
    /\ Does("remote") /\ Counted("edits")
    /\ \E c \in Given(Content(ed), LAMBDA t : Changes(t, session.texts)) : Show(Ended(MakeChange(ed, c)), {})

\* Undoing two changes at once, the later in the text first.
Undo ==
    /\ Does("undo") /\ ~ed.hidden /\ Counted("edits")
    /\ \E c, b \in Given(Content(ed), LAMBDA t : Changes(t, { <<<<>>>>, <<<<>>, <<>>>> })) :
        /\ UpTo(b.to, c.from)
        /\ Show(Ended(EnsureVisible(Given(MakeChange(ed, c), LAMBDA e : MakeChange(e, b)), ChangeEnd(b).line)), {})

\* The user scrolls, and the event of it is handled.
Scroll ==
    /\ Does("scroll") /\ ~ed.hidden /\ Counted("moves")
    /\ \E v \in 0..MaxScroll(ed) : v # ed.scroller /\ Show(UpdateScrollTop([ed EXCEPT !.scroller = v], v), {})

\* The cursor is moved to another line.
MoveCursor ==
    /\ Does("cursor") /\ ~ed.hidden /\ Counted("moves")
    /\ \E n \in 0..(Size(ed) - 1) : Show(Ended(EnsureVisible(ed, n)), {})

\* logClicked: a log is shown instead of the editor; or, if it was, the
\* editor again, as reset leaves it.
LogClicked ==
    /\ Does("log") /\ Counted("moves")
    /\ IF ed.hidden THEN Show(Reset(ed, Content(ed)), {}) ELSE Show([ed EXCEPT !.hidden = TRUE, !.scroller = 0], {})

Refresh == ed.refreshes > 0 /\ Show([DoRefresh(ed) EXCEPT !.refreshes = @ - 1], {}) /\ UNCHANGED <<session, count>>

\* highlightWorker, until its time is up before line stop.
Highlighted(e, stop) ==
    LET work(w, n) ==
            LET p == Parsed(LineAt(w.e, n).text, w.state)
                above == n < e.from
                after == IF above /\ n % SaveEvery # 0 THEN None ELSE p.after
            IN  [e |-> [w.e EXCEPT !.lines[n + 1].after = after, !.lines[n + 1].styles = IF above THEN @ ELSE p.styles],
                 state |-> p.after,
                 changed |-> IF above \/ LineAt(w.e, n).styles = p.styles THEN w.changed ELSE Append(w.changed, n),
                 past |-> IF above /\ LineAt(w.e, n).styles \notin {NoStyles, p.styles} THEN w.past \cup {LineAt(w.e, n).id} ELSE w.past]
        begin(c) == [e |-> c.e, state |-> c.state, changed |-> <<>>, past |-> {}]
        from == e.highlightFrontier
    IN  Given(ContextBefore(e, from), LAMBDA c : Folded(work, begin(c), [i \in 1..(stop - from) |-> from + i - 1]))

Work ==
    /\ ed.timer
    /\ LET idle == [ed EXCEPT !.timer = FALSE]
           end == Min({Size(ed), ed.to + Ahead})
           done(w, stop) ==
               LET f == [w.e EXCEPT !.highlightFrontier = stop, !.timer = stop < end] IN
               IF w.changed = <<>> THEN f ELSE Ended(Folded(RegLineChange, f, w.changed))
       IN  IF ed.highlightFrontier >= ed.to THEN Show(idle, {})
           ELSE \E stop \in (ed.highlightFrontier + 1)..end : \E w \in {Highlighted(idle, stop)} : Show(done(w, stop), w.past)
    /\ UNCHANGED <<session, count>>

Next == Type \/ Remote \/ Undo \/ Scroll \/ MoveCursor \/ LogClicked \/ Refresh \/ Work

\* Timers fire.
Spec == Init /\ [][Next]_vars /\ WF_vars(Work) /\ WF_vars(Refresh)

-----------------------------------------------------------------------------
(***************************************************************************)
(* Properties.                                                             *)
(***************************************************************************)
\* What the parser is in after the first n lines.
TrueState(e) ==
    LET state[n \in 0..Size(e)] == IF n = 0 THEN Code ELSE Parsed(e.lines[n].text, state[n - 1]).after IN state

\* At rest: shown, and the refresh after that has been done.
Settled == ~ed.hidden /\ ed.refreshes = 0

\* Between operations lines, view and nodes are well formed, nothing of an
\* operation is left over, and the scroll position is one of the document.
TypeOK ==
    /\ Cardinality({ l.id : l \in Range(ed.lines) }) = Size(ed)
    /\ \A l \in Range(ed.lines) : l.after \in {None, Code, "open"} \cup Quotes
    /\ Len(ed.view) = ed.to - ed.from /\ ed.from >= 0
    /\ Len(ed.ext) <= 1 /\ ed.op = NoOp
    /\ ed.highlightFrontier \in 0..Size(ed)
    /\ ed.scroller \in 0..MaxScroll(ed)
    /\ \E l \in Range(ed.lines) : l.id = ed.max

\* Whatever was inserted, joined or removed above, in or below it, by whom
\* ever, the view (regChange, adjustView) is that of the lines that are there
\* now: a click, or a patch, never reaches another line than it seems to.
ViewFollowsLines ==
    /\ ed.to <= Size(ed)
    /\ \A i \in DOMAIN ed.view : ed.view[i].line = LineAt(ed, ed.from + i - 1).id

\* The nodes that are drawn (patchDisplay) are those of the view, in its order,
\* with the text, the styles and the number that each line has; and all lines
\* that are wholly within the window are drawn, also when the document has
\* become shorter than where it was scrolled to.
ShowsDocument ==
    Settled =>
        /\ Len(ed.dom) = Len(ed.view)
        /\ \A i \in DOMAIN ed.dom :
            LET n == ed.from + i - 1 IN
            /\ ed.dom[i].id = ed.view[i].node
            /\ ed.dom[i].text = LineAt(ed, n).text /\ ed.dom[i].styles = LineAt(ed, n).styles
            /\ ed.dom[i].number = n
        /\ \A n \in 0..(Size(ed) - 1) :
            n * LineHeight >= ed.scroller /\ (n + 1) * LineHeight <= ed.scroller + WindowHeight => InView(ed, n)

\* A parser state saved above highlightFrontier is what the parser is in there,
\* although edits, the worker and the drawing of lines further down all save
\* states: highlighting that starts from it is right.
SavedStatesRight ==
    \A state \in {TrueState(ed)} : \A n \in 0..(ed.highlightFrontier - 1) : LineAt(ed, n).after \in {None, state[n + 1]}

\* The text is as wide as its longest line: which one that is follows every
\* change of it, and it has been measured while it could be seen.
WidthFits == Settled => ed.width = Max(Lengths(ed))

\* Types, and that the view, the nodes and the width are those of the lines.
ViewInv == TypeOK /\ ViewFollowsLines /\ ShowsDocument /\ WidthFits

\* The worker ends with every line that is drawn highlighted as the parser
\* would from the top, but for those it went past above the view.
Highlight ==
    \A state \in {TrueState(ed)} : \A n \in ed.from..(ed.to - 1) :
        LineAt(ed, n).id \in passed \/ LineAt(ed, n).styles = Parsed(LineAt(ed, n).text, state[n]).styles
HighlightedInTheEnd == []<>Highlight
=============================================================================
