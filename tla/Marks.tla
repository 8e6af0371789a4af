-------------------------------- MODULE Marks --------------------------------
(***************************************************************************)
(* Lines with marked spans (TextMarker).  A marker knows the lines it      *)
(* touches, a line has a span for each marker on it; a span that goes on   *)
(* above or below the line has None for from or to.  A change of the text  *)
(* moves the spans with what they mark; this module says how, and makes a  *)
(* change of the tree of lines (updateDoc).                                *)
(*                                                                         *)
(* Golab marks the matching brackets, and CodeMirror the range of a        *)
(* composition: plain markers, not inclusive, atomic, collapsed, read-only *)
(* or shared, which are the ones modelled.  A document t is a tree of      *)
(* LineTree with the lines of each marker, mark, and the next line id.     *)
(***************************************************************************)
EXTENDS LineTree

Span(m, from, to) == [marker |-> m, from |-> from, to |-> to]

\* getMarkedSpanFor
HasSpan(spans, m) == \E i \in DOMAIN spans : spans[i].marker = m
SpanFor(spans, m) == spans[CHOOSE i \in DOMAIN spans : spans[i].marker = m]

\* The parts of the spans of a line that are in front of a column, and behind.
MarkedSpansBefore(old, ch) ==
    LET s == SelectSeq(old, LAMBDA sp : sp.from = None \/ sp.from < ch) IN
    [i \in DOMAIN s |-> [s[i] EXCEPT !.to = IF @ = None \/ @ > ch THEN None ELSE @]]
MarkedSpansAfter(old, ch) ==
    LET s == SelectSeq(old, LAMBDA sp : sp.to = None \/ sp.to > ch) IN
    [i \in DOMAIN s |-> [s[i] EXCEPT !.from = IF @ = None \/ @ < ch THEN None ELSE @ - ch,
                                     !.to = IF @ = None THEN None ELSE @ - ch]]

ClearEmptySpans(spans) == SelectSeq(spans, LAMBDA sp : sp.from = None \/ sp.from # sp.to)

\* Faulty StretchSpans: what sticks out in front always ends at the change.
StretchSpansCut(t, c) ==
    LET first == MarkedSpansBefore(t.line[GetLine(t, c.from.line)].spans, c.from.ch)
        ends == [i \in DOMAIN first |-> [first[i] EXCEPT !.to = IF @ = None THEN c.from.ch ELSE @]]
    IN  IF c.full THEN [i \in DOMAIN c.text |-> <<>>]
        ELSE [i \in DOMAIN c.text |-> IF i = 1 THEN ClearEmptySpans(ends) ELSE <<>>]

\* The spans before and behind a change: what sticks out on both sides is
\* joined again, and goes across the lines in between.
Stretched(first, last, c) ==
    LET same  == Len(c.text) = 1
        offset == Len(Last(c.text)) + (IF same THEN c.from.ch ELSE 0)
        moved(n) == IF n = None THEN None ELSE n + offset
        end(sp) == IF sp.to # None THEN sp.to
                   ELSE IF ~HasSpan(last, sp.marker) THEN c.from.ch
                   ELSE IF same THEN moved(SpanFor(last, sp.marker).to) ELSE None
        begin(sp) == IF sp.from # None THEN moved(sp.from)
                     ELSE IF HasSpan(first, sp.marker) THEN None ELSE offset
        ends == [i \in DOMAIN first |-> [first[i] EXCEPT !.to = end(first[i])]]
        begins == [i \in DOMAIN last |-> [last[i] EXCEPT !.from = begin(last[i]), !.to = moved(@)]]
        across == SelectSeq(ends, LAMBDA sp : sp.to = None)
    IN  IF same THEN <<ClearEmptySpans(ends \o SelectSeq(begins, LAMBDA sp : sp.from # None))>>
        ELSE [i \in DOMAIN c.text |->
                  IF i = 1 THEN ClearEmptySpans(ends)
                  ELSE IF i = Len(c.text) THEN ClearEmptySpans(begins)
                  ELSE [j \in DOMAIN across |-> Span(across[j].marker, None, None)]]

\* stretchSpansOverChange: the spans of the lines a change leads to, for each
\* line of its text.
StretchSpans(t, c) ==
    IF c.full THEN [i \in DOMAIN c.text |-> <<>>]
    ELSE Given([first |-> MarkedSpansBefore(t.line[GetLine(t, c.from.line)].spans, c.from.ch),
                last |-> MarkedSpansAfter(t.line[GetLine(t, c.to.line)].spans, c.to.ch)],
               LAMBDA w : Stretched(w.first, w.last, c))

\* attachMarkedSpans and detachMarkedSpans
Attached(t, l, spans) ==
    [t EXCEPT !.line[l].spans = spans,
              !.mark = [m \in DOMAIN @ |-> IF HasSpan(spans, m) THEN Append(@[m], l) ELSE @[m]]]
Detached(t, l) ==
    [t EXCEPT !.line[l].spans = <<>>,
              !.mark = [m \in DOMAIN @ |-> IF HasSpan(t.line[l].spans, m) THEN RemoveFirst(@[m], l) ELSE @[m]]]

\* updateLine; the height is estimated anew.
UpdateLine(t, l, text, spans) ==
    LET set(e) == [Attached(e, l, spans) EXCEPT !.line[l].text = text] IN
    UpdateLineHeight(Given(Detached(t, l), set), l, 1)

\* new Line and Doc.insert
Inserted(t, at, texts, spans) ==
    LET ids == [i \in DOMAIN texts |-> t.next + i - 1]
        new == [t EXCEPT !.next = @ + Len(texts),
                         !.line = [l \in DOMAIN @ \cup Range(ids) |->
                                      IF l \in DOMAIN @ THEN @[l]
                                      ELSE [text |-> texts[l - t.next + 1], spans |-> <<>>, height |-> 1, parent |-> None]]]
        attach(e, i) == Attached(e, ids[i], spans[i])
    IN  IF texts = <<>> THEN t
        ELSE Given(Folded(attach, new, [i \in DOMAIN ids |-> i]), LAMBDA e : InsertLines(e, at, ids))

\* Doc.remove, with cleanUpLine
Removed(t, at, n) ==
    IF n = 0 THEN t
    ELSE Given(Folded(Detached, t, SubSeq(Handles(t), at + 1, at + n)), LAMBDA e : RemoveLines(e, at, n))

IsWholeLineUpdate(c) == c.from.ch = 0 /\ c.to.ch = 0 /\ Last(c.text) = <<>>

\* What a change does, when the lines that stay are updated: at a place lines
\* go and others come.
Plan(tree, at, gone, texts, spans) == [tree |-> tree, at |-> at, gone |-> gone, texts |-> texts, spans |-> spans]

\* Which line objects stay, which go and which are new, if first and last are
\* those at the ends of the change.
Planned(t, c, spans, first, last) ==
    LET head  == SubSeq(t.line[first].text, 1, c.from.ch)
        tail  == SubSeq(t.line[last].text, c.to.ch + 1, Len(t.line[last].text))
        n     == Len(c.text)
        nlines == c.to.line - c.from.line
        inner == SubSeq(c.text, 2, n - 1)
        update(l, text, i) == UpdateLine(t, l, text, spans[i])
        join(e) == UpdateLine(e, last, Last(c.text) \o tail, spans[n])
    IN  IF c.full THEN Plan(Inserted(t, 0, c.text, spans), n, t.node[Root].size, <<>>, <<>>)
        ELSE IF IsWholeLineUpdate(c)
        THEN Plan(update(last, t.line[last].text, n), c.from.line, nlines, Front(c.text), Front(spans))
        ELSE IF n = 1
        THEN Plan(update(first, head \o c.text[1] \o tail, 1), c.from.line + 1, nlines, <<>>, <<>>)
        ELSE IF first = last
        THEN Plan(update(first, head \o c.text[1], 1), c.from.line + 1, 0, Append(inner, Last(c.text) \o tail), Tail(spans))
        ELSE Plan(Given(update(first, head \o c.text[1], 1), join), c.from.line + 1, nlines - 1,
                  inner, SubSeq(spans, 2, n - 1))

\* updateDoc
UpdateDoc(t, c, spans) ==
    Given(Given([first |-> GetLine(t, c.from.line), last |-> GetLine(t, c.to.line), spans |-> spans],
                LAMBDA w : Planned(t, c, w.spans, w.first, w.last)),
          LAMBDA p : Given(Removed(p.tree, p.at, p.gone), LAMBDA e : Inserted(e, p.at, p.texts, p.spans)))

-----------------------------------------------------------------------------
\* TextMarker.find: where a marker is, or NoRange.
NoRange == [from |-> Pos(0, 0), to |-> Pos(0, 0)]
Find(t, m) ==
    LET ls == Range(t.mark[m])
        span(l) == SpanFor(t.line[l].spans, m)
        starts == { l \in ls : span(l).from # None }
        stops  == { l \in ls : span(l).to # None }
        at(l, ch) == Pos(LineNo(t, l), ch)
    IN  IF starts = {} \/ stops = {} THEN NoRange
        ELSE [from |-> LET l == CHOOSE k \in starts : TRUE IN at(l, span(l).from),
              to   |-> LET l == CHOOSE k \in stops : TRUE IN at(l, span(l).to)]

\* markText: nothing is attached for an empty range.
MarkText(t, m, from, to) ==
    LET ls == SubSeq(Handles(t), from.line + 1, to.line + 1)
        add(e, i) == [e EXCEPT !.line[ls[i]].spans =
                                   Append(@, Span(m, IF i = 1 THEN from.ch ELSE None,
                                                     IF i = Len(ls) THEN to.ch ELSE None)),
                               !.mark[m] = Append(@, ls[i])]
        new == [t EXCEPT !.mark = (m :> <<>>) @@ @]
    IN  IF Before(from, to) THEN Folded(add, new, [i \in DOMAIN ls |-> i]) ELSE new

\* TextMarker.clear
Clear(t, m) ==
    [t EXCEPT !.line = [l \in DOMAIN @ |-> IF l \in Range(t.mark[m])
                                           THEN [@[l] EXCEPT !.spans = SelectSeq(@, LAMBDA sp : sp.marker # m)]
                                           ELSE @[l]],
              !.mark = [k \in DOMAIN @ \ {m} |-> @[k]]]

-----------------------------------------------------------------------------
\* Markers and lines know each other, and the lines of a marker are one
\* piece of text: it begins on the first, ends on the last and covers the
\* lines in between.
MarksHold(t) ==
    /\ \A l \in DOMAIN t.line : \A i \in DOMAIN t.line[l].spans :
          LET sp == t.line[l].spans[i] IN
          /\ sp.marker \in DOMAIN t.mark /\ l \in Range(t.mark[sp.marker])
          /\ \A j \in DOMAIN t.line[l].spans : t.line[l].spans[j].marker = sp.marker => i = j
          /\ sp.to <= Len(t.line[l].text)
          /\ sp.from # None /\ sp.to # None => sp.from < sp.to
    /\ \A m \in DOMAIN t.mark :
          LET ls == t.mark[m]
              nos == { LineNo(t, l) : l \in Range(ls) }
              span(n) == SpanFor(t.line[GetLine(t, n)].spans, m)
          IN  /\ Range(ls) \subseteq DOMAIN t.line /\ IsInjective(ls)
              /\ \A l \in Range(ls) : HasSpan(t.line[l].spans, m)
              /\ \A n \in nos : /\ span(n).from = None <=> n - 1 \in nos
                                /\ span(n).to = None <=> n + 1 \in nos
                                /\ \A k \in nos : \A j \in k..n : j \in nos
=============================================================================
