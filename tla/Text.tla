-------------------------------- MODULE Text --------------------------------
(***************************************************************************)
(* The text of a CodeMirror document and the changes made to it, without   *)
(* the tree its lines are kept in (LineTree).  A text is a sequence of     *)
(* lines, a line a sequence of characters; lines and columns of a position *)
(* count from 0, as in the code.  A change replaces what is between from   *)
(* and to by the lines of its text.                                        *)
(***************************************************************************)
EXTENDS Lists

Pos(line, ch) == [line |-> line, ch |-> ch]

\* cmp(p, q) < 0
Before(p, q) == p.line < q.line \/ (p.line = q.line /\ p.ch < q.ch)
UpTo(p, q) == ~Before(q, p)
MinPos(p, q) == IF Before(p, q) THEN p ELSE q
MaxPos(p, q) == IF Before(p, q) THEN q ELSE p

LineOf(t, n) == t[n + 1]
LastLine(t) == Len(t) - 1
LastPos(t) == Pos(LastLine(t), Len(Last(t)))
Positions(t) == UNION { { Pos(n, ch) : ch \in 0..Len(LineOf(t, n)) } : n \in 0..LastLine(t) }

\* clipPos: the nearest position that exists.
ClipPos(t, p) ==
    IF p.line < 0 THEN Pos(0, 0)
    ELSE IF p.line > LastLine(t) THEN LastPos(t)
    ELSE Pos(p.line, IF p.ch > Len(LineOf(t, p.line)) THEN Len(LineOf(t, p.line))
                     ELSE IF p.ch < 0 THEN 0 ELSE p.ch)

\* getBetween: the text from one position to another, as lines.
GetBetween(t, from, to) ==
    [ i \in 1..(to.line - from.line + 1) |->
        LET line == LineOf(t, from.line + i - 1) IN
        SubSeq(line, IF i = 1 THEN from.ch + 1 ELSE 1,
                     IF from.line + i - 1 = to.line THEN to.ch ELSE Len(line)) ]

\* Where a change ends in the text it leads to.
ChangeEnd(c) ==
    Pos(c.from.line + Len(c.text) - 1,
        Len(Last(c.text)) + (IF Len(c.text) = 1 THEN c.from.ch ELSE 0))

\* The position in the text after change c of what was at p before.
AdjustForChange(p, c) ==
    IF Before(p, c.from) THEN p
    ELSE IF UpTo(p, c.to) THEN ChangeEnd(c)
    ELSE Pos(p.line + Len(c.text) - (c.to.line - c.from.line) - 1,
             p.ch + (IF p.line = c.to.line THEN ChangeEnd(c).ch - c.to.ch ELSE 0))

\* The text change c leads to (what updateDoc does, seen from outside).
Replaced(t, c) ==
    LET head == SubSeq(LineOf(t, c.from.line), 1, c.from.ch)
        end  == LineOf(t, c.to.line)
        tail == SubSeq(end, c.to.ch + 1, Len(end))
        n    == Len(c.text)
        new  == [ i \in 1..n |-> (IF i = 1 THEN head ELSE <<>>) \o c.text[i]
                                 \o (IF i = n THEN tail ELSE <<>>) ]
    IN  SubSeq(t, 1, c.from.line) \o new \o SubSeq(t, c.to.line + 2, Len(t))

\* historyChangeFromChange: the change that takes change c of text t back.
Inverted(t, c) == [from |-> c.from, to |-> ChangeEnd(c), text |-> GetBetween(t, c.from, c.to)]

\* makeChangeInner leaves a change alone that has nothing to do.
IsEmptyChange(c) == c.text = << <<>> >> /\ c.from = c.to

\* What is joined by getValue: the lines with the character nl between them.
Joined(t, nl) == Folded(LAMBDA s, line : s \o <<nl>> \o line, Head(t), Tail(t))
=============================================================================
