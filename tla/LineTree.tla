------------------------------ MODULE LineTree ------------------------------
(***************************************************************************)
(* The tree in which a CodeMirror document keeps its lines: leaves with    *)
(* lines, branches with chunks (leaves or branches), everything linked     *)
(* both ways; the root is a branch and the document itself.  The code uses *)
(* it to get from a line number to a line object and back, and from a      *)
(* height in the page to a line.  A tree is a record                       *)
(*   node : chunks by id, line : line objects by id, lines : the next id   *)
(* and the operators give the tree that the method of the same name        *)
(* leaves.  A removed line, and a chunk that is no longer linked, is       *)
(* forgotten; the ids of chunks are used again, those of lines are not.    *)
(***************************************************************************)
EXTENDS Text

CONSTANTS
    LeafMax,        \* lines in a leaf before it is cut up (50),
    SliceLength,    \* into pieces of this length (25)
    CollapseBelow,  \* a branch with fewer lines becomes one leaf (25)
    BranchMax,      \* children of a branch (10)
    SpillSize       \* how many of them go to a new sibling (5)

ASSUME TreeAssumption ==
    /\ { LeafMax, SliceLength, CollapseBelow, BranchMax, SpillSize } \subseteq Nat \ {0}
    /\ 2 * SliceLength <= LeafMax /\ CollapseBelow <= LeafMax + 1
    /\ SpillSize < BranchMax /\ BranchMax >= 2

None == -1
Root == 0

IndexOf(s, x) == CHOOSE i \in DOMAIN s : s[i] = x

Kids(t, n) == t.node[n].kids
IsLeaf(t, n) == t.node[n].leaf
ChunkSize(t, n) == IF IsLeaf(t, n) THEN Len(Kids(t, n)) ELSE t.node[n].size

SumOver(value(_), s) == Folded(LAMBDA sum, x : sum + value(x), 0, s)
SizeOf(t, chunks) == SumOver(LAMBDA n : ChunkSize(t, n), chunks)
\* The lines of chunk n that are in front of its i-th child, and with it.
Offset(t, n, i) == SizeOf(t, SubSeq(Kids(t, n), 1, i - 1))
Behind(t, n, i) == SizeOf(t, SubSeq(Kids(t, n), 1, i))

\* getLine: from the root downwards.
RECURSIVE LineIn(_, _, _)
LineIn(t, n, at) ==
    IF IsLeaf(t, n) THEN Kids(t, n)[at + 1]
    ELSE LET down(i) == Given(at - Offset(t, n, i), LAMBDA k : LineIn(t, Kids(t, n)[i], k))
         IN  Given(CHOOSE i \in DOMAIN Kids(t, n) : Offset(t, n, i) <= at /\ at < Behind(t, n, i), down)
GetLine(t, no) == LineIn(t, Root, no)

\* lineNo: from a line upwards along the parent links.
RECURSIVE LinesAbove(_, _)
LinesAbove(t, n) ==
    LET p == t.node[n].parent IN
    IF p = None THEN 0 ELSE Offset(t, p, IndexOf(Kids(t, p), n)) + LinesAbove(t, p)
LineNo(t, l) ==
    LET p == t.line[l].parent IN IndexOf(Kids(t, p), l) - 1 + LinesAbove(t, p)

\* lineAtHeight: from the root downwards, by height.
RECURSIVE AtHeight(_, _, _)
AtHeight(t, n, h) ==
    LET high(k) == IF IsLeaf(t, n) THEN t.line[k].height ELSE t.node[k].height
        over(i) == SumOver(high, SubSeq(Kids(t, n), 1, i))
        down(i) == IF IsLeaf(t, n) THEN i - 1
                   ELSE IF i > Len(Kids(t, n)) THEN ChunkSize(t, n)
                   ELSE Offset(t, n, i) + Given(h - over(i - 1), LAMBDA k : AtHeight(t, Kids(t, n)[i], k))
    IN  Given(CHOOSE j \in 1..(Len(Kids(t, n)) + 1) : /\ over(j - 1) <= h
                                                     /\ j \in DOMAIN Kids(t, n) => h < over(j), down)
LineAtHeight(t, h) == AtHeight(t, Root, h)

\* iterN
RECURSIVE LinesIn(_, _)
LinesIn(t, n) == IF IsLeaf(t, n) THEN Kids(t, n)
                 ELSE Folded(LAMBDA s, k : s \o LinesIn(t, k), <<>>, Kids(t, n))
Handles(t) == LinesIn(t, Root)
Content(t) == LET ls == Handles(t) IN [i \in DOMAIN ls |-> t.line[ls[i]].text]

-----------------------------------------------------------------------------
FreeNode(t) == CHOOSE n \in 0..Cardinality(DOMAIN t.node) : n \notin DOMAIN t.node
HeightOf(t, ls) == SumOver(LAMBDA l : t.line[l].height, ls)

\* The constructors; they make the new chunk the parent of what it holds.
WithLeaf(t, n, ls, parent) ==
    [ t EXCEPT !.node = (n :> [leaf |-> TRUE, kids |-> ls, size |-> 0, height |-> HeightOf(t, ls),
                               parent |-> parent]) @@ @,
               !.line = [l \in DOMAIN @ |-> IF l \in Range(ls) THEN [@[l] EXCEPT !.parent = n] ELSE @[l]] ]
WithBranch(t, n, chunks, parent) ==
    LET new == [leaf |-> FALSE, kids |-> chunks, size |-> SizeOf(t, chunks),
                height |-> SumOver(LAMBDA k : t.node[k].height, chunks), parent |-> parent] IN
    [ t EXCEPT !.node = [k \in DOMAIN @ \cup {n} |->
                            IF k = n THEN new
                            ELSE IF k \in Range(chunks) THEN [@[k] EXCEPT !.parent = n] ELSE @[k]] ]

\* updateLineHeight: the difference goes up to the root.
RECURSIVE Heightened(_, _, _)
Heightened(t, n, diff) ==
    IF n = None THEN t
    ELSE Heightened([t EXCEPT !.node[n].height = @ + diff], t.node[n].parent, diff)
UpdateLineHeight(t, l, h) ==
    Heightened([t EXCEPT !.line[l].height = h], t.line[l].parent, h - t.line[l].height)

RECURSIVE Linked(_, _)
Linked(t, n) == {n} \cup IF IsLeaf(t, n) THEN {} ELSE UNION { Linked(t, k) : k \in Range(Kids(t, n)) }
Pruned(t) == [t EXCEPT !.node = [n \in Linked(t, Root) |-> @[n]]]

\* What removing k lines from line at takes from the i-th child of n.
Share(t, n, i, at, k) ==
    Max({0, Min({at + k, Behind(t, n, i)}) - Max({at, Offset(t, n, i)})})

\* A small branch becomes a single leaf.
Collapsed(t, n) ==
    IF t.node[n].size < CollapseBelow /\ (Len(Kids(t, n)) > 1 \/ ~IsLeaf(t, Kids(t, n)[1]))
    THEN LET leaf == FreeNode(t) IN
         WithLeaf([t EXCEPT !.node[n].kids = <<leaf>>], leaf, LinesIn(t, n), n)
    ELSE t

RECURSIVE RemoveInner(_, _, _, _)
RemoveInner(t, n, at, k) ==
    LET kids == Kids(t, n) IN
    IF IsLeaf(t, n)
    THEN [t EXCEPT !.node[n].kids = SubSeq(@, 1, at) \o SubSeq(@, at + k + 1, Len(@)),
                   !.node[n].height = @ - HeightOf(t, SubSeq(kids, at + 1, at + k))]
    ELSE LET take(e, i, share) ==
                 LET lower(f) == [f EXCEPT !.node[n].height = @ - (e.node[kids[i]].height - f.node[kids[i]].height)]
                 IN  IF share = 0 THEN e
                     ELSE Given(RemoveInner(e, kids[i], Max({0, at - Offset(t, n, i)}), share), lower)
             without(e, shares) ==
                 LET gone == { kids[i] : i \in { j \in DOMAIN kids : shares[j] = ChunkSize(t, kids[j]) } } IN
                 [e EXCEPT !.node[n].kids = SelectSeq(@, LAMBDA c : c \notin gone)]
             finish(e) == IF e.node[n].size = 0 THEN e ELSE Collapsed(e, n)
             less == [t EXCEPT !.node[n].size = @ - k]
             remove(shares) == without(Folded(LAMBDA e, i : take(e, i, shares[i]), less, [i \in DOMAIN kids |-> i]), shares)
         IN  Given(Given([i \in DOMAIN kids |-> Share(t, n, i, at, k)], remove), finish)

\* One round of maybeSpill: the last children get a parent of their own.
Spilled(t, me) ==
    LET n == Len(Kids(t, me)) - SpillSize
        keep == SubSeq(Kids(t, me), 1, n)
        off == SubSeq(Kids(t, me), n + 1, n + SpillSize)
        sibling == FreeNode(t)
        parent == t.node[me].parent IN
    IF parent = None
    THEN LET below(e) == LET copy == FreeNode(e) IN
                         [ tree |-> [WithBranch(e, copy, keep, me) EXCEPT !.node[me].kids = <<copy, sibling>>],
                           me   |-> copy ]
         IN  Given(WithBranch(t, sibling, off, me), below)
    ELSE LET beside(e) == [ tree |-> [e EXCEPT !.node[me].kids = keep,
                                               !.node[me].size = @ - e.node[sibling].size,
                                               !.node[me].height = @ - e.node[sibling].height,
                                               !.node[parent].kids = InsertAt(@, IndexOf(@, me) + 1, sibling)],
                            me   |-> me ]
         IN  Given(WithBranch(t, sibling, off, parent), beside)

RECURSIVE MaybeSpill(_, _), SpillOn(_, _)
SpillOn(t, me) ==
    LET on(s) == IF Len(Kids(s.tree, s.me)) > BranchMax THEN SpillOn(s.tree, s.me)
                 ELSE MaybeSpill(s.tree, s.tree.node[s.me].parent)
    IN  Given(Spilled(t, me), on)
MaybeSpill(t, n) == IF Len(Kids(t, n)) <= BranchMax THEN t ELSE SpillOn(t, n)

\* A leaf that has become too long keeps its beginning and is followed by
\* leaves with slices of the rest.
Sliced(t, leaf) ==
    LET all == Kids(t, leaf)
        parent == t.node[leaf].parent
        remaining == (Len(all) % SliceLength) + SliceLength
        slice(e, k) ==
            LET new == FreeNode(e)
                at == remaining + (k - 1) * SliceLength
                hang(f) == [f EXCEPT !.node[leaf].height = @ - f.node[new].height,
                                     !.node[parent].kids = InsertAt(@, IndexOf(@, leaf) + k, new)]
            IN  Given(WithLeaf(e, new, SubSeq(all, at + 1, at + SliceLength), parent), hang)
    IN  [Folded(slice, t, [k \in 1..((Len(all) - remaining) \div SliceLength) |-> k])
            EXCEPT !.node[leaf].kids = SubSeq(@, 1, remaining)]

FirstToReach(t, n, at, i) == at <= Behind(t, n, i) /\ \A m \in 1..(i - 1) : at > Behind(t, n, m)
Split(t, n, child) ==
    IF IsLeaf(t, child) /\ Len(Kids(t, child)) > LeafMax
    THEN Given(Sliced(t, child), LAMBDA e : MaybeSpill(e, n))
    ELSE t

RECURSIVE InsertInner(_, _, _, _)
InsertInner(t, n, at, ls) ==
    IF IsLeaf(t, n)
    THEN [t EXCEPT !.node[n].height = @ + HeightOf(t, ls),
                   !.node[n].kids = SubSeq(@, 1, at) \o ls \o SubSeq(@, at + 1, Len(@)),
                   !.line = [l \in DOMAIN @ |-> IF l \in Range(ls) THEN [@[l] EXCEPT !.parent = n] ELSE @[l]]]
    ELSE Given(CHOOSE i \in DOMAIN Kids(t, n) : FirstToReach(t, n, at, i),
               LAMBDA i : Given([t EXCEPT !.node[n].size = @ + Len(ls), !.node[n].height = @ + HeightOf(t, ls)],
                                LAMBDA e : Given(InsertInner(e, Kids(t, n)[i], at - Offset(t, n, i), ls),
                                                 LAMBDA f : Split(f, n, Kids(t, n)[i]))))

\* Doc.insert and Doc.remove
InsertLines(t, at, ls) == Given(InsertInner(t, Root, at, ls), Pruned)
RemoveLines(t, at, k) ==
    LET gone == Range(SubSeq(Handles(t), at + 1, at + k)) IN
    Given([RemoveInner(t, Root, at, k) EXCEPT !.line = [l \in DOMAIN @ \ gone |-> @[l]]], Pruned)

-----------------------------------------------------------------------------
\* What the links, sizes and heights of a tree have to be.
TreeHolds(t) ==
    LET ls == Handles(t) IN
    /\ DOMAIN t.node = Linked(t, Root)
    /\ Range(ls) = DOMAIN t.line /\ IsInjective(ls)
    /\ t.node[Root].parent = None /\ ~IsLeaf(t, Root)
    /\ \A n \in DOMAIN t.node :
          LET kids == Kids(t, n) IN
          /\ kids # <<>>
          /\ IsLeaf(t, n) =>
                /\ Len(kids) <= LeafMax
                /\ t.node[n].height = HeightOf(t, kids)
                /\ \A l \in Range(kids) : t.line[l].parent = n
          /\ ~IsLeaf(t, n) =>
                /\ Len(kids) <= BranchMax
                /\ t.node[n].size = Len(LinesIn(t, n))
                /\ t.node[n].height = HeightOf(t, LinesIn(t, n))
                /\ \A k \in Range(kids) : t.node[k].parent = n
    /\ \A i \in DOMAIN ls : GetLine(t, i - 1) = ls[i] /\ LineNo(t, ls[i]) = i - 1
    /\ \A h \in 0..(t.node[Root].height - 1) :
          LET no == LineAtHeight(t, h) IN
          HeightOf(t, SubSeq(ls, 1, no)) <= h /\ h < HeightOf(t, SubSeq(ls, 1, no + 1))
=============================================================================
