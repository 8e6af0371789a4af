------------------------------ MODULE Mapping ------------------------------
(***************************************************************************)
(* The class Mapping (mapping.js): the ids of the visible elements, line   *)
(* by line as the editor shows them; the carriage return that ends a line  *)
(* is its last element.  The handlers of operation.js keep it up to date   *)
(* change by change, so that a position of the editor can be turned into   *)
(* an element and back; SeqCRDT.toMapping computes it anew from the list.  *)
(*                                                                         *)
(* Rows are a sequence of sequences of ids.  Lines and columns count from  *)
(* 0, as in the code; an index outside of an array gives NIL.              *)
(***************************************************************************)
EXTENDS ClientList, Lists

CONSTANT RETURN    \* the value of a carriage return

HasRow(rows, line) == line + 1 \in DOMAIN rows
Row(rows, line) == rows[line + 1]
RowLength(rows, line) == Len(Row(rows, line))

Get(rows, line, ch) ==
    IF HasRow(rows, line) /\ ch + 1 \in DOMAIN Row(rows, line) THEN Row(rows, line)[ch + 1] ELSE NIL

\* splice at a column behind the end of the row appends.
Set(rows, line, ch, id) ==
    LET row == Row(rows, line)
        at  == IF ch > Len(row) THEN Len(row) ELSE ch
    IN  [rows EXCEPT ![line + 1] = InsertAt(row, at + 1, id)]

\* insertLine and setLine: the row is cut in two at column ch.
Split(rows, line, ch) ==
    LET row == Row(rows, line) IN
    SubSeq(rows, 1, line) \o <<SubSeq(row, 1, ch), SubSeq(row, ch + 1, Len(row))>>
        \o SubSeq(rows, line + 2, Len(rows))

\* A row has been read that does not exist: a TypeError.
UpdateThrows(rows, line) == line > Len(rows)

\* Faulty Update: a carriage return never cuts a row.
UpdateInRow(rows, line, ch, id, val) ==
    Set(IF HasRow(rows, line) THEN rows ELSE Append(rows, <<>>), line, ch, id)

\* update: a new element at a position.  A carriage return in front of
\* another element takes that and what follows to a row of their own.
Update(rows, line, ch, id, val) ==
    LET all == IF HasRow(rows, line) THEN rows ELSE Append(rows, <<>>)
        cut == IF val = RETURN /\ Get(all, line, ch) # NIL THEN Split(all, line, ch) ELSE all
    IN  Set(cut, line, ch, id)

\* The following row is appended to this one.
Merge(rows, line) ==
    IF HasRow(rows, line + 1)
    THEN SubSeq(rows, 1, line) \o <<Row(rows, line) \o Row(rows, line + 1)>>
         \o SubSeq(rows, line + 3, Len(rows))
    ELSE rows

\* delete: a carriage return takes the following row with it, and a row that
\* has become empty goes.
Delete(rows, line, ch, val) ==
    LET all  == IF val = RETURN THEN Merge(rows, line) ELSE rows
        less == [all EXCEPT ![line + 1] = RemoveAt(@, ch + 1)]
    IN  IF Row(less, line) = <<>> THEN RemoveAt(less, line + 1) ELSE less

\* getPosition
PositionsOf(rows, id) ==
    UNION { { [line |-> i - 1, ch |-> j - 1] : j \in { k \in DOMAIN rows[i] : rows[i][k] = id } }
            : i \in DOMAIN rows }

\* getPreceding: the element in front of a position.
PrecedingIn(rows, line, ch) ==
    IF ch > 0 THEN Get(rows, line, ch - 1)
    ELSE IF line > 0 THEN Get(rows, line - 1, RowLength(rows, line - 1) - 1)
    ELSE NIL
PrecedingThrows(rows, line, ch) == ch = 0 /\ line > 0 /\ ~HasRow(rows, line - 1)

\* getEffectedIDs (operation.js): the elements from one position to another.
\* The walk goes from column to column, at the end of a row to the next one,
\* and stops where there is no element.
EffectedIDs(rows, from, to) ==
    LET Reached(p) == p.line > to.line \/ (p.line = to.line /\ p.ch >= to.ch)
        next(p) == IF Get(rows, p.line, p.ch + 1) # NIL THEN [p EXCEPT !.ch = @ + 1]
                   ELSE [line |-> p.line + 1, ch |-> 0]
        visit(w, k) == LET id == Get(rows, w.at.line, w.at.ch) IN
                       IF id = NIL \/ Reached(w.at) THEN w
                       ELSE [at |-> next(w.at), ids |-> Append(w.ids, id)]
    IN  Folded(visit, [at |-> from, ids |-> <<>>], FlattenSeq(rows)).ids

\* toMapping (crdt.js): the rows of a list; a row begins with the first
\* element and behind every carriage return.
ToRows(d, val) ==
    LET place(rows, id) ==
            IF rows = <<>> \/ val[Last(Last(rows))] = RETURN THEN Append(rows, <<id>>)
            ELSE [rows EXCEPT ![Len(rows)] = Append(@, id)]
    IN  Folded(place, <<>>, ToMapping(d))

\* toSnippet
ToSnippet(rows, val) == LET ids == FlattenSeq(rows) IN [i \in DOMAIN ids |-> val[ids[i]]]
=============================================================================
