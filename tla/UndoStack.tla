------------------------------ MODULE UndoStack ------------------------------
(***************************************************************************)
(* What the history of a document promises: there is a stack of texts one  *)
(* can get back to and a stack of those undone since the last change.      *)
(***************************************************************************)
EXTENDS Sequences, Naturals

VARIABLES past, text, future

\* A change: the text there was can be got back to, unless the change is
\* taken for a part of the latest one.  The oldest texts may be forgotten.
Change ==
    /\ future' = <<>>
    /\ \/ past' = past
       \/ \E k \in 1..(Len(past) + 2) : past' = SubSeq(Append(past, text), k, Len(past) + 1)

Undo ==
    /\ past # <<>>
    /\ text' = past[Len(past)]
    /\ past' = SubSeq(past, 1, Len(past) - 1)
    /\ future' = Append(future, text)

Redo ==
    /\ future # <<>>
    /\ text' = future[Len(future)]
    /\ future' = SubSeq(future, 1, Len(future) - 1)
    /\ past' = Append(past, text)

\* A handler cancels a change that is to be undone or redone: the rest of
\* that stack is forgotten, and what had been changed can be taken back.
RefusedUndo == past # <<>> /\ past' = <<>> /\ future' = Append(future, text)
RefusedRedo == future # <<>> /\ future' = <<>> /\ past' = Append(past, text)

UNext == Change \/ Undo \/ Redo \/ RefusedUndo \/ RefusedRedo
UInit == future = <<>>
USpec == UInit /\ [][UNext]_<<past, text, future>>
=============================================================================
