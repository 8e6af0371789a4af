------------------------------ MODULE Elements ------------------------------
(***************************************************************************)
(* The elements of a session (Element in lib/session/session.go) as far as *)
(* the placement rule of the list looks at them, and the rule itself.      *)
(***************************************************************************)
EXTENDS Naturals, Sequences

CONSTANTS
    Ids,        \* Element.ID values
    Clients,    \* Element.ClientID values
    NIL,        \* the empty string, used as a null PrevID, NextID and Head
    ClientOf,   \* the author of each element
    IdGreater   \* { <<a, b>> : strings.Compare(a, b) == 1 }

ASSUME ElementsAssumption ==
    /\ NIL \notin Ids
    /\ ClientOf \in [Ids -> Clients]
    /\ IdGreater \subseteq Ids \X Ids
    /\ \A a \in Ids : <<a, a>> \notin IdGreater

IdOrNil == Ids \cup {NIL}

\* The map with one more entry.
Put(f, k, v) == [x \in DOMAIN f \cup {k} |-> IF x = k THEN v ELSE f[x]]

\* getPrev goes past n when it looks for the place of id: n has the greater
\* id and another author.
Skips(n, id) == <<n, id>> \in IdGreater /\ ClientOf[n] # ClientOf[id]

\* Element id, sent with PrevID = s[p], belongs right after s[i]: everything
\* between is skipped and the element after s[i] is not.
IsPlace(s, p, i, id) ==
    /\ p <= i
    /\ \A j \in (p + 1)..i : Skips(s[j], id)
    /\ i < Len(s) => ~Skips(s[i + 1], id)
=============================================================================
