------------------------------- MODULE Lists -------------------------------
(* Sequences, and a fold from the left whose intermediate results are      *)
(* bound, so that each of them is evaluated only once.                     *)
EXTENDS Integers, SequencesExt

\* op(x), with x evaluated once.
Given(x, op(_)) == CHOOSE r \in { op(a) : a \in {x} } : TRUE

Folded(op(_, _), base, s) ==
    LET f[i \in 0..Len(s)] ==
            IF i = 0 THEN base ELSE CHOOSE r \in { op(a, s[i]) : a \in {f[i - 1]} } : TRUE
    IN  f[Len(s)]
=============================================================================
