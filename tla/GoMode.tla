------------------------------- MODULE GoMode -------------------------------
(***************************************************************************)
(* The tokenizer of the editor's Go mode.  A line is a sequence of         *)
(* symbols: a quote, a backquote, a backslash, open and close for the ends  *)
(* of a comment, rest for what makes a comment of the rest of the line, a  *)
(* tab, anything else.  Between two lines the parser is in the code, in a  *)
(* comment or in a string; this is named by the symbol that began it.      *)
(***************************************************************************)
EXTENDS Lists

Quotes == {"quote", "backquote"}
Code == "code"

Kind(tokenize) == IF tokenize = Code THEN "code" ELSE IF tokenize \in Quotes THEN "string" ELSE "comment"

\* One symbol read within a line; escaped: after a backslash in a string.
Read(s, ch) ==
    CASE s.tokenize = Code -> [s EXCEPT !.tokenize = IF ch \in Quotes \cup {"open", "rest"} THEN ch ELSE Code]
      [] s.tokenize = "open" -> [s EXCEPT !.tokenize = IF ch = "close" THEN Code ELSE @]
      [] s.tokenize = "rest" -> s
      [] OTHER -> IF ch = s.tokenize /\ ~s.escaped THEN [s EXCEPT !.tokenize = Code]
                  ELSE [s EXCEPT !.escaped = ~@ /\ ch = "backslash" /\ s.tokenize # "backquote"]

StyleOf(s, ch) == Kind(IF s.tokenize = Code THEN Read(s, ch).tokenize ELSE s.tokenize)

Indentation(text) == Cardinality({ i \in DOMAIN text : \A j \in 1..i : text[j] = "tab" })

ReadNext(p, ch) == [s |-> Read(p.s, ch), styles |-> Append(p.styles, StyleOf(p.s, ch))]
GoesOn(s) == s.escaped \/ s.tokenize \in {"backquote", "open"}

\* What the parser does with a line: the style of every symbol, and the state
\* after it.  It skips the n symbols of space the line begins with, and
\* without more in the line stays in its state; a string between quotes ends
\* with its line unless a backslash does.
ParsedFrom(n, text, tokenize) ==
    Given(Folded(ReadNext, [s |-> [tokenize |-> tokenize, escaped |-> FALSE], styles |-> [i \in 1..n |-> "code"]],
                 SubSeq(text, n + 1, Len(text))),
          LAMBDA p : [styles |-> p.styles,
                      after |-> IF n = Len(text) THEN tokenize ELSE IF GoesOn(p.s) THEN p.s.tokenize ELSE Code])
Parsed(text, tokenize) == ParsedFrom(Indentation(text), text, tokenize)
=============================================================================
