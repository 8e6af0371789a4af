----------------------------- MODULE MCDocument -----------------------------
EXTENDS Document
MCOpeners == <<"(">>
MCClosers == <<")">>
MCStart == << <<"(">>, <<"r", ")">> >>
MCInserts == { << <<>> >>, << <<"(">> >>, << <<>>, <<>> >>, << <<"a">>, <<>>, <<>> >> }
MCValues == { << <<"a">>, <<>> >> }
MCRefused == <<"r">>
Limits(kinds, edits, moves, undos) == [kinds |-> kinds, edits |-> edits, moves |-> moves, undos |-> undos]
MCSessions == {
    Limits({"replace", "around", "compose"}, 2, 2, 1),
    Limits({"start", "around", "add"}, 1, 1, 2),
    Limits({"delete", "select", "selection"}, 1, 2, 1),
    Limits({"delete", "click", "add"}, 1, 2, 1),
    Limits({"end", "load"}, 3, 0, 2),
    Limits({"replace", "measure"}, 1, 1, 2) }
=============================================================================
