------------------------------- MODULE MCView -------------------------------
EXTENDS View
MCStart == << <<"x">>, <<"x">>, <<"open">>, <<"close", "x">>, <<"tab", "x">>, <<>> >>
Cut == << <<>> >>
Open == << <<"open">> >>
Close == << <<"x", "close">> >>
Raw == << <<"backquote">> >>
Return == << <<>>, <<>> >>
Lines == << <<"x">>, <<"x">>, <<>> >>
Limits(kinds, edits, moves, span, texts) ==
    [kinds |-> kinds, edits |-> edits, moves |-> moves, span |-> span, texts |-> texts]
MCSessions == {
    Limits({"type"}, 1, 0, 2, {Cut, Open, Close, Raw, Return, Lines}),
    Limits({"remote", "scroll"}, 1, 2, 0, {Open}),
    Limits({"remote", "scroll"}, 1, 1, 0, {Lines}),
    Limits({"remote", "scroll"}, 1, 1, 5, {Cut}),
    Limits({"remote"}, 2, 0, 1, {Cut, Open}),
    Limits({"remote", "log"}, 1, 3, 2, {Cut, Open, Lines}),
    Limits({"undo"}, 1, 0, 1, {}),
    Limits({"type", "cursor"}, 1, 1, 1, {Close, Return}) }
=============================================================================
