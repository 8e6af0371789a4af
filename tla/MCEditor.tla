------------------------------ MODULE MCEditor ------------------------------
(* Instances of Editor: a short text with a tab and a carriage return.     *)
EXTENDS Editor
MCLetters == <<"p", "q", "r", "s">>
MCStart == <<"t", "n", "b">>
MCPastes == { <<<<"u">>, <<"v">>>>, <<<<"t", "v">>>> }
MCOnePaste == { <<<<"u">>>> }
=============================================================================
