CONSTANTS
    NIL = NIL
    RETURN = "n"
    TAB = "t"
    Letters <- MCLetters
    Me = 2
    Other = 1
    Start <- MCStart
    Pastes <- MCPastes
    Commands = {"type", "twice", "enter", "indent", "delete", "paste", "reset", "remote"}
    Gentle = TRUE
    MaxEdits = 2
    MaxCommands = 3
SPECIFICATION FairSpec
INVARIANT EditorInv OthersSeeEditor
PROPERTY CommandEnds
CHECK_DEADLOCK FALSE
