CONSTANTS
    NIL = NIL
    Joined <- MCThree
    Openers = {}
    Deleters = {}
    Opening = 1
    MaxNumber = 2
SPECIFICATION Spec
INVARIANTS
    NeverPanics
    EditorShowsList
CHECK_DEADLOCK FALSE
