SPECIFICATION Spec
CONSTANTS
    LeafMax = 2
    SliceLength = 1
    CollapseBelow = 3
    BranchMax = 2
    SpillSize = 1
    Openers <- MCOpeners
    Closers <- MCClosers
    StartText <- MCStart
    Inserts <- MCInserts
    Values <- MCValues
    Refused <- MCRefused
    UndoDepth = 6
    Sessions <- MCSessions
INVARIANT DocumentInv MarksFollow
PROPERTY RefinesUndoStack UndoRestoresMarks BracketsMatch
CHECK_DEADLOCK FALSE
