SPECIFICATION Spec
CONSTANTS
    LineHeight = 2
    WindowHeight = 5
    Margin = 1
    Keep = 2
    Lookback = 3
    SaveEvery = 2
    Slack = 1
    Ahead = 2
    NumberBase = 8
    StartText <- MCStart
    Sessions <- MCSessions
INVARIANT ViewInv SavedStatesRight
PROPERTY HighlightedInTheEnd
CHECK_DEADLOCK FALSE
