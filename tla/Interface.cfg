SPECIFICATION MCSpec
CONSTANTS
    Values = {v1, v2}
    NoValue = none
    MaxAdds = 4
    Procs = {"p1", "p2"}
    NumDirs = 2
    Versions = {1, 2}
    Configs = {"default", "mine", "bad"}
    MaxEdits = 2
    Tids = {1, 2}
    MaxStops <- StopBounds
    ThreadKeys = {"none", "prev"}
CHECK_DEADLOCK FALSE
INVARIANTS
    LayoutRight
    WidgetsRight
    SessionsSound
    PoolSound
    FocusRight
    TerminalExact
