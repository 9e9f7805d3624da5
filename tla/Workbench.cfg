SPECIFICATION MCSpec
CONSTANTS
    Tids = {1, 2, 3}
    MaxWrites = 2
    Ops = {}
CHECK_DEADLOCK FALSE
INVARIANTS
    WindowsFollow
    Stepping
    ValuesExact
    DebugInfo
    CoreDumperRight
