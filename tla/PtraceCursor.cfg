SPECIFICATION Spec
CONSTANTS
    Tids = {t1, t2}
    Main = t1
    Binaries = {}
    NoTid = NoTid
    NoBinary = NoBinary
    CursorCanFail = TRUE
    Ops = {"cursor"}
INVARIANTS
    SuspendedStopsThreads
