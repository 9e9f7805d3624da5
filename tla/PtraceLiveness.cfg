SPECIFICATION MCSpec
CONSTANTS
    Tids = {t1, t2}
    Main = t1
    Binaries = {b1}
    NoTid = NoTid
    NoBinary = NoBinary
    CursorCanFail = FALSE
    Ops = {"TRAP", "suspend", "breakpoint"}
PROPERTIES
    SuspendSettles
    BreakpointsGetHandled
    RunningResumes
    KilledProcessEnds
