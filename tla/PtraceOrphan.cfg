SPECIFICATION FairSpec
CONSTANTS
    Tids = {t1, t2}
    Main = t1
    Binaries = {}
    NoTid = NoTid
    NoBinary = NoBinary
    CursorCanFail = FALSE
    Ops = {"kill"}
PROPERTIES
    DeferredGetsHandled
