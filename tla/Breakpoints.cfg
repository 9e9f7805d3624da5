SPECIFICATION MCSpec
CONSTANTS
    b1 = b1
    d1 = d1
    t1 = t1
    t2 = t2
    Tids = {t1, t2}
    First = t1
    NumAddrs = 1
    CodeBps = {b1}
    DataBps = {d1}
    Conditional = {b1}
    Where <- MCWhere
    NumSlots = 1
    StepKinds = {"range", "cursor", "instr"}
    NoTid = NoTid
    Nothing = Nothing
INVARIANTS
    BreakpointsSound
    MCNoBrokenThread
    EnabledGetsHandled
