SPECIFICATION MCBaseSpec
CONSTANTS
    b1 = b1
    d1 = d1
    t1 = t1
    t2 = t2
    Tids = {t1}
    First = t1
    NumAddrs = 1
    CodeBps = {b1}
    DataBps = {}
    Conditional = {b1}
    Where <- MCWhere
    NumSlots = 1
    StepKinds = {"instr"}
    NoTid = NoTid
    Nothing = Nothing
INVARIANTS
    MCNoBrokenThread
