SPECIFICATION Spec
CONSTANTS
    Tids = {t1, t2}
    Main = t1
    Binaries = {b1}
    NoTid = NoTid
    NoBinary = NoBinary
    CursorCanFail = FALSE
    Ops = {"TRAP", "BENIGN", "FATAL", "group-stop", "kill", "suspend", "step", "cursor", "breakpoint"}
INVARIANTS
    TypeOK
    QuiescentPatching
    ThreadTableAgrees
    ContractHolds
    HeldThreadsStay
    ControlConsistent
PROPERTIES
    ExitIsFinal
