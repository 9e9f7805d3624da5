SPECIFICATION Spec
CONSTANTS
    Tids = {1, 2}
    Addrs = {1}
    MaxWire = 2
    Ops = {"overlap"}
INVARIANTS
    BeliefSound
