SPECIFICATION Spec
CONSTANTS
    Tids = {1, 2}
    Addrs = {1}
    MaxWire = 2
    Ops = {"loading", "close", "quit", "reject", "watch", "timeout"}
INVARIANTS
    BeliefSound
    RemoteAgrees
PROPERTIES
    EventuallyArmed
