CONSTANTS
    p1 = p1
    p2 = p2
    Procs = {p1, p2}
    NoProc = NoProc
    Ttl = 2
    Safety = 1
    MaxTime = 3
    MaxWrites = 3
    MaxBackends = 1
SPECIFICATION Spec
SYMMETRY Symmetry
INVARIANTS
    LeaseInv
    WritesFenced
    OwnedUntilDeadline
CHECK_DEADLOCK FALSE
PROPERTIES
    NoLateWrite
    ImplementsFencedLog
