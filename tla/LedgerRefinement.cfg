SPECIFICATION FairSpec
CONSTANTS
    p1 = p1
    p2 = p2
    b1 = b1
    b2 = b2
    Proc = {p1, p2}
    Batch = {b1, b2}
    BatchLen = 3
    LineEnds = {2, 3}
    NoBatch = NoBatch
    Omitted = Omitted
    NoProc = NoProc
    Faults = {"kill", "io", "power"}
    MaxFaults = 2
INVARIANTS
    LedgerRecoverable
PROPERTIES
    LockReleased
    ImplementsAtomicLog
