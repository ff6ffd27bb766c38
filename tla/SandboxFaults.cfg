SPECIFICATION Spec
CONSTANTS
    p1 = p1
    p2 = p2
    i1 = i1
    i2 = i2
    Proc = {p1, p2}
    NoProc = NoProc
    Id = {i1, i2}
    NoId = NoId
    Faults = {"write", "git", "gitkill", "kill", "head", "power"}
    MaxFaults = 2
    MaxTouches = 2
SYMMETRY Symmetry
INVARIANTS
    TypeOK
    NothingUnmanaged
    ForcedReapClears
PROPERTIES
    DirtyKept
    ForeignKept
