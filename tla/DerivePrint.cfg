SPECIFICATION Spec
CONSTANTS
    p1 = p1
    p2 = p2
    t1 = t1
    t2 = t2
    s1 = s1
    s2 = s2
    Proc = {p1, p2}
    NoProc = NoProc
    Responses <- SmallResponses
    Absent = Absent
    Edited = Edited
    MaxLedger = 3
    Faults = {}
    MaxFaults = 0
PROPERTIES
    PrintsCommitted
