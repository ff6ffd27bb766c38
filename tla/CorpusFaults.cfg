SPECIFICATION Spec
CONSTANTS
    r1 = r1
    r2 = r2
    q1 = q1
    u1 = u1
    u2 = u2
    v1 = v1
    v2 = v2
    t1 = t1
    t2 = t2
    old = old
    new = new
    Release = {r1, r2}
    Reader = {q1}
    None = None
    PublicPath = {u1, u2}
    PrivatePath = {v1, v2}
    Task <- SmallTasks
    Strata <- OneStratum
    Corpora <- SmallCorpora
    CorpusPolicy <- TwoTasks
    SplitPolicy <- OneHeld
    Faults = {"log", "publish", "undo", "kill", "power"}
    MaxFaults = 2
SYMMETRY Symmetry
CHECK_DEADLOCK FALSE
INVARIANTS
    TypeOK
    PublicHasPrivate
    FailedLeavesNothing
    ReturnedIsListed
    ReadsLogged
PROPERTIES
    NeverOverwritten
