SPECIFICATION Spec
CONSTANTS
    p1 = p1
    p2 = p2
    k = k
    Proc = {p1, p2}
    Commands = {"intent", "review", "rule", "migrate"}
    Verdicts = {"forbidden", "amend"}
    Options = {}
    Policies = {1, 2}
    MaxAttacks = 2
    MaxFacts = 7
SYMMETRY Symmetry
INVARIANTS
    TypeOK
    RoundsInOrder
    OnlyRootsLag
    BuildersAccepted
