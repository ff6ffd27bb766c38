SPECIFICATION Spec
CONSTANTS
    p1 = p1
    p2 = p2
    k = k
    Proc = {p1, p2}
    Commands = {"intent", "review", "rule", "derive", "outcome"}
    Verdicts = {"intended", "amend"}
    Options = {k}
    Policies = {2}
    MaxAttacks = 1
    MaxFacts = 6
SYMMETRY Symmetry
INVARIANTS
    ReadyIsCurrent
    OneActiveIntent
    BuildersAccepted
