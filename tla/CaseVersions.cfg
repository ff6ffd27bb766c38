SPECIFICATION Spec
CONSTANTS
    p1 = p1
    p2 = p2
    k = k
    Proc = {p1, p2}
    Commands = {"intent", "migrate"}
    Verdicts = {"intended"}
    Options = {}
    Policies = {2}
    MaxAttacks = 1
    MaxFacts = 4
SYMMETRY Symmetry
INVARIANTS
    NewFactsAreV2
