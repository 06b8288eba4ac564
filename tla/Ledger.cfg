CONSTANTS
    Accounts = {a1, a2}
    Master = Master
    Ids = {i1, i2, i3}
    Keys = {k1}
    Deltas <- MCDeltas
    Credits = {1}
    Costs = {0, 2}
    MaxCost = 2
    Procs = {p1, p2}
    None = None
SPECIFICATION Spec
SYMMETRY MCSymmetry
INVARIANTS
    TimelinesAreExact
    OverspendIsBounded
PROPERTIES
    ImplementsAccounting
