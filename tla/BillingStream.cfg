CONSTANTS
    AccessKeys = {k1, k2}
    Consumers = {c1, c2}
    MaxMessages = 2
    MaxCalls = 2
    None = None
SPECIFICATION Spec
INVARIANTS
    PendingIsExact
    NothingIsLost
