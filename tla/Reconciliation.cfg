CONSTANTS
    Ids = {c1, c2}
    Workers = {w1, w2}
    Lease = 2
    Delays = {0, 2}
    Limit = 2
    MaxAttempts = 1
    Nil = Nil
SPECIFICATION QueueSpec
INVARIANTS
    DueIsExact
PROPERTIES
    LiveLeaseIsRespected
    NeverForgotten
