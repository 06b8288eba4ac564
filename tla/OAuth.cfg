CONSTANTS
    Requests = {r1, r2}
    MaxTokens = 3
    Nil = Nil
SPECIFICATION TokenSpec
INVARIANTS
    SingleFlight
    WaitersAreServed
PROPERTIES
    TokensMoveForward
    RequestsEnd
