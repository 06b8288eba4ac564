CONSTANTS
    Providers = {p1, p2}
    AutoReload = TRUE
    MaxEdits = 2
    Absent = Absent
    None = None
SPECIFICATION Spec
INVARIANTS
    FailedReloadKeepsTables
PROPERTIES
    ProvidersMoveForward
    SignalsArrive
    EditsArrive
