CONSTANTS
    p1 = p1  p2 = p2  k1 = k1  k2 = k2  m1 = m1
    alice = alice  std = std  secret = secret  Master = Master
    Requests = {r1}
    Providers = {p1, p2}  Models = {m1}  KeyNames = {k1, k2}
    Accounts = {alice}  Policies = {std}  Secrets = {secret, Master}
    Calls <- MCCalls
    RecordTables <- MCRecordTables
    KeyFiles <- MCKeyFiles
    ModelFiles <- MCModelFiles
    Registries <- MCRegistries
    AllowBYOKWithoutK = TRUE
    BillingEnabled = TRUE
    BYOK = BYOK
    None = None
SPECIFICATION Spec
INVARIANTS
    CallsAreGranted
    BindingIsExact
    PolicyHolds
    AccountsAreChecked
