SPECIFICATION Spec
CONSTANTS
    k1 = k1
    k2 = k2
    h1 = h1
    h2 = h2
    h3 = h3
    None = None
    Names = {k1, k2}
    Accounts = {k1, k2}
    Hashes = {h1, h2, h3}
    Routes = {"any", "narrow"}
    Unrestricted = "any"
    FileHash <- OneFileKey
    Procs = {1, 2}
    LedgerEnabled = TRUE
    MaxVersion = 1
PROPERTY RevocationIsPermanent
