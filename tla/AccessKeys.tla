----------------------------- MODULE AccessKeys -----------------------------
(***************************************************************************)
(* The Redis access-key store (pkg/controlplane/redis.go) under the admin  *)
(* operations that use it: the service behind the web console              *)
(* (onr-admin/internal/service/service.go) and the command line and the    *)
(* terminal UI (internal/cli/access_key.go, internal/tui/service.go), which *)
(* call the store's client without the service.                            *)
(*                                                                         *)
(* Three Redis structures hold the keys: one JSON record per key name, a   *)
(* hash from secret hash to key name (the index the gateway authenticates  *)
(* with) and a hash from account to the name of its active key.  A Lua     *)
(* script or a MULTI/EXEC pipeline is one atomic action; a Go function     *)
(* that calls Redis several times is several actions of one process, and   *)
(* other processes (other admin requests, other instances) run between     *)
(* them.  Names are trimmed and accounts defaulted before the store sees   *)
(* them (normalizeAccessKeyRecord): an account defaults to the key's name. *)
(***************************************************************************)
EXTENDS Naturals

CONSTANTS
    Names,          \* access-key names
    Accounts,       \* billing accounts; a key's name is its default account
    Hashes,         \* HMACs of secrets: a secret and its hash are one value
    Routes,         \* values of the routing fields (providers and bindings)
    Unrestricted,   \* the routing of a record that names no provider
    FileHash,       \* keys.yaml: name -> hash of its value, for migration
    Procs,          \* concurrent admin operations and gateway lookups
    LedgerEnabled,  \* billing.enabled
    MaxVersion,     \* bound on the version of a record that is modified
    None            \* absent

ASSUME NamesAreAccounts == Names \subseteq Accounts
ASSUME UnrestrictedIsARoute == Unrestricted \in Routes
\* The values of keys.yaml differ from each other.
ASSUME FileKeys ==
    /\ DOMAIN FileHash \subseteq Names
    /\ \A n \in DOMAIN FileHash : FileHash[n] \in Hashes
    /\ \A m, n \in DOMAIN FileHash : FileHash[m] = FileHash[n] => m = n
ASSUME LedgerSwitch == LedgerEnabled \in BOOLEAN
ASSUME VersionBound == MaxVersion \in Nat
ASSUME NoneIsNothing ==
    None \notin Names /\ None \notin Hashes /\ None \notin Accounts

VARIABLES
    record,         \* name -> the stored AccessKeyRecord, or None
    index,          \* secret hash -> name, or None
    accountIndex,   \* account -> name of its active key, or None
    issued,         \* history: the <<hash, name>> pairs handed out
    provisioned,    \* accounts the ledger granted their initial credit
    op              \* what each process is doing

store == <<record, index, accountIndex>>
vars == <<record, index, accountIndex, issued, provisioned, op>>

Status == {"pending", "active", "revoked"}
Provisioning == {"", "pending", "failed", "ready"}

AccessKeyRecord ==
    [hash : Hashes, status : Status, account : Accounts,
     provisioning : Provisioning, routing : Routes, version : Nat]

NoRecord == [hash |-> None]

PCs == {"idle", "createLedger", "createPut", "createFailed", "ensureCheck",
        "provisionLedger", "provisionPut", "revokePut", "rotateWrite",
        "routeCAS", "lookup", "served", "directLedger", "migratePut"}

\* rec is the record the process carries from its read to its write; scoped
\* says that a create was given an account, ensure that it is EnsureAccessKey.
Operation ==
    [pc : PCs, name : Names \cup {None}, rec : AccessKeyRecord \cup {NoRecord},
     hash : Hashes \cup {None}, scoped : BOOLEAN, ensure : BOOLEAN]

Idle == [pc |-> "idle", name |-> None, rec |-> NoRecord, hash |-> None,
         scoped |-> FALSE, ensure |-> FALSE]

Exists(n) == record[n] # NoRecord

\* NewAccessKeySecret: a random secret nobody holds.
FreshMutRepeats(h) == h \in Hashes
Fresh(h) == \A n \in Names : <<h, n>> \notin issued

\* normalizeAccessKeyRecord: without an account the key's name is its account.
AccountOf(n, a) == IF a = None THEN n ELSE a

-----------------------------------------------------------------------------
(* The atomic scripts.                                                      *)

\* putScript: refuse to activate a second key of an account, drop the index
\* entries the previous record of this name owned, store and index the record.
PutAccepted(n, r) ==
    \/ r.status # "active"
    \/ accountIndex[r.account] \in {None, n}

PutIndex(n, r) ==
    [h \in Hashes |->
        IF h = r.hash THEN n
        ELSE IF Exists(n) /\ h = record[n].hash /\ index[h] = n THEN None
        ELSE index[h]]

PutAccountIndexMutKeepsRevoked(n, r) ==
    [a \in Accounts |->
        IF a = r.account /\ r.status = "active" THEN n ELSE accountIndex[a]]

PutAccountIndex(n, r) ==
    [a \in Accounts |->
        IF a = r.account /\ r.status = "active" THEN n
        ELSE IF a = r.account /\ accountIndex[a] = n THEN None
        ELSE IF Exists(n) /\ a = record[n].account /\ a # r.account
                /\ accountIndex[a] = n THEN None
        ELSE accountIndex[a]]

PutAccessKey(n, r) ==
    \/ /\ PutAccepted(n, r)
       /\ record' = [record EXCEPT ![n] = r]
       /\ index' = PutIndex(n, r)
       /\ accountIndex' = PutAccountIndex(n, r)
    \/ ~PutAccepted(n, r) /\ UNCHANGED store

\* createScript
CreateAccepted(n, r) ==
    /\ ~Exists(n)
    /\ index[r.hash] = None
    /\ r.status = "active" => accountIndex[r.account] = None

CreateRecordMutIndexOnly(n, r) ==
    /\ index' = [index EXCEPT ![r.hash] = n]
    /\ UNCHANGED <<record, accountIndex>>

CreateRecord(n, r) ==
    /\ record' = [record EXCEPT ![n] = r]
    /\ index' = [index EXCEPT ![r.hash] = n]
    /\ accountIndex' = IF r.status = "active"
                       THEN [accountIndex EXCEPT ![r.account] = n]
                       ELSE accountIndex

\* ProvisionAccountWithCredit, as its callers see it: success means that the
\* account has its initial credit; an error may hide a call that took effect.
LedgerSucceeds(a) == provisioned' = provisioned \cup {a}
LedgerFails(a) == provisioned' = provisioned \/ provisioned' = provisioned \cup {a}

Goto(p, pc) == op' = [op EXCEPT ![p].pc = pc]
Start(p, pc, n, rec) ==
    op' = [op EXCEPT ![p] = [Idle EXCEPT !.pc = pc, !.name = n, !.rec = rec]]
Finish(p) == op' = [op EXCEPT ![p] = Idle]

\* Where a create that ended (with or without an error) continues.
EndCreate(p) == IF op[p].ensure THEN Goto(p, "ensureCheck") ELSE Finish(p)

-----------------------------------------------------------------------------
Init ==
    /\ record = [n \in Names |-> NoRecord]
    /\ index = [h \in Hashes |-> None]
    /\ accountIndex = [a \in Accounts |-> None]
    /\ issued = {<<FileHash[n], n>> : n \in DOMAIN FileHash}
    /\ provisioned = {}
    /\ op = [p \in Procs |-> Idle]

\* CreateAccessKey up to its createScript, with a secret just generated.  The
\* account is the one asked for, or the default when none was.
Create(p, n, a, route, ensure) ==
    \E h \in Hashes :
        LET r == [hash |-> h, status |-> "pending",
                  account |-> AccountOf(n, a),
                  provisioning |-> "pending", routing |-> route, version |-> 0]
            started == [pc |-> IF LedgerEnabled THEN "createLedger" ELSE "createPut",
                        name |-> n, rec |-> r, hash |-> None,
                        scoped |-> a # None, ensure |-> ensure]
        IN  /\ op[p] = Idle
            /\ Fresh(h)
            /\ CreateAccepted(n, r)
            /\ CreateRecord(n, r)
            /\ issued' = issued \cup {<<h, n>>}
            /\ op' = [op EXCEPT ![p] = started]
            /\ UNCHANGED provisioned

\* EnsureAccessKey on a name that exists by the time it creates: its create is
\* refused and it looks at the record again.
EnsureExisting(p, n) ==
    /\ op[p] = Idle
    /\ Exists(n)
    /\ Start(p, "ensureCheck", n, NoRecord)
    /\ UNCHANGED <<store, issued, provisioned>>

\* The ledger call of CreateAccessKey.  It is given the account asked for, so
\* it is refused when the caller gave none.
CreateLedgerMutIgnoresError(p) ==
    /\ op[p].pc = "createLedger"
    /\ LedgerFails(op[p].rec.account)
    /\ Goto(p, "createPut")
    /\ UNCHANGED <<store, issued>>

CreateLedger(p) ==
    /\ op[p].pc = "createLedger"
    /\ \/ /\ op[p].scoped
          /\ LedgerSucceeds(op[p].rec.account)
          /\ Goto(p, "createPut")
       \/ /\ op[p].scoped
          /\ LedgerFails(op[p].rec.account)
          /\ Goto(p, "createFailed")
       \/ /\ ~op[p].scoped
          /\ UNCHANGED provisioned
          /\ Goto(p, "createFailed")
    /\ UNCHANGED <<store, issued>>

\* The activating PutAccessKey of CreateAccessKey, from the record it built.
CreatePut(p) ==
    /\ op[p].pc = "createPut"
    /\ PutAccessKey(op[p].name, [op[p].rec EXCEPT !.status = "active",
                                                  !.provisioning = "ready"])
    /\ EndCreate(p)
    /\ UNCHANGED <<issued, provisioned>>

\* recordLocalProvisioningFailure
CreateFailed(p) ==
    /\ op[p].pc = "createFailed"
    /\ PutAccessKey(op[p].name, [op[p].rec EXCEPT !.status = "pending",
                                                  !.provisioning = "failed"])
    /\ EndCreate(p)
    /\ UNCHANGED <<issued, provisioned>>

\* ProvisionAccessKey's read; without local billing it changes nothing.
ProvisionMutAnyStatus(p, n) ==
    /\ op[p] = Idle
    /\ LedgerEnabled
    /\ Exists(n)
    /\ Start(p, "provisionLedger", n, record[n])
    /\ UNCHANGED <<store, issued, provisioned>>

Provision(p, n) ==
    /\ op[p] = Idle
    /\ LedgerEnabled
    /\ Exists(n)
    /\ record[n].status = "pending"
    /\ Start(p, "provisionLedger", n, record[n])
    /\ UNCHANGED <<store, issued, provisioned>>

\* EnsureAccessKey after its create: provision a key that is still pending.
EnsureCheck(p) ==
    /\ op[p].pc = "ensureCheck"
    /\ LET n == op[p].name
       IN  \/ /\ Exists(n) /\ record[n].status = "pending" /\ LedgerEnabled
              /\ Start(p, "provisionLedger", n, record[n])
           \/ /\ ~(Exists(n) /\ record[n].status = "pending" /\ LedgerEnabled)
              /\ Finish(p)
    /\ UNCHANGED <<store, issued, provisioned>>

ProvisionLedger(p) ==
    /\ op[p].pc = "provisionLedger"
    /\ \/ LedgerSucceeds(op[p].rec.account) /\ Goto(p, "provisionPut")
       \/ LedgerFails(op[p].rec.account) /\ Finish(p)
    /\ UNCHANGED <<store, issued>>

ProvisionPut(p) ==
    /\ op[p].pc = "provisionPut"
    /\ PutAccessKey(op[p].name, [op[p].rec EXCEPT !.status = "active",
                                                  !.provisioning = "ready"])
    /\ Finish(p)
    /\ UNCHANGED <<issued, provisioned>>

\* RevokeAccessKey: read, then put the record it read with the new status.
Revoke(p, n) ==
    /\ op[p] = Idle
    /\ Exists(n)
    /\ record[n].version < MaxVersion
    /\ Start(p, "revokePut", n, record[n])
    /\ UNCHANGED <<store, issued, provisioned>>

RevokePut(p) ==
    /\ op[p].pc = "revokePut"
    /\ PutAccessKey(op[p].name, [op[p].rec EXCEPT !.status = "revoked",
                                                  !.version = @ + 1])
    /\ Finish(p)
    /\ UNCHANGED <<issued, provisioned>>

\* RotateAccessKey: read, then replace record and index entry in one pipeline.
Rotate(p, n) ==
    /\ op[p] = Idle
    /\ Exists(n)
    /\ record[n].version < MaxVersion
    /\ Start(p, "rotateWrite", n, record[n])
    /\ UNCHANGED <<store, issued, provisioned>>

RotateWriteMutKeepsOldHash(p) ==
    \E h \in Hashes :
        LET n == op[p].name
        IN  /\ op[p].pc = "rotateWrite"
            /\ Fresh(h)
            /\ index' = [index EXCEPT ![h] = n]
            /\ record' = [record EXCEPT ![n] = [op[p].rec EXCEPT !.hash = h,
                                                                 !.version = @ + 1]]
            /\ issued' = issued \cup {<<h, n>>}
            /\ Finish(p)
            /\ UNCHANGED <<accountIndex, provisioned>>

RotateWrite(p) ==
    \E h \in Hashes :
        LET n == op[p].name
            rec == op[p].rec
        IN  /\ op[p].pc = "rotateWrite"
            /\ Fresh(h)
            /\ index' = [index EXCEPT ![rec.hash] = None, ![h] = n]
            /\ record' = [record EXCEPT ![n] = [rec EXCEPT !.hash = h,
                                                           !.version = @ + 1]]
            /\ issued' = issued \cup {<<h, n>>}
            /\ Finish(p)
            /\ UNCHANGED <<accountIndex, provisioned>>

\* Service.UpdateAccessKeyRouting when the caller's expected version is the
\* one it reads; any other version is refused without a change.
UpdateRouting(p, n, route) ==
    /\ op[p] = Idle
    /\ Exists(n)
    /\ record[n].version < MaxVersion
    /\ Start(p, "routeCAS", n, [record[n] EXCEPT !.routing = route])
    /\ UNCHANGED <<store, issued, provisioned>>

\* updateScript compares versions only, and stores the whole record.
RouteCAS(p) ==
    /\ op[p].pc = "routeCAS"
    /\ LET n == op[p].name
       IN  \/ /\ Exists(n) /\ record[n].version = op[p].rec.version
              /\ record' = [record EXCEPT ![n] = [op[p].rec EXCEPT !.version = @ + 1]]
           \/ /\ ~(Exists(n) /\ record[n].version = op[p].rec.version)
              /\ UNCHANGED record
    /\ Finish(p)
    /\ UNCHANGED <<index, accountIndex, issued, provisioned>>

\* The record every migration makes of an entry of keys.yaml.
FileRecord(n) ==
    [hash |-> FileHash[n], status |-> "active", account |-> n,
     provisioning |-> "", routing |-> Unrestricted, version |-> 0]

\* One entry of the service's MigrateAccessKeys: a name the store does not know
\* is created active with the file's secret, and without a ledger account.
Migrate(n) ==
    /\ n \in DOMAIN FileHash
    /\ CreateAccepted(n, FileRecord(n))
    /\ CreateRecord(n, FileRecord(n))
    /\ UNCHANGED <<issued, provisioned, op>>

\* What follows a create of the command line or the terminal UI: a ledger call
\* when billing is on.  It is given the account asked for, and is refused when
\* none was.
ThenProvision(p, n, r, given) ==
    IF LedgerEnabled /\ given THEN Start(p, "directLedger", n, r) ELSE UNCHANGED op

\* "access-key create" and the terminal UI's create: the key is active at once,
\* whatever the ledger call then says.
DirectCreate(p, n, a, route) ==
    \E h \in Hashes :
        LET r == [hash |-> h, status |-> "active", account |-> AccountOf(n, a),
                  provisioning |-> "", routing |-> route, version |-> 0]
        IN  /\ op[p] = Idle
            /\ Fresh(h)
            /\ CreateAccepted(n, r)
            /\ CreateRecord(n, r)
            /\ issued' = issued \cup {<<h, n>>}
            /\ ThenProvision(p, n, r, a # None)
            /\ UNCHANGED provisioned

\* One entry of the terminal UI's Migrate: as the service's, then the ledger.
DirectMigrate(p, n) ==
    /\ op[p] = Idle
    /\ n \in DOMAIN FileHash
    /\ CreateAccepted(n, FileRecord(n))
    /\ CreateRecord(n, FileRecord(n))
    /\ ThenProvision(p, n, FileRecord(n), TRUE)
    /\ UNCHANGED <<issued, provisioned>>

DirectLedger(p) ==
    /\ op[p].pc = "directLedger"
    /\ LedgerFails(op[p].rec.account)
    /\ Finish(p)
    /\ UNCHANGED <<store, issued>>

\* One entry of "access-key migrate", first its GetAccessKey, which sees only an
\* active record that has not expired (by the clock, hence by choice).  Such a
\* record with another secret is a conflict; anything else is overwritten.
MigrateRead(p, n) ==
    /\ op[p] = Idle
    /\ n \in DOMAIN FileHash
    /\ \E expired \in BOOLEAN :
          Exists(n) /\ record[n].status = "active" /\ ~expired
              => record[n].hash = FileHash[n]
    /\ Start(p, "migratePut", n, NoRecord)
    /\ UNCHANGED <<store, issued, provisioned>>

MigratePut(p) ==
    /\ op[p].pc = "migratePut"
    /\ PutAccessKey(op[p].name, FileRecord(op[p].name))
    /\ Finish(p)
    /\ UNCHANGED <<issued, provisioned>>

\* initializeExistingLocalAccounts when an admin service starts: the accounts
\* of the indexed active and pending keys, up to the first ledger error.
InitializeExisting ==
    LET listed == {n \in Names : Exists(n) /\ record[n].status \in {"active", "pending"}
                                 /\ \E h \in Hashes : index[h] = n}
    IN  /\ LedgerEnabled
        /\ \E done \in SUBSET {record[n].account : n \in listed} :
               provisioned' = provisioned \cup done
        /\ UNCHANGED <<store, issued, op>>

\* LookupAccessKey: the index read, then GetAccessKey's read of the record.
LookupIndex(p, h) ==
    /\ op[p] = Idle
    /\ index[h] # None
    /\ op' = [op EXCEPT ![p] = [Idle EXCEPT !.pc = "lookup", !.name = index[h], !.hash = h]]
    /\ UNCHANGED <<store, issued, provisioned>>

\* Only an active record that has not expired (by the clock, hence by choice)
\* becomes the principal of the request.
LookupRecord(p) ==
    /\ op[p].pc = "lookup"
    /\ \/ /\ Exists(op[p].name)
          /\ record[op[p].name].status = "active"
          /\ op' = [op EXCEPT ![p].pc = "served", ![p].rec = record[op[p].name]]
       \/ Finish(p)
    /\ UNCHANGED <<store, issued, provisioned>>

\* A Redis error, an expired context or a crash ends an operation between two
\* of its calls; EnsureAccessKey survives the error of the create it made.
Abort(p) ==
    /\ op[p] # Idle
    /\ \/ Finish(p)
       \/ op[p].ensure /\ Goto(p, "ensureCheck")
    /\ UNCHANGED <<store, issued, provisioned>>

Next ==
    \/ \E p \in Procs, n \in Names :
          \/ \E a \in Accounts \cup {None}, route \in Routes, ensure \in BOOLEAN :
                Create(p, n, a, route, ensure)
          \/ \E a \in Accounts \cup {None}, route \in Routes : DirectCreate(p, n, a, route)
          \/ EnsureExisting(p, n)
          \/ Provision(p, n)
          \/ Revoke(p, n)
          \/ Rotate(p, n)
          \/ \E route \in Routes : UpdateRouting(p, n, route)
          \/ DirectMigrate(p, n)
          \/ MigrateRead(p, n)
    \/ \E p \in Procs :
          \/ CreateLedger(p) \/ CreatePut(p) \/ CreateFailed(p)
          \/ EnsureCheck(p)
          \/ ProvisionLedger(p) \/ ProvisionPut(p)
          \/ RevokePut(p) \/ RotateWrite(p) \/ RouteCAS(p)
          \/ DirectLedger(p) \/ MigratePut(p)
          \/ \E h \in Hashes : LookupIndex(p, h)
          \/ LookupRecord(p)
          \/ Abort(p)
    \/ \E n \in Names : Migrate(n)
    \/ InitializeExisting

Spec == Init /\ [][Next]_vars

-----------------------------------------------------------------------------
(* What holds however the operations interleave.                            *)

\* Types of the three Redis structures, of the history and of the operations.
TypeOK ==
    /\ record \in [Names -> AccessKeyRecord \cup {NoRecord}]
    /\ index \in [Hashes -> Names \cup {None}]
    /\ accountIndex \in [Accounts -> Names \cup {None}]
    /\ issued \subseteq Hashes \X Names
    /\ provisioned \subseteq Accounts
    /\ op \in [Procs -> Operation]

\* A secret only ever authenticates as the one key it was issued for: the
\* index, the stored records and the lookups in flight agree with what was
\* handed out, although rotations, revocations and provisionings overwrite
\* each other's writes.
SecretsStayWithTheirKey ==
    /\ \A h \in Hashes : index[h] # None => <<h, index[h]>> \in issued
    /\ \A n \in Names : Exists(n) => <<record[n].hash, n>> \in issued
    /\ \A p \in Procs : op[p].hash # None => <<op[p].hash, op[p].name>> \in issued
    /\ \A h \in Hashes, m, n \in Names :
            <<h, m>> \in issued /\ <<h, n>> \in issued => m = n

\* The keys that keys.yaml does not name.  "access-key migrate" overwrites the
\* records of the others, whatever their status and their account.
Unmigrated == Names \ DOMAIN FileHash

\* Neither index points at a key without a record, so a lookup or a list never
\* finds a hole, and the account index lists a key under its own account, unless
\* keys.yaml names the key: a write that began before "access-key migrate" moved
\* such a key to another account may end after it.
IndexesPointAtRecords ==
    /\ \A h \in Hashes : index[h] # None => Exists(index[h])
    /\ \A a \in Accounts : accountIndex[a] # None =>
            /\ Exists(accountIndex[a])
            /\ accountIndex[a] \in Unmigrated => record[accountIndex[a]].account = a

\* Usage is billed to one account per key: whatever copy of a record an
\* operation or a request carries, its key exists, and the copy names the account
\* of the stored record unless keys.yaml names the key.
AccountIsFixed ==
    \A p \in Procs : op[p].rec # NoRecord =>
        /\ Exists(op[p].name)
        /\ op[p].name \in Unmigrated => op[p].rec.account = record[op[p].name].account

\* A key says "ready" only when the ledger granted its account the credit,
\* whichever of several creates, retries and failures wrote the record last.
ReadyIsProvisioned ==
    LedgerEnabled => \A n \in Names :
        Exists(n) /\ record[n].provisioning = "ready" => record[n].account \in provisioned

\* A key never vanishes, and the billing account of a stored key that keys.yaml
\* does not name never changes.
AccountNeverChanges ==
    [][\A n \in Names : Exists(n) =>
          /\ record'[n] # NoRecord
          /\ n \in Unmigrated => record'[n].account = record[n].account]_record

-----------------------------------------------------------------------------
(* What holds when the operations on the store are serialised (one process), *)
(* even if each may end between any two of its Redis calls.                  *)

\* The index holds exactly the secret of each stored record: an older secret,
\* rotated away, no longer authenticates (until "access-key migrate" makes the
\* file's secret the current one again).
OnlyCurrentSecrets ==
    \A h \in Hashes, n \in Names :
        index[h] = n <=> Exists(n) /\ record[n].hash = h

\* The account index holds exactly the active keys, hence an account has at
\* most one of them.
AccountIndexIsExact ==
    \A a \in Accounts, n \in Names :
        accountIndex[a] = n <=>
            Exists(n) /\ record[n].status = "active" /\ record[n].account = a

\* "access-key migrate" put the record of keys.yaml in the place of the stored one.
OverwrittenByMigration(n) == n \in DOMAIN FileHash /\ record'[n] = FileRecord(n)

\* "Revocation blocks new gateway requests": no later step changes the status of a
\* revoked key.  The one way back is "access-key migrate", for a key that
\* keys.yaml names, and what is then stored is the file's record and no other.
RevocationIsPermanent ==
    [][\A n \in Names : Exists(n) /\ record[n].status = "revoked" =>
          record'[n].status = "revoked" \/ OverwrittenByMigration(n)]_record
=============================================================================
