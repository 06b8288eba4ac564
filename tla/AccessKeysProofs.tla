-------------------------- MODULE AccessKeysProofs --------------------------
(* Proofs that the access-key store keeps its types and its cross-key       *)
(* safety for any number of concurrent operations, and that its indexes are *)
(* exact when the operations do not overlap.                                *)
EXTENDS AccessKeys, TLAPS

-----------------------------------------------------------------------------
(* Types.                                                                    *)

Writing == {"createLedger", "createPut", "createFailed", "provisionLedger",
            "provisionPut", "revokePut", "rotateWrite", "routeCAS"}

Carrying == Writing \cup {"directLedger"}

\* An operation that will write carries a record, one that has started knows its
\* key, and a migration is of a key of the file: what TypeOK leaves open and the
\* writes rely on.
Carries(o) ==
    /\ o.pc \in Carrying => o.rec \in AccessKeyRecord
    /\ o.pc = "migratePut" => o.name \in DOMAIN FileHash
    /\ o.pc # "idle" => o.name \in Names
    /\ o.ensure => o.pc # "idle"

OpsOK == op \in [Procs -> Operation] /\ \A p \in Procs : Carries(op[p])

StoreOK ==
    /\ record \in [Names -> AccessKeyRecord \cup {NoRecord}]
    /\ index \in [Hashes -> Names \cup {None}]
    /\ accountIndex \in [Accounts -> Names \cup {None}]

TInv == StoreOK /\ issued \subseteq Hashes \X Names /\ provisioned \subseteq Accounts /\ OpsOK

LEMMA RecordsDiffer == NoRecord \notin AccessKeyRecord
BY NoneIsNothing DEF NoRecord, AccessKeyRecord

\* What the operations make of a record is a record.
LEMMA UpdatedRecords ==
    ASSUME NEW r \in AccessKeyRecord, NEW s \in Status, NEW v \in Provisioning,
           NEW h \in Hashes, NEW route \in Routes
    PROVE  /\ [r EXCEPT !.status = s, !.provisioning = v] \in AccessKeyRecord
           /\ [r EXCEPT !.status = s, !.version = @ + 1] \in AccessKeyRecord
           /\ [r EXCEPT !.hash = h, !.version = @ + 1] \in AccessKeyRecord
           /\ [r EXCEPT !.version = @ + 1] \in AccessKeyRecord
           /\ [r EXCEPT !.routing = route] \in AccessKeyRecord
<1>1. [r EXCEPT !.status = s, !.provisioning = v] \in AccessKeyRecord
  BY DEF AccessKeyRecord
<1>2. r.version + 1 \in Nat
  BY DEF AccessKeyRecord
<1>3. [r EXCEPT !.status = s, !.version = @ + 1] \in AccessKeyRecord
  BY <1>2 DEF AccessKeyRecord
<1>4. [r EXCEPT !.hash = h, !.version = @ + 1] \in AccessKeyRecord
  BY <1>2 DEF AccessKeyRecord
<1>5. [r EXCEPT !.version = @ + 1] \in AccessKeyRecord
  BY <1>2 DEF AccessKeyRecord
<1>6. [r EXCEPT !.routing = route] \in AccessKeyRecord
  BY DEF AccessKeyRecord
<1> QED BY <1>1, <1>3, <1>4, <1>5, <1>6

\* What a migration writes is a record, active, with the secret of the file.
LEMMA FileRecords ==
    ASSUME NEW n \in DOMAIN FileHash
    PROVE  /\ n \in Names /\ FileRecord(n) \in AccessKeyRecord
           /\ FileRecord(n).hash = FileHash[n] /\ FileRecord(n).provisioning # "ready"
BY FileKeys, NamesAreAccounts, UnrestrictedIsARoute
DEF FileRecord, AccessKeyRecord, Status, Provisioning

\* The operations in flight stay well formed when one of them ends,
LEMMA FinishOK == ASSUME OpsOK, NEW p \in Procs, Finish(p) PROVE OpsOK'
<1>1. Idle \in Operation
  BY DEF Idle, Operation, PCs
<1>2. Carries(Idle)
  BY DEF Carries, Idle, Writing, Carrying
<1>3. op' \in [Procs -> Operation]
  BY <1>1 DEF OpsOK, Finish
<1>4. \A q \in Procs : Carries(op'[q])
  BY <1>2 DEF OpsOK, Finish
<1> QED BY <1>3, <1>4 DEF OpsOK

\* moves on,
LEMMA GotoOK ==
    ASSUME OpsOK, NEW p \in Procs, NEW pc \in PCs \ {"idle"}, Goto(p, pc),
           op[p].pc # "idle", pc \in Carrying => op[p].pc \in Carrying, pc # "migratePut"
    PROVE  OpsOK'
<1> DEFINE o == [op[p] EXCEPT !.pc = pc]
<1>1. o \in Operation
  BY DEF OpsOK, Operation
<1>2. o.pc = pc /\ o.name = op[p].name /\ o.rec = op[p].rec
  BY DEF OpsOK, Operation
<1>3. Carries(o)
  BY <1>2 DEF OpsOK, Carries
<1>4. op' = [op EXCEPT ![p] = o]
  BY DEF Goto
<1> HIDE DEF o
<1>5. op' \in [Procs -> Operation]
  BY <1>1, <1>4 DEF OpsOK
<1>6. \A q \in Procs : Carries(op'[q])
  BY <1>3, <1>4 DEF OpsOK
<1> QED BY <1>5, <1>6 DEF OpsOK

\* or starts.
LEMMA StartOK ==
    ASSUME OpsOK, NEW p \in Procs, NEW pc \in PCs \ {"idle"}, NEW n \in Names,
           NEW r \in AccessKeyRecord \cup {NoRecord}, Start(p, pc, n, r),
           pc \in Carrying => r \in AccessKeyRecord, pc = "migratePut" => n \in DOMAIN FileHash
    PROVE  OpsOK'
<1> DEFINE o == [Idle EXCEPT !.pc = pc, !.name = n, !.rec = r]
<1>1. o \in Operation
  BY DEF Idle, Operation, PCs
<1>2. Carries(o)
  BY DEF Carries, Idle
<1>3. op' = [op EXCEPT ![p] = o]
  BY DEF Start
<1> HIDE DEF o
<1>4. op' \in [Procs -> Operation]
  BY <1>1, <1>3 DEF OpsOK
<1>5. \A q \in Procs : Carries(op'[q])
  BY <1>2, <1>3 DEF OpsOK
<1> QED BY <1>4, <1>5 DEF OpsOK

\* The put script keeps the store typed.
LEMMA PutOK ==
    ASSUME StoreOK, NEW n \in Names, NEW r \in AccessKeyRecord, PutAccessKey(n, r)
    PROVE  StoreOK'
<1>1. CASE PutAccepted(n, r)
  <2>1. record' = [record EXCEPT ![n] = r] /\ index' = PutIndex(n, r)
        /\ accountIndex' = PutAccountIndex(n, r)
    BY <1>1 DEF PutAccessKey
  <2>2. PutIndex(n, r) \in [Hashes -> Names \cup {None}]
    BY DEF PutIndex, StoreOK
  <2>3. PutAccountIndex(n, r) \in [Accounts -> Names \cup {None}]
    BY DEF PutAccountIndex, StoreOK
  <2> QED BY <2>1, <2>2, <2>3 DEF StoreOK
<1>2. CASE ~PutAccepted(n, r)
  BY <1>2 DEF PutAccessKey, store, StoreOK
<1> QED BY <1>1, <1>2

\* So does the create script.
LEMMA CreateOK ==
    ASSUME StoreOK, NEW n \in Names, NEW r \in AccessKeyRecord, CreateRecord(n, r)
    PROVE  StoreOK'
<1>1. r.hash \in Hashes /\ r.account \in Accounts
  BY DEF AccessKeyRecord
<1> QED BY <1>1 DEF CreateRecord, StoreOK

\* What follows a create of the command line leaves the operations well formed.
LEMMA ThenOK ==
    ASSUME OpsOK, NEW p \in Procs, NEW n \in Names, NEW r \in AccessKeyRecord,
           NEW given, ThenProvision(p, n, r, given)
    PROVE  OpsOK'
<1>1. CASE Start(p, "directLedger", n, r)
  BY <1>1, StartOK DEF PCs
<1>2. CASE UNCHANGED op
  BY <1>2 DEF OpsOK
<1> QED BY <1>1, <1>2 DEF ThenProvision

LEMMA InitTyped == Init => TInv
<1> SUFFICES ASSUME Init PROVE TInv
  OBVIOUS
<1>1. StoreOK
  BY DEF Init, StoreOK
<1>2. Idle \in Operation
  BY DEF Idle, Operation, PCs
<1>3. Carries(Idle)
  BY DEF Carries, Idle, Writing, Carrying
<1>4. OpsOK
  BY <1>2, <1>3 DEF Init, OpsOK
<1>5. issued \subseteq Hashes \X Names /\ provisioned \subseteq Accounts
  BY FileKeys DEF Init
<1> QED BY <1>1, <1>4, <1>5 DEF TInv

LEMMA StepTyped == TInv /\ [Next]_vars => TInv'
<1> SUFFICES ASSUME TInv, [Next]_vars PROVE TInv'
  OBVIOUS
<1>0. StoreOK /\ OpsOK /\ issued \subseteq Hashes \X Names /\ provisioned \subseteq Accounts
  BY DEF TInv
<1>rec. \A n \in Names : Exists(n) => record[n] \in AccessKeyRecord
  BY <1>0 DEF StoreOK, Exists
<1>1. ASSUME NEW p \in Procs, NEW n \in Names, NEW a \in Accounts \cup {None},
             NEW route \in Routes, NEW ensure \in BOOLEAN, Create(p, n, a, route, ensure)
      PROVE  TInv'
  <2> DEFINE R(h) == [hash |-> h, status |-> "pending", account |-> AccountOf(n, a),
                      provisioning |-> "pending", routing |-> route, version |-> 0]
             O(h) == [pc |-> IF LedgerEnabled THEN "createLedger" ELSE "createPut",
                      name |-> n, rec |-> R(h), hash |-> None,
                      scoped |-> a # None, ensure |-> ensure]
  <2>1. PICK h \in Hashes : /\ CreateRecord(n, R(h))
                            /\ issued' = issued \cup {<<h, n>>}
                            /\ op' = [op EXCEPT ![p] = O(h)]
                            /\ UNCHANGED provisioned
    BY <1>1 DEF Create
  <2>2. R(h) \in AccessKeyRecord
    BY NamesAreAccounts DEF AccountOf, AccessKeyRecord, Status, Provisioning
  <2>3. StoreOK'
    <3> HIDE DEF R
    <3> QED BY <1>0, <2>1, <2>2, CreateOK
  <2>4. O(h) \in Operation
    BY <2>2 DEF Operation, PCs
  <2>5. Carries(O(h))
    BY <2>2 DEF Carries
  <2>6. OpsOK'
    <3> HIDE DEF O
    <3> QED BY <1>0, <2>1, <2>4, <2>5 DEF OpsOK
  <2> QED BY <1>0, <2>1, <2>3, <2>6 DEF TInv
<1>2. ASSUME NEW p \in Procs, NEW n \in Names, EnsureExisting(p, n) PROVE TInv'
  <2>1. OpsOK'
    BY <1>0, <1>2, StartOK DEF EnsureExisting, PCs, Writing, Carrying
  <2> QED BY <1>0, <1>2, <2>1 DEF EnsureExisting, TInv, StoreOK, store
<1>3. ASSUME NEW p \in Procs, NEW n \in Names,
             Provision(p, n) \/ Revoke(p, n) \/ Rotate(p, n)
      PROVE  TInv'
  <2>1. PICK pc \in {"provisionLedger", "revokePut", "rotateWrite"} : Start(p, pc, n, record[n])
    BY <1>3 DEF Provision, Revoke, Rotate
  <2>2. record[n] \in AccessKeyRecord
    BY <1>3, <1>rec DEF Provision, Revoke, Rotate
  <2>3. OpsOK'
    BY <1>0, <2>1, <2>2, StartOK DEF PCs
  <2> QED BY <1>0, <1>3, <2>3 DEF Provision, Revoke, Rotate, TInv, StoreOK, store
<1>4. ASSUME NEW p \in Procs, NEW n \in Names, NEW route \in Routes, UpdateRouting(p, n, route)
      PROVE  TInv'
  <2>1. [record[n] EXCEPT !.routing = route] \in AccessKeyRecord
    BY <1>4, <1>rec DEF UpdateRouting, AccessKeyRecord
  <2>2. OpsOK'
    BY <1>0, <1>4, <2>1, StartOK DEF UpdateRouting, PCs
  <2> QED BY <1>0, <1>4, <2>2 DEF UpdateRouting, TInv, StoreOK, store
<1>5. ASSUME NEW p \in Procs, CreateLedger(p) PROVE TInv'
  <2>1. op[p].rec.account \in Accounts
    BY <1>0, <1>5 DEF CreateLedger, OpsOK, Carries, Writing, Carrying, AccessKeyRecord
  <2>2. Goto(p, "createPut") \/ Goto(p, "createFailed")
    BY <1>5 DEF CreateLedger
  <2>3. OpsOK'
    BY <1>0, <1>5, <2>2, GotoOK DEF CreateLedger, PCs, Writing, Carrying
  <2>4. provisioned' \subseteq Accounts
    BY <1>0, <1>5, <2>1 DEF CreateLedger, LedgerSucceeds, LedgerFails
  <2> QED BY <1>0, <1>5, <2>3, <2>4 DEF CreateLedger, TInv, StoreOK, store
<1>6. ASSUME NEW p \in Procs, CreatePut(p) \/ CreateFailed(p) \/ ProvisionPut(p) \/ RevokePut(p)
      PROVE  TInv'
  <2>1. op[p].name \in Names /\ op[p].rec \in AccessKeyRecord
    BY <1>0, <1>6 DEF CreatePut, CreateFailed, ProvisionPut, RevokePut, OpsOK, Carries, Writing, Carrying
  <2>2. PICK r \in AccessKeyRecord : PutAccessKey(op[p].name, r)
    <3>1. /\ [op[p].rec EXCEPT !.status = "active", !.provisioning = "ready"] \in AccessKeyRecord
          /\ [op[p].rec EXCEPT !.status = "pending", !.provisioning = "failed"] \in AccessKeyRecord
      BY <2>1 DEF AccessKeyRecord, Status, Provisioning
    <3>2. op[p].rec.version + 1 \in Nat
      BY <2>1 DEF AccessKeyRecord
    <3>3. [op[p].rec EXCEPT !.status = "revoked", !.version = @ + 1] \in AccessKeyRecord
      BY <2>1, <3>2 DEF AccessKeyRecord, Status
    <3> QED BY <1>6, <3>1, <3>3 DEF CreatePut, CreateFailed, ProvisionPut, RevokePut
  <2>3. StoreOK'
    BY <1>0, <2>1, <2>2, PutOK
  <2>4. /\ UNCHANGED <<issued, provisioned>>
        /\ Finish(p) \/ Goto(p, "ensureCheck")
    BY <1>6 DEF CreatePut, CreateFailed, ProvisionPut, RevokePut, EndCreate
  <2>5. op[p].pc # "idle"
    BY <1>6 DEF CreatePut, CreateFailed, ProvisionPut, RevokePut
  <2>6. OpsOK'
    BY <1>0, <2>4, <2>5, FinishOK, GotoOK DEF PCs, Writing, Carrying
  <2> QED BY <1>0, <2>3, <2>4, <2>6 DEF TInv
<1>7. ASSUME NEW p \in Procs, EnsureCheck(p) PROVE TInv'
  <2>1. op[p].name \in Names
    BY <1>0, <1>7 DEF EnsureCheck, OpsOK, Carries
  <2>2. \/ Finish(p)
        \/ /\ record[op[p].name] \in AccessKeyRecord
           /\ Start(p, "provisionLedger", op[p].name, record[op[p].name])
    BY <1>7, <2>1, <1>rec DEF EnsureCheck
  <2>3. OpsOK'
    BY <1>0, <2>1, <2>2, FinishOK, StartOK DEF PCs
  <2> QED BY <1>0, <1>7, <2>3 DEF EnsureCheck, TInv, StoreOK, store
<1>8. ASSUME NEW p \in Procs, ProvisionLedger(p) PROVE TInv'
  <2>1. op[p].rec.account \in Accounts
    BY <1>0, <1>8 DEF ProvisionLedger, OpsOK, Carries, Writing, Carrying, AccessKeyRecord
  <2>2. OpsOK'
    BY <1>0, <1>8, FinishOK, GotoOK DEF ProvisionLedger, PCs, Writing, Carrying
  <2>3. provisioned' \subseteq Accounts
    BY <1>0, <1>8, <2>1 DEF ProvisionLedger, LedgerSucceeds, LedgerFails
  <2> QED BY <1>0, <1>8, <2>2, <2>3 DEF ProvisionLedger, TInv, StoreOK, store
<1>9. ASSUME NEW p \in Procs, RotateWrite(p) PROVE TInv'
  <2>1. PICK h \in Hashes :
          /\ index' = [index EXCEPT ![op[p].rec.hash] = None, ![h] = op[p].name]
          /\ record' = [record EXCEPT ![op[p].name] =
                           [op[p].rec EXCEPT !.hash = h, !.version = @ + 1]]
          /\ issued' = issued \cup {<<h, op[p].name>>}
          /\ Finish(p)
          /\ UNCHANGED <<accountIndex, provisioned>>
    BY <1>9 DEF RotateWrite
  <2>2. op[p].name \in Names /\ op[p].rec \in AccessKeyRecord
    BY <1>0, <1>9 DEF RotateWrite, OpsOK, Carries, Writing, Carrying
  <2> DEFINE r == [op[p].rec EXCEPT !.hash = h, !.version = @ + 1]
  <2>3. r \in AccessKeyRecord
    <3>1. op[p].rec.version + 1 \in Nat
      BY <2>2 DEF AccessKeyRecord
    <3> QED BY <2>2, <3>1 DEF AccessKeyRecord
  <2> HIDE DEF r
  <2>4. StoreOK'
    BY <1>0, <2>1, <2>2, <2>3 DEF StoreOK, r
  <2>5. OpsOK'
    BY <1>0, <2>1, FinishOK
  <2> QED BY <1>0, <2>1, <2>2, <2>4, <2>5 DEF TInv
<1>10. ASSUME NEW p \in Procs, RouteCAS(p) PROVE TInv'
  <2>1. op[p].name \in Names /\ op[p].rec \in AccessKeyRecord
    BY <1>0, <1>10 DEF RouteCAS, OpsOK, Carries, Writing, Carrying
  <2> DEFINE r == [op[p].rec EXCEPT !.version = @ + 1]
  <2>2. r \in AccessKeyRecord
    <3>1. op[p].rec.version + 1 \in Nat
      BY <2>1 DEF AccessKeyRecord
    <3> QED BY <2>1, <3>1 DEF AccessKeyRecord
  <2>3. UNCHANGED record \/ record' = [record EXCEPT ![op[p].name] = r]
    BY <1>10 DEF RouteCAS
  <2> HIDE DEF r
  <2>4. StoreOK'
    BY <1>0, <1>10, <2>1, <2>2, <2>3 DEF RouteCAS, StoreOK
  <2>5. OpsOK'
    BY <1>0, <1>10, FinishOK DEF RouteCAS
  <2> QED BY <1>0, <1>10, <2>4, <2>5 DEF RouteCAS, TInv
<1>11. ASSUME NEW p \in Procs, NEW h \in Hashes, LookupIndex(p, h) PROVE TInv'
  <2> DEFINE o == [Idle EXCEPT !.pc = "lookup", !.name = index[h], !.hash = h]
  <2>1. index[h] \in Names
    BY <1>0, <1>11 DEF LookupIndex, StoreOK
  <2>2. o \in Operation
    BY <2>1 DEF Operation, Idle, PCs
  <2>3. Carries(o)
    BY <2>1 DEF Carries, Idle, Writing, Carrying
  <2>4. op' = [op EXCEPT ![p] = o]
    BY <1>11 DEF LookupIndex
  <2> HIDE DEF o
  <2>5. OpsOK'
    BY <1>0, <2>2, <2>3, <2>4 DEF OpsOK
  <2> QED BY <1>0, <1>11, <2>5 DEF LookupIndex, TInv, StoreOK, store
<1>12. ASSUME NEW p \in Procs, LookupRecord(p) PROVE TInv'
  <2> DEFINE o == [op[p] EXCEPT !.pc = "served", !.rec = record[op[p].name]]
  <2>1. op[p].name \in Names /\ op[p].pc # "idle"
    BY <1>0, <1>12 DEF LookupRecord, OpsOK, Carries
  <2>2. o \in Operation
    BY <1>0, <2>1 DEF OpsOK, StoreOK, Operation, PCs
  <2>3. Carries(o)
    BY <1>0, <2>1 DEF Carries, Writing, Carrying, OpsOK, Operation
  <2>4. Finish(p) \/ op' = [op EXCEPT ![p] = o]
    BY <1>12 DEF LookupRecord
  <2> HIDE DEF o
  <2>5. OpsOK'
    <3>1. CASE Finish(p)
      BY <1>0, <3>1, FinishOK
    <3>2. CASE op' = [op EXCEPT ![p] = o]
      BY <1>0, <2>2, <2>3, <3>2 DEF OpsOK
    <3> QED BY <2>4, <3>1, <3>2
  <2> QED BY <1>0, <1>12, <2>5 DEF LookupRecord, TInv, StoreOK, store
<1>13. ASSUME NEW p \in Procs, Abort(p) PROVE TInv'
  <2>1. Finish(p) \/ (op[p].pc # "idle" /\ Goto(p, "ensureCheck"))
    BY <1>0, <1>13 DEF Abort, OpsOK, Carries
  <2>2. OpsOK'
    BY <1>0, <2>1, FinishOK, GotoOK DEF PCs, Writing, Carrying
  <2> QED BY <1>0, <1>13, <2>2 DEF Abort, TInv, StoreOK, store
<1>14. ASSUME NEW n \in Names, Migrate(n) PROVE TInv'
  <2>1. FileRecord(n) \in AccessKeyRecord
    BY <1>14, FileRecords DEF Migrate
  <2>2. CreateRecord(n, FileRecord(n)) /\ UNCHANGED <<issued, provisioned, op>>
    BY <1>14 DEF Migrate
  <2>3. StoreOK'
    BY <1>0, <2>1, <2>2, CreateOK
  <2> QED BY <1>0, <2>2, <2>3 DEF TInv, OpsOK
<1>15. CASE InitializeExisting
  BY <1>0, <1>15, <1>rec DEF InitializeExisting, TInv, OpsOK, StoreOK, AccessKeyRecord, store
<1>16. CASE UNCHANGED vars
  BY <1>0, <1>16 DEF vars, TInv, StoreOK, OpsOK
<1>17. ASSUME NEW p \in Procs, NEW n \in Names, NEW a \in Accounts \cup {None},
              NEW route \in Routes, DirectCreate(p, n, a, route)
       PROVE  TInv'
  <2> DEFINE R(h) == [hash |-> h, status |-> "active", account |-> AccountOf(n, a),
                      provisioning |-> "", routing |-> route, version |-> 0]
  <2>1. PICK h \in Hashes : /\ CreateRecord(n, R(h))
                            /\ issued' = issued \cup {<<h, n>>}
                            /\ ThenProvision(p, n, R(h), a # None)
                            /\ UNCHANGED provisioned
    BY <1>17 DEF DirectCreate
  <2>2. R(h) \in AccessKeyRecord
    BY NamesAreAccounts DEF AccountOf, AccessKeyRecord, Status, Provisioning
  <2> HIDE DEF R
  <2>3. StoreOK'
    BY <1>0, <2>1, <2>2, CreateOK
  <2>4. OpsOK'
    BY <1>0, <2>1, <2>2, ThenOK
  <2> QED BY <1>0, <2>1, <2>3, <2>4 DEF TInv
<1>18. ASSUME NEW p \in Procs, NEW n \in Names, DirectMigrate(p, n) PROVE TInv'
  <2>1. FileRecord(n) \in AccessKeyRecord
    BY <1>18, FileRecords DEF DirectMigrate
  <2>2. StoreOK'
    BY <1>0, <1>18, <2>1, CreateOK DEF DirectMigrate
  <2>3. OpsOK'
    BY <1>0, <1>18, <2>1, ThenOK DEF DirectMigrate
  <2> QED BY <1>0, <1>18, <2>2, <2>3 DEF DirectMigrate, TInv
<1>19. ASSUME NEW p \in Procs, DirectLedger(p) PROVE TInv'
  <2>1. op[p].rec.account \in Accounts
    BY <1>0, <1>19 DEF DirectLedger, OpsOK, Carries, Carrying, AccessKeyRecord
  <2>2. OpsOK'
    BY <1>0, <1>19, FinishOK DEF DirectLedger
  <2>3. provisioned' \subseteq Accounts
    BY <1>0, <1>19, <2>1 DEF DirectLedger, LedgerFails
  <2> QED BY <1>0, <1>19, <2>2, <2>3 DEF DirectLedger, TInv, StoreOK, store
<1>20. ASSUME NEW p \in Procs, NEW n \in Names, MigrateRead(p, n) PROVE TInv'
  <2>1. OpsOK'
    BY <1>0, <1>20, StartOK DEF MigrateRead, PCs, Writing, Carrying
  <2> QED BY <1>0, <1>20, <2>1 DEF MigrateRead, TInv, StoreOK, store
<1>21. ASSUME NEW p \in Procs, MigratePut(p) PROVE TInv'
  <2>1. op[p].name \in Names /\ FileRecord(op[p].name) \in AccessKeyRecord
    BY <1>0, <1>21, FileRecords DEF MigratePut, OpsOK, Carries
  <2>2. StoreOK'
    BY <1>0, <1>21, <2>1, PutOK DEF MigratePut
  <2>3. OpsOK'
    BY <1>0, <1>21, FinishOK DEF MigratePut
  <2> QED BY <1>0, <1>21, <2>2, <2>3 DEF MigratePut, TInv
<1> QED
  BY <1>1, <1>2, <1>3, <1>4, <1>5, <1>6, <1>7, <1>8, <1>9, <1>10, <1>11, <1>12,
     <1>13, <1>14, <1>15, <1>16, <1>17, <1>18, <1>19, <1>20, <1>21 DEF Next

LEMMA TypesHold == Spec => []TInv
BY InitTyped, StepTyped, PTL DEF Spec

\* The store, the histories and the operations in flight keep their types
\* (TypeOK): in particular no operation stores a half-built record.
THEOREM TypeCorrect == Spec => []TypeOK
<1>1. TInv => TypeOK
  BY DEF TInv, StoreOK, OpsOK, TypeOK
<1> QED BY <1>1, TypesHold, PTL

-----------------------------------------------------------------------------
(* Cross-key safety under any interleaving.                                  *)

\* What makes a record fit to be stored under a name, for the histories given:
\* the secret was issued for that name, and "ready" is backed by the ledger.
Fit(n, r, iss, prov) ==
    /\ <<r.hash, n>> \in iss
    /\ LedgerEnabled /\ r.provisioning = "ready" => r.account \in prov

\* A copy of the record of a key names the account of the stored one, but for the
\* keys that a migration may overwrite.
SameAccount(n, r) == n \in Unmigrated => record[n].account = r.account

\* The copies carried by the operations are fit too, name the account of the
\* stored record, and have a provisioned account once they are about to be
\* activated.  Without this the safety properties are not inductive: a put
\* stores what its operation read several steps before.
OpSafe(o) ==
    /\ o.hash # None => <<o.hash, o.name>> \in issued
    /\ o.rec # NoRecord =>
          /\ Fit(o.name, o.rec, issued, provisioned)
          /\ Exists(o.name) /\ SameAccount(o.name, o.rec)
          /\ LedgerEnabled /\ o.pc \in {"createPut", "provisionPut"} =>
                o.rec.account \in provisioned

OpsSafe == \A p \in Procs : OpSafe(op[p])

RecordsFit == \A n \in Names : Exists(n) => Fit(n, record[n], issued, provisioned)

IssuedOnce ==
    \A h \in Hashes, m, n \in Names : <<h, m>> \in issued /\ <<h, n>> \in issued => m = n

IndexIssued == \A h \in Hashes : index[h] # None => <<h, index[h]>> \in issued

FileIssued == \A n \in DOMAIN FileHash : <<FileHash[n], n>> \in issued

SInv == RecordsFit /\ IssuedOnce /\ FileIssued /\ IndexIssued /\ IndexesPointAtRecords /\ OpsSafe

\* The histories grow, and a stored record that no migration overwrites keeps its
\* account.
Grows ==
    /\ issued \subseteq issued'
    /\ provisioned \subseteq provisioned'
    /\ \A n \in Names : Exists(n) =>
          Exists(n)' /\ (n \in Unmigrated => record'[n].account = record[n].account)

\* An operation that does not move stays safe.
LEMMA StaysSafe ==
    ASSUME TInv, Grows, NEW p \in Procs, OpSafe(op[p]), op'[p] = op[p]
    PROVE  OpSafe(op[p])'
<1>1. op[p].rec # NoRecord => op[p].name \in Names
  <2>1. op[p].rec # NoRecord => Exists(op[p].name) /\ <<op[p].rec.hash, op[p].name>> \in issued
    BY DEF OpSafe, Fit
  <2> QED BY <2>1 DEF TInv
<1>2. (op[p].hash # None => <<op[p].hash, op[p].name>> \in issued)'
  BY DEF OpSafe, Grows
<1>3. (op[p].rec # NoRecord =>
          /\ Fit(op[p].name, op[p].rec, issued, provisioned)
          /\ Exists(op[p].name) /\ SameAccount(op[p].name, op[p].rec)
          /\ LedgerEnabled /\ op[p].pc \in {"createPut", "provisionPut"} =>
                op[p].rec.account \in provisioned)'
  BY <1>1 DEF OpSafe, Grows, Fit, SameAccount
<1> QED BY <1>2, <1>3 DEF OpSafe

\* Ending an operation is always safe,
LEMMA FinishSafe ==
    ASSUME TInv, OpsSafe, Grows, NEW p \in Procs, Finish(p)
    PROVE  OpsSafe'
<1> SUFFICES ASSUME NEW q \in Procs PROVE OpSafe(op[q])'
  BY DEF OpsSafe
<1>1. CASE q = p
  <2>1. op'[q] = Idle
    BY <1>1 DEF Finish, TInv, OpsOK
  <2>2. Idle.hash = None /\ Idle.rec = NoRecord
    BY DEF Idle
  <2> QED BY <2>1, <2>2 DEF OpSafe
<1>2. CASE q # p
  <2>1. op'[q] = op[q]
    BY <1>2 DEF Finish, TInv, OpsOK
  <2> QED BY <2>1, StaysSafe DEF OpsSafe
<1> QED BY <1>1, <1>2

\* so is moving one on, unless it moves to an activating put without credit,
LEMMA GotoSafe ==
    ASSUME TInv, OpsSafe, Grows, NEW p \in Procs, NEW pc, Goto(p, pc),
           pc \in {"createPut", "provisionPut"} => op[p].rec.account \in provisioned'
    PROVE  OpsSafe'
<1> SUFFICES ASSUME NEW q \in Procs PROVE OpSafe(op[q])'
  BY DEF OpsSafe
<1>1. CASE q = p
  <2>1. /\ op'[q].pc = pc /\ op'[q].rec = op[p].rec
        /\ op'[q].name = op[p].name /\ op'[q].hash = op[p].hash
    BY <1>1 DEF Goto, TInv, OpsOK, Operation
  <2>2. OpSafe(op[p])
    BY DEF OpsSafe
  <2>3. op[p].rec # NoRecord => op[p].name \in Names
    BY <2>2 DEF OpSafe, Fit, TInv
  <2> QED BY <2>1, <2>2, <2>3 DEF OpSafe, Fit, Grows, SameAccount
<1>2. CASE q # p
  <2>1. op'[q] = op[q]
    BY <1>2 DEF Goto, TInv, OpsOK
  <2> QED BY <2>1, StaysSafe DEF OpsSafe
<1> QED BY <1>1, <1>2

\* and so is starting one with a copy of a stored record.
LEMMA StartSafe ==
    ASSUME TInv, OpsSafe, Grows, NEW p \in Procs,
           NEW pc \in PCs \ {"createPut", "provisionPut"}, NEW n \in Names,
           NEW r, Start(p, pc, n, r),
           r # NoRecord => /\ Fit(n, r, issued, provisioned)
                           /\ Exists(n) /\ SameAccount(n, r)
    PROVE  OpsSafe'
<1> SUFFICES ASSUME NEW q \in Procs PROVE OpSafe(op[q])'
  BY DEF OpsSafe
<1>1. CASE q = p
  <2>1. /\ op'[q].pc = pc /\ op'[q].rec = r
        /\ op'[q].name = n /\ op'[q].hash = None
    BY <1>1 DEF Start, TInv, OpsOK, Idle
  <2> QED BY <2>1 DEF OpSafe, Fit, Grows, SameAccount
<1>2. CASE q # p
  <2>1. op'[q] = op[q]
    BY <1>2 DEF Start, TInv, OpsOK
  <2> QED BY <2>1, StaysSafe DEF OpsSafe
<1> QED BY <1>1, <1>2

StoreSafe == RecordsFit /\ IndexIssued /\ IndexesPointAtRecords

\* A put of a fit record with the account of the stored one, if there is one that
\* no migration overwrites, keeps the store safe.
LEMMA PutSafe ==
    ASSUME TInv, StoreSafe, NEW n \in Names, NEW r \in AccessKeyRecord,
           Exists(n) => SameAccount(n, r), Fit(n, r, issued, provisioned),
           PutAccessKey(n, r), UNCHANGED <<issued, provisioned>>
    PROVE  StoreSafe' /\ Grows
<1>0. r # NoRecord /\ r.hash \in Hashes /\ r.account \in Accounts
  BY RecordsDiffer DEF AccessKeyRecord
<1>1. CASE PutAccepted(n, r)
  <2>1. /\ record' = [record EXCEPT ![n] = r] /\ index' = PutIndex(n, r)
        /\ accountIndex' = PutAccountIndex(n, r)
    BY <1>1 DEF PutAccessKey
  <2>2. \A m \in Names : record'[m] = IF m = n THEN r ELSE record[m]
    BY <2>1 DEF TInv, StoreOK
  <2>3. \A h \in Hashes : index'[h] \in {None, index[h]} \/ (h = r.hash /\ index'[h] = n)
    BY <2>1 DEF PutIndex
  <2>4. \A a \in Accounts : accountIndex'[a] \in {None, accountIndex[a]}
                            \/ (a = r.account /\ accountIndex'[a] = n)
    BY <2>1 DEF PutAccountIndex
  <2>5. Grows
    BY <1>0, <2>2 DEF Grows, Exists, SameAccount
  <2>6. RecordsFit'
    BY <2>2 DEF StoreSafe, RecordsFit, Exists, Fit
  <2>7. IndexIssued'
    BY <2>3 DEF StoreSafe, IndexIssued, Fit
  <2>8. IndexesPointAtRecords'
    <3>1. \A h \in Hashes : index'[h] # None => index'[h] \in Names /\ record'[index'[h]] # NoRecord
      BY <1>0, <2>2, <2>3 DEF StoreSafe, IndexesPointAtRecords, Exists, TInv, StoreOK
    <3>2. \A a \in Accounts : accountIndex'[a] # None =>
            /\ record'[accountIndex'[a]] # NoRecord
            /\ accountIndex'[a] \in Unmigrated => record'[accountIndex'[a]].account = a
      BY <1>0, <2>2, <2>4
      DEF StoreSafe, IndexesPointAtRecords, Exists, SameAccount, TInv, StoreOK
    <3> QED BY <3>1, <3>2 DEF IndexesPointAtRecords, Exists
  <2> QED BY <2>5, <2>6, <2>7, <2>8 DEF StoreSafe
<1>2. CASE ~PutAccepted(n, r)
  BY <1>2 DEF PutAccessKey, store, StoreSafe, Grows, RecordsFit, IndexIssued,
              IndexesPointAtRecords, Exists, Fit
<1> QED BY <1>1, <1>2

\* Creating a record for an unused name keeps the store safe.
LEMMA CreateSafe ==
    ASSUME TInv, StoreSafe, NEW n \in Names, NEW r \in AccessKeyRecord,
           CreateAccepted(n, r), CreateRecord(n, r), issued \subseteq issued',
           Fit(n, r, issued', provisioned), UNCHANGED provisioned
    PROVE  StoreSafe' /\ Grows
<1>0. r # NoRecord /\ r.hash \in Hashes /\ r.account \in Accounts
  BY RecordsDiffer DEF AccessKeyRecord
<1>1. ~Exists(n)
  BY DEF CreateAccepted
<1>2. \A m \in Names : record'[m] = IF m = n THEN r ELSE record[m]
  BY DEF CreateRecord, TInv, StoreOK
<1>3. \A h \in Hashes : index'[h] = index[h] \/ (h = r.hash /\ index'[h] = n)
  BY DEF CreateRecord, TInv, StoreOK
<1>4. \A a \in Accounts : accountIndex'[a] = accountIndex[a]
                          \/ (a = r.account /\ accountIndex'[a] = n)
  BY DEF CreateRecord, TInv, StoreOK
<1>5. Grows
  BY <1>0, <1>1, <1>2 DEF Grows, Exists
<1>6. RecordsFit'
  BY <1>2 DEF StoreSafe, RecordsFit, Exists, Fit
<1>7. IndexIssued'
  BY <1>3 DEF StoreSafe, IndexIssued, Fit
<1>8. IndexesPointAtRecords'
  <2>1. \A h \in Hashes : index'[h] # None => index'[h] \in Names /\ record'[index'[h]] # NoRecord
    BY <1>0, <1>2, <1>3 DEF StoreSafe, IndexesPointAtRecords, Exists, TInv, StoreOK
  <2>2. \A a \in Accounts : accountIndex'[a] # None =>
          /\ record'[accountIndex'[a]] # NoRecord
          /\ accountIndex'[a] \in Unmigrated => record'[accountIndex'[a]].account = a
    <3> SUFFICES ASSUME NEW a \in Accounts, accountIndex'[a] # None
                 PROVE  /\ record'[accountIndex'[a]] # NoRecord
                        /\ accountIndex'[a] \in Unmigrated => record'[accountIndex'[a]].account = a
      OBVIOUS
    <3>1. CASE accountIndex'[a] = accountIndex[a]
      BY <1>1, <1>2, <3>1 DEF StoreSafe, IndexesPointAtRecords, Exists, TInv, StoreOK
    <3>2. CASE a = r.account /\ accountIndex'[a] = n
      BY <1>0, <1>2, <3>2
    <3> QED BY <1>4, <3>1, <3>2
  <2> QED BY <2>1, <2>2 DEF IndexesPointAtRecords, Exists
<1> QED BY <1>5, <1>6, <1>7, <1>8 DEF StoreSafe

\* A step that leaves the store alone and lets the histories grow keeps it safe.
LEMMA ReadSafe ==
    ASSUME StoreSafe, UNCHANGED store, UNCHANGED issued, provisioned \subseteq provisioned'
    PROVE  StoreSafe' /\ Grows
BY DEF store, StoreSafe, Grows, RecordsFit, IndexIssued, IndexesPointAtRecords, Exists, Fit

LEMMA InitSafe == Init => SInv
<1> SUFFICES ASSUME Init PROVE SInv
  OBVIOUS
<1>1. RecordsFit /\ IndexIssued /\ IndexesPointAtRecords
  BY NoneIsNothing DEF Init, RecordsFit, IndexIssued, IndexesPointAtRecords, Exists
<1>2. IssuedOnce /\ FileIssued
  BY FileKeys DEF Init, IssuedOnce, FileIssued
<1>3. OpsSafe
  BY DEF Init, OpsSafe, OpSafe, Idle
<1> QED BY <1>1, <1>2, <1>3 DEF SInv

LEMMA StepSafe == TInv /\ SInv /\ [Next]_vars => SInv' /\ Grows
<1> SUFFICES ASSUME TInv, SInv, [Next]_vars PROVE SInv' /\ Grows
  OBVIOUS
<1>0. StoreSafe /\ IssuedOnce /\ FileIssued /\ OpsSafe
  BY DEF SInv, StoreSafe
<1>rec. \A n \in Names : Exists(n) =>
          record[n] \in AccessKeyRecord /\ Fit(n, record[n], issued, provisioned)
  BY <1>0 DEF TInv, StoreOK, Exists, StoreSafe, RecordsFit
<1>carried. \A p \in Procs : op[p].pc \in Writing =>
              /\ op[p].name \in Names /\ op[p].rec \in AccessKeyRecord
              /\ OpSafe(op[p]) /\ op[p].rec # NoRecord
  BY <1>0, RecordsDiffer DEF TInv, OpsOK, OpsSafe, Carries, Writing, Carrying
<1>once. ASSUME UNCHANGED issued PROVE IssuedOnce' /\ FileIssued'
  BY <1>0, <1>once DEF IssuedOnce, FileIssued
<1>fresh. ASSUME NEW h \in Hashes, NEW n \in Names, Fresh(h), issued' = issued \cup {<<h, n>>}
          PROVE  IssuedOnce' /\ FileIssued'
  BY <1>0, <1>fresh DEF IssuedOnce, Fresh, FileIssued
<1>1. ASSUME NEW p \in Procs, NEW n \in Names, NEW a \in Accounts \cup {None},
             NEW route \in Routes, NEW ensure \in BOOLEAN, Create(p, n, a, route, ensure)
      PROVE  SInv' /\ Grows
  <2> DEFINE R(h) == [hash |-> h, status |-> "pending", account |-> AccountOf(n, a),
                      provisioning |-> "pending", routing |-> route, version |-> 0]
             O(h) == [pc |-> IF LedgerEnabled THEN "createLedger" ELSE "createPut",
                      name |-> n, rec |-> R(h), hash |-> None,
                      scoped |-> a # None, ensure |-> ensure]
  <2>1. PICK h \in Hashes : /\ Fresh(h)
                            /\ CreateAccepted(n, R(h))
                            /\ CreateRecord(n, R(h))
                            /\ issued' = issued \cup {<<h, n>>}
                            /\ op' = [op EXCEPT ![p] = O(h)]
                            /\ UNCHANGED provisioned
    BY <1>1 DEF Create
  <2>2. R(h) \in AccessKeyRecord
    BY NamesAreAccounts DEF AccountOf, AccessKeyRecord, Status, Provisioning
  <2>3. Fit(n, R(h), issued', provisioned) /\ Fit(n, R(h), issued', provisioned')
    BY <2>1 DEF Fit
  <2>4. /\ O(h).pc = (IF LedgerEnabled THEN "createLedger" ELSE "createPut")
        /\ O(h).rec = R(h) /\ O(h).name = n /\ O(h).hash = None
    OBVIOUS
  <2> HIDE DEF R, O
  <2>5. StoreSafe' /\ Grows
    BY <1>0, <2>1, <2>2, <2>3, CreateSafe
  <2>6. record'[n] = R(h) /\ R(h) # NoRecord
    BY <2>1, <2>2, RecordsDiffer DEF CreateRecord, TInv, StoreOK
  <2>7. OpsSafe'
    <3> SUFFICES ASSUME NEW q \in Procs PROVE OpSafe(op[q])'
      BY DEF OpsSafe
    <3>1. CASE q = p
      <4>1. op'[q] = O(h)
        BY <2>1, <3>1 DEF TInv, OpsOK
      <4> QED BY <2>3, <2>4, <2>6, <4>1, LedgerSwitch DEF OpSafe, Exists, SameAccount
    <3>2. CASE q # p
      <4>1. op'[q] = op[q]
        BY <2>1, <3>2 DEF TInv, OpsOK
      <4> QED BY <1>0, <2>5, <4>1, StaysSafe DEF OpsSafe
    <3> QED BY <3>1, <3>2
  <2> QED BY <1>fresh, <2>1, <2>5, <2>7 DEF SInv, StoreSafe
<1>2. ASSUME NEW p \in Procs, NEW n \in Names, EnsureExisting(p, n) PROVE SInv' /\ Grows
  <2>1. StoreSafe' /\ Grows
    BY <1>0, <1>2, ReadSafe DEF EnsureExisting
  <2>2. OpsSafe'
    BY <1>0, <1>2, <2>1, StartSafe DEF EnsureExisting, PCs
  <2> QED BY <1>once, <1>2, <2>1, <2>2 DEF EnsureExisting, SInv, StoreSafe
<1>3. ASSUME NEW p \in Procs, NEW n \in Names,
             Provision(p, n) \/ Revoke(p, n) \/ Rotate(p, n)
      PROVE  SInv' /\ Grows
  <2>0. Exists(n) /\ UNCHANGED <<store, issued, provisioned>>
    BY <1>3 DEF Provision, Revoke, Rotate
  <2>1. StoreSafe' /\ Grows
    BY <1>0, <2>0, ReadSafe
  <2>2. PICK pc \in {"provisionLedger", "revokePut", "rotateWrite"} : Start(p, pc, n, record[n])
    BY <1>3 DEF Provision, Revoke, Rotate
  <2>3. OpsSafe'
    BY <1>0, <1>rec, <2>0, <2>1, <2>2, StartSafe DEF PCs, SameAccount
  <2> QED BY <1>once, <2>0, <2>1, <2>3 DEF SInv, StoreSafe
<1>4. ASSUME NEW p \in Procs, NEW n \in Names, NEW route \in Routes, UpdateRouting(p, n, route)
      PROVE  SInv' /\ Grows
  <2> DEFINE r == [record[n] EXCEPT !.routing = route]
  <2>0. Exists(n) /\ UNCHANGED <<store, issued, provisioned>> /\ Start(p, "routeCAS", n, r)
    BY <1>4 DEF UpdateRouting
  <2>1. StoreSafe' /\ Grows
    BY <1>0, <2>0, ReadSafe
  <2>2. /\ r.hash = record[n].hash /\ r.account = record[n].account
        /\ r.provisioning = record[n].provisioning
    BY <1>rec, <2>0 DEF AccessKeyRecord
  <2>3. Fit(n, r, issued, provisioned)
    BY <1>rec, <2>0, <2>2 DEF Fit
  <2> HIDE DEF r
  <2>4. OpsSafe'
    BY <1>0, <2>0, <2>1, <2>2, <2>3, StartSafe DEF PCs, SameAccount
  <2> QED BY <1>once, <2>0, <2>1, <2>4 DEF SInv, StoreSafe
<1>5. ASSUME NEW p \in Procs, CreateLedger(p) \/ ProvisionLedger(p) \/ DirectLedger(p)
      PROVE  SInv' /\ Grows
  <2>1. UNCHANGED <<store, issued>> /\ provisioned \subseteq provisioned'
    BY <1>5 DEF CreateLedger, ProvisionLedger, DirectLedger, LedgerSucceeds, LedgerFails
  <2>2. StoreSafe' /\ Grows
    BY <1>0, <2>1, ReadSafe
  <2>3. \/ Finish(p)
        \/ Goto(p, "createFailed")
        \/ \E pc \in {"createPut", "provisionPut"} :
              Goto(p, pc) /\ op[p].rec.account \in provisioned'
    BY <1>5 DEF CreateLedger, ProvisionLedger, DirectLedger, LedgerSucceeds
  <2>4. OpsSafe'
    BY <1>0, <2>2, <2>3, FinishSafe, GotoSafe
  <2> QED BY <1>once, <2>1, <2>2, <2>4 DEF SInv, StoreSafe
<1>6. ASSUME NEW p \in Procs, CreatePut(p) \/ CreateFailed(p) \/ ProvisionPut(p) \/ RevokePut(p)
      PROVE  SInv' /\ Grows
  <2>1. /\ op[p].name \in Names /\ op[p].rec \in AccessKeyRecord
        /\ OpSafe(op[p]) /\ op[p].rec # NoRecord
    BY <1>carried, <1>6 DEF CreatePut, CreateFailed, ProvisionPut, RevokePut, Writing
  <2>2. PICK r \in AccessKeyRecord :
          /\ PutAccessKey(op[p].name, r)
          /\ r.hash = op[p].rec.hash /\ r.account = op[p].rec.account
          /\ r.provisioning = "ready" =>
                \/ op[p].rec.provisioning = "ready"
                \/ op[p].pc \in {"createPut", "provisionPut"}
    <3> DEFINE active == [op[p].rec EXCEPT !.status = "active", !.provisioning = "ready"]
               failed == [op[p].rec EXCEPT !.status = "pending", !.provisioning = "failed"]
               revoked == [op[p].rec EXCEPT !.status = "revoked", !.version = @ + 1]
    <3>1. op[p].rec.version + 1 \in Nat
      BY <2>1 DEF AccessKeyRecord
    <3>2. /\ active \in AccessKeyRecord /\ active.hash = op[p].rec.hash
          /\ active.account = op[p].rec.account
      BY <2>1 DEF AccessKeyRecord, Status, Provisioning
    <3>3. /\ failed \in AccessKeyRecord /\ failed.hash = op[p].rec.hash
          /\ failed.account = op[p].rec.account /\ failed.provisioning = "failed"
      BY <2>1 DEF AccessKeyRecord, Status, Provisioning
    <3>4. /\ revoked \in AccessKeyRecord /\ revoked.hash = op[p].rec.hash
          /\ revoked.account = op[p].rec.account
          /\ revoked.provisioning = op[p].rec.provisioning
      BY <2>1, <3>1 DEF AccessKeyRecord, Status
    <3>5. \/ op[p].pc \in {"createPut", "provisionPut"} /\ PutAccessKey(op[p].name, active)
          \/ PutAccessKey(op[p].name, failed)
          \/ PutAccessKey(op[p].name, revoked)
      BY <1>6 DEF CreatePut, CreateFailed, ProvisionPut, RevokePut
    <3> HIDE DEF active, failed, revoked
    <3> QED BY <3>2, <3>3, <3>4, <3>5
  <2>3. Fit(op[p].name, r, issued, provisioned)
    BY <2>1, <2>2 DEF OpSafe, Fit
  <2>4. UNCHANGED <<issued, provisioned>> /\ (Finish(p) \/ Goto(p, "ensureCheck"))
    BY <1>6 DEF CreatePut, CreateFailed, ProvisionPut, RevokePut, EndCreate
  <2>5. Exists(op[p].name) /\ SameAccount(op[p].name, r)
    BY <2>1, <2>2 DEF OpSafe, SameAccount
  <2>6. StoreSafe' /\ Grows
    BY <1>0, <2>1, <2>2, <2>3, <2>4, <2>5, PutSafe
  <2>7. OpsSafe'
    BY <1>0, <2>4, <2>6, FinishSafe, GotoSafe
  <2> QED BY <1>once, <2>4, <2>6, <2>7 DEF SInv, StoreSafe
<1>7. ASSUME NEW p \in Procs, EnsureCheck(p) PROVE SInv' /\ Grows
  <2>1. op[p].name \in Names
    BY <1>7 DEF EnsureCheck, TInv, OpsOK, Carries
  <2>2. UNCHANGED <<store, issued, provisioned>>
    BY <1>7 DEF EnsureCheck
  <2>3. StoreSafe' /\ Grows
    BY <1>0, <2>2, ReadSafe
  <2>4. \/ Finish(p)
        \/ Exists(op[p].name) /\ Start(p, "provisionLedger", op[p].name, record[op[p].name])
    BY <1>7 DEF EnsureCheck
  <2>5. OpsSafe'
    BY <1>0, <1>rec, <2>1, <2>3, <2>4, FinishSafe, StartSafe DEF PCs, SameAccount
  <2> QED BY <1>once, <2>2, <2>3, <2>5 DEF SInv, StoreSafe
<1>8. ASSUME NEW p \in Procs, RotateWrite(p) PROVE SInv' /\ Grows
  <2>1. PICK h \in Hashes :
          /\ Fresh(h)
          /\ index' = [index EXCEPT ![op[p].rec.hash] = None, ![h] = op[p].name]
          /\ record' = [record EXCEPT ![op[p].name] =
                           [op[p].rec EXCEPT !.hash = h, !.version = @ + 1]]
          /\ issued' = issued \cup {<<h, op[p].name>>}
          /\ Finish(p)
          /\ UNCHANGED <<accountIndex, provisioned>>
    BY <1>8 DEF RotateWrite
  <2>2. /\ op[p].name \in Names /\ op[p].rec \in AccessKeyRecord
        /\ OpSafe(op[p]) /\ op[p].rec # NoRecord
    BY <1>carried, <1>8 DEF RotateWrite, Writing
  <2> DEFINE n == op[p].name
             r == [op[p].rec EXCEPT !.hash = h, !.version = @ + 1]
  <2>3. /\ r # NoRecord /\ r.hash = h /\ r.account = op[p].rec.account
        /\ r.provisioning = op[p].rec.provisioning
    <3>1. op[p].rec.version + 1 \in Nat
      BY <2>2 DEF AccessKeyRecord
    <3>2. r \in AccessKeyRecord
      BY <2>2, <3>1 DEF AccessKeyRecord
    <3> QED BY <2>2, <3>2, RecordsDiffer DEF AccessKeyRecord
  <2>4. Exists(n) /\ SameAccount(n, r)
    BY <2>2, <2>3 DEF OpSafe, SameAccount
  <2>5. Fit(n, r, issued', provisioned')
    BY <2>1, <2>2, <2>3 DEF OpSafe, Fit
  <2> HIDE DEF r
  <2>6. \A m \in Names : record'[m] = IF m = n THEN r ELSE record[m]
    BY <2>1, <2>2 DEF TInv, StoreOK, r
  <2>7. \A g \in Hashes : index'[g] \in {None, index[g]} \/ (g = h /\ index'[g] = n)
    BY <2>1 DEF TInv, StoreOK
  <2>8. Grows
    BY <2>1, <2>3, <2>4, <2>6 DEF Grows, Exists, SameAccount
  <2>9. RecordsFit' /\ IndexIssued'
    <3>1. issued \subseteq issued' /\ <<h, n>> \in issued' /\ UNCHANGED provisioned
      BY <2>1
    <3>2. ASSUME NEW m \in Names, record'[m] # NoRecord
          PROVE  Fit(m, record'[m], issued', provisioned')
      <4>1. CASE m = n
        BY <2>5, <2>6, <4>1
      <4>2. CASE m # n
        <5>1. record'[m] = record[m] /\ Exists(m)
          BY <2>6, <3>2, <4>2 DEF Exists
        <5> QED BY <1>0, <3>1, <5>1 DEF StoreSafe, RecordsFit, Fit
      <4> QED BY <4>1, <4>2
    <3>3. RecordsFit'
      BY <3>2 DEF RecordsFit, Exists
    <3>4. IndexIssued'
      BY <1>0, <2>7, <3>1 DEF StoreSafe, IndexIssued
    <3> QED BY <3>3, <3>4
  <2>10. IndexesPointAtRecords'
    <3>1. \A g \in Hashes : index'[g] # None => index'[g] \in Names /\ record'[index'[g]] # NoRecord
      BY <1>0, <2>2, <2>3, <2>6, <2>7 DEF StoreSafe, IndexesPointAtRecords, Exists, TInv, StoreOK
    <3>2. \A a \in Accounts : accountIndex'[a] # None =>
            /\ record'[accountIndex'[a]] # NoRecord
            /\ accountIndex'[a] \in Unmigrated => record'[accountIndex'[a]].account = a
      BY <1>0, <2>1, <2>3, <2>4, <2>6
      DEF StoreSafe, IndexesPointAtRecords, Exists, SameAccount, TInv, StoreOK
    <3> QED BY <3>1, <3>2 DEF IndexesPointAtRecords, Exists
  <2>11. OpsSafe'
    BY <1>0, <2>1, <2>8, FinishSafe
  <2> QED BY <1>fresh, <2>1, <2>2, <2>8, <2>9, <2>10, <2>11 DEF SInv
<1>9. ASSUME NEW p \in Procs, RouteCAS(p) PROVE SInv' /\ Grows
  <2>2. /\ op[p].name \in Names /\ op[p].rec \in AccessKeyRecord
        /\ OpSafe(op[p]) /\ op[p].rec # NoRecord
    BY <1>carried, <1>9 DEF RouteCAS, Writing
  <2> DEFINE n == op[p].name
             r == [op[p].rec EXCEPT !.version = @ + 1]
  <2>3. /\ r # NoRecord /\ r.hash = op[p].rec.hash /\ r.account = op[p].rec.account
        /\ r.provisioning = op[p].rec.provisioning
    <3>1. op[p].rec.version + 1 \in Nat
      BY <2>2 DEF AccessKeyRecord
    <3>2. r \in AccessKeyRecord
      BY <2>2, <3>1 DEF AccessKeyRecord
    <3> QED BY <2>2, <3>2, RecordsDiffer DEF AccessKeyRecord
  <2>4. /\ UNCHANGED record \/ record' = [record EXCEPT ![n] = r]
        /\ UNCHANGED <<index, accountIndex, issued, provisioned>>
        /\ Finish(p)
    BY <1>9 DEF RouteCAS
  <2>5. Exists(n) /\ SameAccount(n, r) /\ Fit(n, r, issued, provisioned)
    BY <2>2, <2>3 DEF OpSafe, Fit, SameAccount
  <2> HIDE DEF r
  <2>6. \A m \in Names : record'[m] \in {record[m]} \/ (m = n /\ record'[m] = r)
    BY <2>2, <2>4 DEF TInv, StoreOK
  <2>7. Grows
    BY <2>3, <2>4, <2>5, <2>6 DEF Grows, Exists, SameAccount
  <2>8. RecordsFit' /\ IndexIssued'
    BY <1>0, <2>4, <2>5, <2>6 DEF StoreSafe, RecordsFit, IndexIssued, Exists, Fit
  <2>9. IndexesPointAtRecords'
    BY <1>0, <2>3, <2>4, <2>5, <2>6
    DEF StoreSafe, IndexesPointAtRecords, Exists, SameAccount, TInv, StoreOK
  <2>10. OpsSafe'
    BY <1>0, <2>4, <2>7, FinishSafe
  <2> QED BY <1>once, <2>4, <2>7, <2>8, <2>9, <2>10 DEF SInv
<1>10. ASSUME NEW p \in Procs, NEW h \in Hashes, LookupIndex(p, h) PROVE SInv' /\ Grows
  <2>1. StoreSafe' /\ Grows
    BY <1>0, <1>10, ReadSafe DEF LookupIndex
  <2>2. <<h, index[h]>> \in issued
    BY <1>0, <1>10 DEF LookupIndex, StoreSafe, IndexIssued
  <2>3. OpsSafe'
    <3> SUFFICES ASSUME NEW q \in Procs PROVE OpSafe(op[q])'
      BY DEF OpsSafe
    <3>1. CASE q = p
      <4>1. op'[q].hash = h /\ op'[q].name = index[h] /\ op'[q].rec = NoRecord
        BY <1>10, <3>1 DEF LookupIndex, TInv, OpsOK, Idle
      <4> QED BY <1>10, <2>2, <4>1 DEF LookupIndex, OpSafe
    <3>2. CASE q # p
      <4>1. op'[q] = op[q]
        BY <1>10, <3>2 DEF LookupIndex, TInv, OpsOK
      <4> QED BY <1>0, <2>1, <4>1, StaysSafe DEF OpsSafe
    <3> QED BY <3>1, <3>2
  <2> QED BY <1>once, <1>10, <2>1, <2>3 DEF LookupIndex, SInv, StoreSafe
<1>11. ASSUME NEW p \in Procs, LookupRecord(p) PROVE SInv' /\ Grows
  <2>1. UNCHANGED <<store, issued, provisioned>>
    BY <1>11 DEF LookupRecord
  <2>2. StoreSafe' /\ Grows
    BY <1>0, <2>1, ReadSafe
  <2>3. OpsSafe'
    <3>1. CASE Finish(p)
      BY <1>0, <2>2, <3>1, FinishSafe
    <3>2. CASE /\ Exists(op[p].name)
               /\ op' = [op EXCEPT ![p].pc = "served", ![p].rec = record[op[p].name]]
      <4> SUFFICES ASSUME NEW q \in Procs PROVE OpSafe(op[q])'
        BY DEF OpsSafe
      <4>1. CASE q = p
        <5>1. /\ op'[q].pc = "served" /\ op'[q].rec = record[op[p].name]
              /\ op'[q].name = op[p].name /\ op'[q].hash = op[p].hash
          BY <3>2, <4>1 DEF TInv, OpsOK, Operation
        <5>2. op[p].name \in Names
          BY <1>11 DEF LookupRecord, TInv, OpsOK, Carries
        <5>3. OpSafe(op[p])
          BY <1>0 DEF OpsSafe
        <5>4. (op[p].hash # None => <<op[p].hash, op[p].name>> \in issued)
          BY <5>3 DEF OpSafe
        <5>5. record' = record /\ issued' = issued /\ provisioned' = provisioned
          BY <2>1 DEF store
        <5>6. Fit(op[p].name, record[op[p].name], issued, provisioned)
          BY <1>rec, <3>2, <5>2
        <5>7. record[op[p].name] # NoRecord
          BY <3>2 DEF Exists
        <5> DEFINE m == op[p].name
                   g == op[p].hash
        <5>8. op'[q].pc = "served" /\ op'[q].rec = record[m] /\ op'[q].name = m /\ op'[q].hash = g
          BY <5>1
        <5> HIDE DEF m, g
        <5>9. (OpSafe(op[q]))'
          BY <5>4, <5>5, <5>6, <5>7, <5>8 DEF OpSafe, Fit, Exists, SameAccount, m, g
        <5> QED BY <5>9
      <4>2. CASE q # p
        <5>1. op'[q] = op[q]
          BY <3>2, <4>2 DEF TInv, OpsOK
        <5> QED BY <1>0, <2>2, <5>1, StaysSafe DEF OpsSafe
      <4> QED BY <4>1, <4>2
    <3> QED BY <1>11, <3>1, <3>2 DEF LookupRecord
  <2> QED BY <1>once, <2>1, <2>2, <2>3 DEF SInv, StoreSafe
<1>12. ASSUME NEW p \in Procs, Abort(p) PROVE SInv' /\ Grows
  <2>1. StoreSafe' /\ Grows
    BY <1>0, <1>12, ReadSafe DEF Abort
  <2>2. OpsSafe'
    BY <1>0, <1>12, <2>1, FinishSafe, GotoSafe DEF Abort
  <2> QED BY <1>once, <1>12, <2>1, <2>2 DEF Abort, SInv, StoreSafe
<1>13. ASSUME NEW n \in Names, Migrate(n) PROVE SInv' /\ Grows
  <2>1. CreateRecord(n, FileRecord(n)) /\ CreateAccepted(n, FileRecord(n))
        /\ UNCHANGED <<issued, provisioned, op>>
    BY <1>13 DEF Migrate
  <2>2. /\ FileRecord(n) \in AccessKeyRecord
        /\ Fit(n, FileRecord(n), issued', provisioned)
    BY <1>0, <1>13, <2>1, FileRecords DEF Migrate, FileIssued, Fit
  <2>3. StoreSafe' /\ Grows
    BY <1>0, <2>1, <2>2, CreateSafe
  <2>4. OpsSafe'
    BY <1>0, <2>1, <2>3, StaysSafe DEF OpsSafe
  <2> QED BY <1>once, <2>1, <2>3, <2>4 DEF SInv, StoreSafe
<1>14. CASE InitializeExisting
  <2>1. UNCHANGED <<store, issued>> /\ provisioned \subseteq provisioned' /\ UNCHANGED op
    BY <1>14 DEF InitializeExisting
  <2>2. StoreSafe' /\ Grows
    BY <1>0, <2>1, ReadSafe
  <2>3. OpsSafe'
    BY <1>0, <2>1, <2>2, StaysSafe DEF OpsSafe
  <2> QED BY <1>once, <2>1, <2>2, <2>3 DEF SInv, StoreSafe
<1>15. CASE UNCHANGED vars
  <2>1. UNCHANGED <<store, issued>> /\ provisioned \subseteq provisioned' /\ UNCHANGED op
    BY <1>15 DEF vars, store
  <2>2. StoreSafe' /\ Grows
    BY <1>0, <2>1, ReadSafe
  <2>3. OpsSafe'
    BY <1>0, <2>1, <2>2, StaysSafe DEF OpsSafe
  <2> QED BY <1>once, <2>1, <2>2, <2>3 DEF SInv, StoreSafe
<1>16. ASSUME NEW p \in Procs, NEW n \in Names, NEW r \in AccessKeyRecord, NEW given,
              CreateAccepted(n, r), CreateRecord(n, r), issued \subseteq issued',
              Fit(n, r, issued', provisioned), ThenProvision(p, n, r, given),
              UNCHANGED provisioned
       PROVE  StoreSafe' /\ Grows /\ OpsSafe'
  <2>1. StoreSafe' /\ Grows
    BY <1>0, <1>16, CreateSafe
  <2>2. record'[n] = r /\ r # NoRecord
    BY <1>16, RecordsDiffer DEF CreateRecord, TInv, StoreOK
  <2>3. CASE UNCHANGED op
    BY <1>0, <2>1, <2>3, StaysSafe DEF OpsSafe
  <2>4. CASE Start(p, "directLedger", n, r)
    <3> SUFFICES ASSUME NEW q \in Procs PROVE OpSafe(op[q])'
      BY <2>1 DEF OpsSafe
    <3>1. CASE q = p
      <4>1. /\ op'[q].pc = "directLedger" /\ op'[q].rec = r
            /\ op'[q].name = n /\ op'[q].hash = None
        BY <2>4, <3>1 DEF Start, TInv, OpsOK, Idle
      <4> QED BY <1>16, <2>2, <4>1 DEF OpSafe, Exists, SameAccount, Fit
    <3>2. CASE q # p
      <4>1. op'[q] = op[q]
        BY <2>4, <3>2 DEF Start, TInv, OpsOK
      <4> QED BY <1>0, <2>1, <4>1, StaysSafe DEF OpsSafe
    <3> QED BY <3>1, <3>2
  <2> QED BY <1>16, <2>1, <2>3, <2>4 DEF ThenProvision
<1>17. ASSUME NEW p \in Procs, NEW n \in Names, NEW a \in Accounts \cup {None},
              NEW route \in Routes, DirectCreate(p, n, a, route)
       PROVE  SInv' /\ Grows
  <2> DEFINE R(h) == [hash |-> h, status |-> "active", account |-> AccountOf(n, a),
                      provisioning |-> "", routing |-> route, version |-> 0]
  <2>1. PICK h \in Hashes : /\ Fresh(h)
                            /\ CreateAccepted(n, R(h))
                            /\ CreateRecord(n, R(h))
                            /\ issued' = issued \cup {<<h, n>>}
                            /\ ThenProvision(p, n, R(h), a # None)
                            /\ UNCHANGED provisioned
    BY <1>17 DEF DirectCreate
  <2>2. R(h) \in AccessKeyRecord
    BY NamesAreAccounts DEF AccountOf, AccessKeyRecord, Status, Provisioning
  <2>3. Fit(n, R(h), issued', provisioned)
    BY <2>1 DEF Fit
  <2> HIDE DEF R
  <2>4. StoreSafe' /\ Grows /\ OpsSafe'
    BY <1>16, <2>1, <2>2, <2>3
  <2> QED BY <1>fresh, <2>1, <2>4 DEF SInv, StoreSafe
<1>18. ASSUME NEW p \in Procs, NEW n \in Names, DirectMigrate(p, n) PROVE SInv' /\ Grows
  <2>1. /\ CreateAccepted(n, FileRecord(n)) /\ CreateRecord(n, FileRecord(n))
        /\ ThenProvision(p, n, FileRecord(n), TRUE) /\ UNCHANGED <<issued, provisioned>>
    BY <1>18 DEF DirectMigrate
  <2>2. /\ FileRecord(n) \in AccessKeyRecord
        /\ Fit(n, FileRecord(n), issued', provisioned)
    BY <1>0, <1>18, <2>1, FileRecords DEF DirectMigrate, FileIssued, Fit
  <2>3. StoreSafe' /\ Grows /\ OpsSafe'
    BY <1>16, <2>1, <2>2
  <2> QED BY <1>once, <2>1, <2>3 DEF SInv, StoreSafe
<1>19. ASSUME NEW p \in Procs, NEW n \in Names, MigrateRead(p, n) PROVE SInv' /\ Grows
  <2>1. StoreSafe' /\ Grows
    BY <1>0, <1>19, ReadSafe DEF MigrateRead
  <2>2. OpsSafe'
    BY <1>0, <1>19, <2>1, StartSafe DEF MigrateRead, PCs
  <2> QED BY <1>once, <1>19, <2>1, <2>2 DEF MigrateRead, SInv, StoreSafe
<1>20. ASSUME NEW p \in Procs, MigratePut(p) PROVE SInv' /\ Grows
  <2> DEFINE n == op[p].name
  <2>1. n \in DOMAIN FileHash
    BY <1>20 DEF MigratePut, TInv, OpsOK, Carries
  <2>2. /\ n \in Names /\ FileRecord(n) \in AccessKeyRecord
        /\ Fit(n, FileRecord(n), issued, provisioned) /\ SameAccount(n, FileRecord(n))
    BY <1>0, <2>1, FileRecords DEF FileIssued, Fit, SameAccount, Unmigrated
  <2>3. /\ PutAccessKey(n, FileRecord(n)) /\ Finish(p)
        /\ UNCHANGED <<issued, provisioned>>
    BY <1>20 DEF MigratePut
  <2> HIDE DEF n
  <2>4. StoreSafe' /\ Grows
    BY <1>0, <2>2, <2>3, PutSafe
  <2>5. OpsSafe'
    BY <1>0, <2>3, <2>4, FinishSafe
  <2> QED BY <1>once, <2>3, <2>4, <2>5 DEF SInv, StoreSafe
<1> QED
  BY <1>1, <1>2, <1>3, <1>4, <1>5, <1>6, <1>7, <1>8, <1>9, <1>10, <1>11, <1>12,
     <1>13, <1>14, <1>15, <1>17, <1>18, <1>19, <1>20 DEF Next

LEMMA SafetyHolds == Spec => [](TInv /\ SInv)
<1>1. Init => TInv /\ SInv
  BY InitTyped, InitSafe
<1>2. TInv /\ SInv /\ [Next]_vars => TInv' /\ SInv'
  BY StepTyped, StepSafe
<1> QED BY <1>1, <1>2, PTL DEF Spec

\* A secret authenticates only as the key it was issued for, under any number
\* of concurrent creates, rotations, revocations and lookups.
THEOREM SecretsSafe == Spec => []SecretsStayWithTheirKey
<1>1. SInv => SecretsStayWithTheirKey
  BY DEF SInv, RecordsFit, IssuedOnce, IndexIssued, OpsSafe, OpSafe, Fit, SecretsStayWithTheirKey
<1> QED BY <1>1, SafetyHolds, PTL

\* No index entry, of a secret or of an account, points at a missing record, and an
\* account's entry names a key of that account unless keys.yaml names the key.
THEOREM IndexesSafe == Spec => []IndexesPointAtRecords
<1>1. SInv => IndexesPointAtRecords
  BY DEF SInv
<1> QED BY <1>1, SafetyHolds, PTL

\* Every copy of a record in flight is of a stored key, and names its billing
\* account unless keys.yaml names the key.
THEOREM AccountsFixed == Spec => []AccountIsFixed
<1>1. SInv => AccountIsFixed
  BY DEF SInv, OpsSafe, OpSafe, SameAccount, AccountIsFixed
<1> QED BY <1>1, SafetyHolds, PTL

\* A key marked ready has the initial credit of its account in the ledger.
THEOREM ReadySafe == Spec => []ReadyIsProvisioned
<1>1. SInv => ReadyIsProvisioned
  BY DEF SInv, RecordsFit, Fit, ReadyIsProvisioned
<1> QED BY <1>1, SafetyHolds, PTL

\* No step removes a key, or moves one that keys.yaml does not name to another
\* billing account.
THEOREM AccountsNeverChange == Spec => AccountNeverChanges
<1>1. TInv /\ SInv /\ [Next]_vars =>
        [\A n \in Names : Exists(n) =>
            /\ record'[n] # NoRecord
            /\ n \in Unmigrated => record'[n].account = record[n].account]_record
  BY StepSafe DEF Grows, Exists
<1> QED BY <1>1, SafetyHolds, PTL DEF Spec, AccountNeverChanges

-----------------------------------------------------------------------------
(* What serialised operations keep: both indexes are exact.                  *)

Serial == \A p, q \in Procs : p = q

Exact == OnlyCurrentSecrets /\ AccountIndexIsExact

\* With nobody else at work the copy an operation carries has the secret, the
\* status and the account of the stored record, and what it will activate is pending.  This
\* is what the interleavings of several processes break.
UpToDate(o) ==
    o.pc \in Writing =>
        /\ record[o.name].hash = o.rec.hash /\ record[o.name].status = o.rec.status
        /\ record[o.name].account = o.rec.account
        /\ o.pc \notin {"revokePut", "rotateWrite", "routeCAS"} => o.rec.status = "pending"

RInv == Exact /\ \A p \in Procs : UpToDate(op[p])

\* No step brings a revoked key back, unless a migration overwrites it.
NoRevival ==
    \A n \in Names : Exists(n) /\ record[n].status = "revoked" =>
        record'[n].status = "revoked" \/ OverwrittenByMigration(n)

\* A put under a secret that is no other key's keeps the indexes exact.
LEMMA PutExact ==
    ASSUME TInv, Exact, NEW n \in Names, NEW r \in AccessKeyRecord,
           index[r.hash] \in {None, n}, PutAccessKey(n, r),
           Exists(n) /\ record[n].status = "revoked" =>
               r.status = "revoked" \/ (n \in DOMAIN FileHash /\ r = FileRecord(n))
    PROVE  Exact' /\ NoRevival
<1>0. r # NoRecord /\ r.hash \in Hashes /\ r.account \in Accounts
  BY RecordsDiffer DEF AccessKeyRecord
<1>1. CASE PutAccepted(n, r)
  <2>1. /\ record' = [record EXCEPT ![n] = r] /\ index' = PutIndex(n, r)
        /\ accountIndex' = PutAccountIndex(n, r)
    BY <1>1 DEF PutAccessKey
  <2>2. \A m \in Names : record'[m] = IF m = n THEN r ELSE record[m]
    BY <2>1 DEF TInv, StoreOK
  <2>3. \A h \in Hashes :
          index'[h] = IF h = r.hash THEN n ELSE IF index[h] = n THEN None ELSE index[h]
    BY <2>1 DEF PutIndex, Exact, OnlyCurrentSecrets
  <2>4. \A a \in Accounts :
          accountIndex'[a] = IF a = r.account /\ r.status = "active" THEN n
                             ELSE IF accountIndex[a] = n THEN None ELSE accountIndex[a]
    BY <2>1 DEF PutAccountIndex, Exact, AccountIndexIsExact
  <2>5. \A m \in Names : None # m
    BY NoneIsNothing
  <2>6. OnlyCurrentSecrets'
    <3> SUFFICES ASSUME NEW h \in Hashes, NEW m \in Names
                 PROVE  (index[h] = m <=> Exists(m) /\ record[m].hash = h)'
      BY DEF OnlyCurrentSecrets
    <3>1. index[h] = m <=> Exists(m) /\ record[m].hash = h
      BY DEF Exact, OnlyCurrentSecrets
    <3>2. CASE m = n
      BY <1>0, <2>2, <2>3, <2>5, <3>2 DEF Exists
    <3>3. CASE m # n
      BY <2>2, <2>3, <2>5, <3>1, <3>3 DEF Exists
    <3> QED BY <3>2, <3>3
  <2>7. AccountIndexIsExact'
    <3> SUFFICES ASSUME NEW a \in Accounts, NEW m \in Names
                 PROVE  (accountIndex[a] = m <=>
                           Exists(m) /\ record[m].status = "active" /\ record[m].account = a)'
      BY DEF AccountIndexIsExact
    <3>1. accountIndex[a] = m <=> Exists(m) /\ record[m].status = "active" /\ record[m].account = a
      BY DEF Exact, AccountIndexIsExact
    <3>2. r.status = "active" => accountIndex[r.account] \in {None, n}
      BY <1>1 DEF PutAccepted
    <3>3. CASE m = n
      BY <1>0, <2>2, <2>4, <2>5, <3>3 DEF Exists
    <3>4. CASE m # n
      BY <2>2, <2>4, <2>5, <3>1, <3>2, <3>4 DEF Exists
    <3> QED BY <3>3, <3>4
  <2>8. NoRevival
    BY <2>2 DEF NoRevival, OverwrittenByMigration
  <2> QED BY <2>6, <2>7, <2>8 DEF Exact
<1>2. CASE ~PutAccepted(n, r)
  BY <1>2 DEF PutAccessKey, store, Exact, OnlyCurrentSecrets, AccountIndexIsExact, Exists, NoRevival
<1> QED BY <1>1, <1>2

\* So does a create.
LEMMA CreateExact ==
    ASSUME TInv, Exact, NEW n \in Names, NEW r \in AccessKeyRecord,
           CreateAccepted(n, r), CreateRecord(n, r)
    PROVE  Exact' /\ NoRevival
<1>0. r # NoRecord /\ r.hash \in Hashes /\ r.account \in Accounts
  BY RecordsDiffer DEF AccessKeyRecord
<1>1. ~Exists(n) /\ index[r.hash] = None /\ (r.status = "active" => accountIndex[r.account] = None)
  BY DEF CreateAccepted
<1>2. \A m \in Names : record'[m] = IF m = n THEN r ELSE record[m]
  BY DEF CreateRecord, TInv, StoreOK
<1>3. \A h \in Hashes : index'[h] = IF h = r.hash THEN n ELSE index[h]
  BY DEF CreateRecord, TInv, StoreOK
<1>4. \A a \in Accounts :
        accountIndex'[a] = IF a = r.account /\ r.status = "active" THEN n ELSE accountIndex[a]
  BY DEF CreateRecord, TInv, StoreOK
<1>5. \A m \in Names : None # m
  BY NoneIsNothing
<1>6. OnlyCurrentSecrets'
  BY <1>0, <1>1, <1>2, <1>3, <1>5 DEF Exact, OnlyCurrentSecrets, Exists
<1>7. AccountIndexIsExact'
  BY <1>0, <1>1, <1>2, <1>4, <1>5 DEF Exact, AccountIndexIsExact, Exists
<1>8. NoRevival
  BY <1>1, <1>2 DEF NoRevival
<1> QED BY <1>6, <1>7, <1>8 DEF Exact

LEMMA ReadExact ==
    ASSUME Exact, UNCHANGED store
    PROVE  Exact' /\ NoRevival
BY DEF store, Exact, OnlyCurrentSecrets, AccountIndexIsExact, Exists, NoRevival

\* The only process ends or goes on to a step that writes nothing,
LEMMA AtRest ==
    ASSUME Serial, TInv, NEW p \in Procs,
           Finish(p) \/ \E pc \in PCs \ Writing : Goto(p, pc)
    PROVE  (\A q \in Procs : UpToDate(op[q]))'
<1>1. op'[p].pc \notin Writing
  BY DEF Finish, Goto, TInv, OpsOK, Operation, Idle, Writing
<1> QED BY <1>1 DEF Serial, UpToDate

\* or has just read the record it will write.
LEMMA HasRead ==
    ASSUME Serial, TInv, UNCHANGED store, NEW p \in Procs, NEW n \in Names, NEW r,
           NEW pc \in Writing, Start(p, pc, n, r),
           record[n].hash = r.hash, record[n].status = r.status, record[n].account = r.account,
           pc \notin {"revokePut", "rotateWrite", "routeCAS"} => r.status = "pending"
    PROVE  (\A q \in Procs : UpToDate(op[q]))'
<1>1. op'[p].pc = pc /\ op'[p].name = n /\ op'[p].rec = r
  BY DEF Start, TInv, OpsOK, Idle
<1>2. record' = record
  BY DEF store
<1> QED BY <1>1, <1>2 DEF Serial, UpToDate

LEMMA InitExact == Init => RInv
<1> SUFFICES ASSUME Init PROVE RInv
  OBVIOUS
<1>1. Exact
  BY NoneIsNothing DEF Init, Exact, OnlyCurrentSecrets, AccountIndexIsExact, Exists
<1>2. \A p \in Procs : UpToDate(op[p])
  BY DEF Init, UpToDate, Idle, Writing
<1> QED BY <1>1, <1>2 DEF RInv

LEMMA StepExact == Serial /\ TInv /\ SInv /\ RInv /\ [Next]_vars => RInv' /\ NoRevival
<1> SUFFICES ASSUME Serial, TInv, SInv, RInv, [Next]_vars PROVE RInv' /\ NoRevival
  OBVIOUS
<1>0. Exact /\ OpsSafe /\ \A p \in Procs : UpToDate(op[p])
  BY DEF SInv, RInv
<1>carried. \A p \in Procs : op[p].pc \in Writing =>
              /\ op[p].name \in Names /\ op[p].rec \in AccessKeyRecord
              /\ Exists(op[p].name) /\ record[op[p].name].account = op[p].rec.account
  BY <1>0, RecordsDiffer DEF TInv, OpsOK, OpsSafe, OpSafe, Carries, Writing, Carrying, UpToDate
<1>1. ASSUME NEW p \in Procs, NEW n \in Names, NEW a \in Accounts \cup {None},
             NEW route \in Routes, NEW ensure \in BOOLEAN, Create(p, n, a, route, ensure)
      PROVE  RInv' /\ NoRevival
  <2> DEFINE R(h) == [hash |-> h, status |-> "pending", account |-> AccountOf(n, a),
                      provisioning |-> "pending", routing |-> route, version |-> 0]
             O(h) == [pc |-> IF LedgerEnabled THEN "createLedger" ELSE "createPut",
                      name |-> n, rec |-> R(h), hash |-> None,
                      scoped |-> a # None, ensure |-> ensure]
  <2>1. PICK h \in Hashes : /\ CreateAccepted(n, R(h))
                            /\ CreateRecord(n, R(h))
                            /\ op' = [op EXCEPT ![p] = O(h)]
    BY <1>1 DEF Create
  <2>2. R(h) \in AccessKeyRecord
    BY NamesAreAccounts DEF AccountOf, AccessKeyRecord, Status, Provisioning
  <2>3. O(h).rec = R(h) /\ O(h).name = n /\ R(h).status = "pending"
    OBVIOUS
  <2> HIDE DEF R, O
  <2>4. Exact' /\ NoRevival
    BY <1>0, <2>1, <2>2, CreateExact
  <2>5. record'[n] = R(h) /\ op'[p] = O(h)
    BY <2>1 DEF CreateRecord, TInv, StoreOK, OpsOK
  <2>6. UpToDate(op[p])'
    BY <2>3, <2>5 DEF UpToDate
  <2> QED BY <2>4, <2>6 DEF Serial, RInv
<1>2. ASSUME NEW p \in Procs, NEW n \in Names, EnsureExisting(p, n) PROVE RInv' /\ NoRevival
  <2>1. op'[p].pc = "ensureCheck"
    BY <1>2 DEF EnsureExisting, Start, Idle, TInv, OpsOK
  <2>2. UpToDate(op[p])'
    BY <2>1 DEF UpToDate, Writing
  <2>3. Exact' /\ NoRevival
    BY <1>0, <1>2, ReadExact DEF EnsureExisting
  <2> QED BY <2>2, <2>3 DEF Serial, RInv
<1>3. ASSUME NEW p \in Procs, NEW n \in Names,
             Provision(p, n) \/ Revoke(p, n) \/ Rotate(p, n)
      PROVE  RInv' /\ NoRevival
  <2>1. UNCHANGED store
    BY <1>3 DEF Provision, Revoke, Rotate
  <2>2. PICK pc \in {"provisionLedger", "revokePut", "rotateWrite"} :
          Start(p, pc, n, record[n]) /\ (pc = "provisionLedger" => record[n].status = "pending")
    BY <1>3 DEF Provision, Revoke, Rotate
  <2>3. pc \in Writing
    BY DEF Writing
  <2>4. (\A q \in Procs : UpToDate(op[q]))'
    BY <2>1, <2>2, <2>3, HasRead
  <2>5. Exact' /\ NoRevival
    BY <1>0, <2>1, ReadExact
  <2> QED BY <2>4, <2>5 DEF RInv
<1>4. ASSUME NEW p \in Procs, NEW n \in Names, NEW route \in Routes, UpdateRouting(p, n, route)
      PROVE  RInv' /\ NoRevival
  <2> DEFINE r == [record[n] EXCEPT !.routing = route]
  <2>1. UNCHANGED store /\ Start(p, "routeCAS", n, r)
    BY <1>4 DEF UpdateRouting
  <2>2. record[n] \in AccessKeyRecord
    BY <1>4 DEF UpdateRouting, Exists, TInv, StoreOK
  <2>3. r.hash = record[n].hash /\ r.status = record[n].status /\ r.account = record[n].account
    BY <2>2 DEF AccessKeyRecord
  <2> HIDE DEF r
  <2>4. "routeCAS" \in Writing
    BY DEF Writing
  <2>5. (\A q \in Procs : UpToDate(op[q]))'
    BY <2>1, <2>3, <2>4, HasRead
  <2>6. Exact' /\ NoRevival
    BY <1>0, <2>1, ReadExact
  <2> QED BY <2>5, <2>6 DEF RInv
<1>5. ASSUME NEW p \in Procs, CreateLedger(p) \/ ProvisionLedger(p) PROVE RInv' /\ NoRevival
  <2>1. UNCHANGED store /\ op[p].pc \in {"createLedger", "provisionLedger"}
    BY <1>5 DEF CreateLedger, ProvisionLedger
  <2>2. Finish(p) \/ \E pc \in {"createPut", "createFailed", "provisionPut"} : Goto(p, pc)
    BY <1>5 DEF CreateLedger, ProvisionLedger
  <2>3. CASE Finish(p)
    BY <1>0, <2>1, <2>3, AtRest, ReadExact DEF RInv
  <2>4. ASSUME NEW pc \in {"createPut", "createFailed", "provisionPut"}, Goto(p, pc)
        PROVE  RInv' /\ NoRevival
    <3>1. op'[p].pc = pc /\ op'[p].name = op[p].name /\ op'[p].rec = op[p].rec
      BY <2>4 DEF Goto, TInv, OpsOK, Operation
    <3>2. op[p].pc \in Writing /\ op[p].rec.status = "pending"
      BY <1>0, <2>1 DEF UpToDate, Writing
    <3>3. record' = record
      BY <2>1 DEF store
    <3>4. UpToDate(op[p])'
      BY <1>0, <3>1, <3>2, <3>3 DEF UpToDate
    <3> QED BY <1>0, <2>1, <3>4, ReadExact DEF Serial, RInv
  <2> QED BY <2>2, <2>3, <2>4
<1>6. ASSUME NEW p \in Procs, CreatePut(p) \/ CreateFailed(p) \/ ProvisionPut(p) \/ RevokePut(p)
      PROVE  RInv' /\ NoRevival
  <2>1. /\ op[p].name \in Names /\ op[p].rec \in AccessKeyRecord /\ Exists(op[p].name)
        /\ record[op[p].name].account = op[p].rec.account
        /\ record[op[p].name].hash = op[p].rec.hash
        /\ record[op[p].name].status = op[p].rec.status
        /\ op[p].pc # "revokePut" => op[p].rec.status = "pending"
    BY <1>0, <1>carried, <1>6 DEF CreatePut, CreateFailed, ProvisionPut, RevokePut, Writing, UpToDate
  <2>2. PICK r \in AccessKeyRecord :
          /\ PutAccessKey(op[p].name, r)
          /\ r.hash = op[p].rec.hash /\ r.account = op[p].rec.account
          /\ op[p].pc = "revokePut" => r.status = "revoked"
    <3> DEFINE active == [op[p].rec EXCEPT !.status = "active", !.provisioning = "ready"]
               failed == [op[p].rec EXCEPT !.status = "pending", !.provisioning = "failed"]
               revoked == [op[p].rec EXCEPT !.status = "revoked", !.version = @ + 1]
    <3>1. op[p].rec.version + 1 \in Nat
      BY <2>1 DEF AccessKeyRecord
    <3>2. /\ active \in AccessKeyRecord /\ active.hash = op[p].rec.hash
          /\ active.account = op[p].rec.account
      BY <2>1 DEF AccessKeyRecord, Status, Provisioning
    <3>3. /\ failed \in AccessKeyRecord /\ failed.hash = op[p].rec.hash
          /\ failed.account = op[p].rec.account
      BY <2>1 DEF AccessKeyRecord, Status, Provisioning
    <3>4. /\ revoked \in AccessKeyRecord /\ revoked.hash = op[p].rec.hash
          /\ revoked.account = op[p].rec.account /\ revoked.status = "revoked"
      BY <2>1, <3>1 DEF AccessKeyRecord, Status
    <3>5. \/ op[p].pc # "revokePut" /\ PutAccessKey(op[p].name, active)
          \/ op[p].pc # "revokePut" /\ PutAccessKey(op[p].name, failed)
          \/ PutAccessKey(op[p].name, revoked)
      BY <1>6 DEF CreatePut, CreateFailed, ProvisionPut, RevokePut
    <3> HIDE DEF active, failed, revoked
    <3> QED BY <3>2, <3>3, <3>4, <3>5
  <2>3. Exact' /\ NoRevival
    <3>1. record[op[p].name].status = "revoked" => r.status = "revoked"
      BY <2>1, <2>2
    <3>2. index[r.hash] = op[p].name
      BY <1>0, <2>1, <2>2 DEF Exact, OnlyCurrentSecrets, AccessKeyRecord
    <3> QED BY <1>0, <2>1, <2>2, <3>1, <3>2, PutExact
  <2>4. Finish(p) \/ Goto(p, "ensureCheck")
    BY <1>6 DEF CreatePut, CreateFailed, ProvisionPut, RevokePut, EndCreate
  <2>5. "ensureCheck" \in PCs \ Writing
    BY DEF PCs, Writing
  <2> QED BY <2>3, <2>4, <2>5, AtRest DEF RInv
<1>7. ASSUME NEW p \in Procs, EnsureCheck(p) PROVE RInv' /\ NoRevival
  <2>1. UNCHANGED store /\ op[p].name \in Names
    BY <1>7 DEF EnsureCheck, TInv, OpsOK, Carries
  <2>2. \/ Finish(p)
        \/ /\ Start(p, "provisionLedger", op[p].name, record[op[p].name])
           /\ record[op[p].name].status = "pending"
    BY <1>7 DEF EnsureCheck
  <2>3. "provisionLedger" \in Writing
    BY DEF Writing
  <2> QED BY <1>0, <2>1, <2>2, <2>3, AtRest, HasRead, ReadExact DEF RInv
<1>8. ASSUME NEW p \in Procs, RotateWrite(p) PROVE RInv' /\ NoRevival
  <2> DEFINE n == op[p].name
             r(h) == [op[p].rec EXCEPT !.hash = h, !.version = @ + 1]
  <2>1. PICK h \in Hashes :
          /\ Fresh(h)
          /\ index' = [index EXCEPT ![op[p].rec.hash] = None, ![h] = n]
          /\ record' = [record EXCEPT ![n] = r(h)]
          /\ Finish(p)
          /\ UNCHANGED accountIndex
    BY <1>8 DEF RotateWrite
  <2>2. /\ n \in Names /\ op[p].rec \in AccessKeyRecord /\ Exists(n)
        /\ record[n].account = op[p].rec.account /\ record[n].hash = op[p].rec.hash
        /\ record[n].status = op[p].rec.status
    BY <1>0, <1>carried, <1>8 DEF RotateWrite, Writing, UpToDate
  <2>3. /\ r(h) # NoRecord /\ r(h).hash = h /\ r(h).account = op[p].rec.account
        /\ r(h).status = op[p].rec.status
    <3>1. op[p].rec.version + 1 \in Nat
      BY <2>2 DEF AccessKeyRecord
    <3>2. r(h) \in AccessKeyRecord
      BY <2>2, <3>1 DEF AccessKeyRecord
    <3> QED BY <2>2, <3>2, RecordsDiffer DEF AccessKeyRecord
  <2>4. op[p].rec.hash \in Hashes
    BY <2>2 DEF AccessKeyRecord
  <2> HIDE DEF r, n
  <2>5. \A m \in Names : record'[m] = IF m = n THEN r(h) ELSE record[m]
    BY <2>1, <2>2 DEF TInv, StoreOK
  <2>6. \A g \in Hashes : index'[g] = IF g = h THEN n
                                       ELSE IF g = op[p].rec.hash THEN None ELSE index[g]
    BY <2>1 DEF TInv, StoreOK
  <2>7. index[h] = None
    <3>1. index[h] # None => index[h] \in Names /\ <<h, index[h]>> \in issued
      BY DEF TInv, StoreOK, SInv, IndexIssued
    <3> QED BY <2>1, <3>1 DEF Fresh
  <2>8. \A m \in Names : None # m
    BY NoneIsNothing
  <2>9. OnlyCurrentSecrets'
    <3> SUFFICES ASSUME NEW g \in Hashes, NEW m \in Names
                 PROVE  (index[g] = m <=> Exists(m) /\ record[m].hash = g)'
      BY DEF OnlyCurrentSecrets
    <3>1. \A i \in Hashes : index[i] = m <=> Exists(m) /\ record[m].hash = i
      BY <1>0 DEF Exact, OnlyCurrentSecrets
    <3>2. CASE m = n
      <4>1. record'[m] = r(h) /\ index[op[p].rec.hash] = n
        BY <2>2, <2>4, <2>5, <3>1, <3>2
      <4>2. index'[g] = m <=> g = h
        BY <2>2, <2>4, <2>6, <2>8, <3>1, <3>2
      <4> QED BY <2>3, <4>1, <4>2 DEF Exists
    <3>3. CASE m # n
      <4>1. record'[m] = record[m] /\ index[op[p].rec.hash] # m
        BY <1>0, <2>2, <2>4, <2>5, <3>3 DEF Exact, OnlyCurrentSecrets
      <4>2. index'[g] = m <=> index[g] = m
        BY <2>6, <2>7, <2>8, <3>3, <4>1
      <4> QED BY <3>1, <4>1, <4>2 DEF Exists
    <3> QED BY <3>2, <3>3
  <2>10. AccountIndexIsExact'
    BY <1>0, <2>1, <2>2, <2>3, <2>5 DEF Exact, AccountIndexIsExact, Exists
  <2>11. NoRevival
    BY <2>2, <2>3, <2>5 DEF NoRevival
  <2> QED BY <2>1, <2>9, <2>10, <2>11, AtRest DEF RInv, Exact
<1>9. ASSUME NEW p \in Procs, RouteCAS(p) PROVE RInv' /\ NoRevival
  <2> DEFINE n == op[p].name
             r == [op[p].rec EXCEPT !.version = @ + 1]
  <2>1. /\ UNCHANGED record \/ record' = [record EXCEPT ![n] = r]
        /\ UNCHANGED <<index, accountIndex>>
        /\ Finish(p)
    BY <1>9 DEF RouteCAS
  <2>2. /\ n \in Names /\ op[p].rec \in AccessKeyRecord /\ Exists(n)
        /\ record[n].account = op[p].rec.account /\ record[n].hash = op[p].rec.hash
        /\ record[n].status = op[p].rec.status
    BY <1>0, <1>carried, <1>9 DEF RouteCAS, Writing, UpToDate
  <2>3. /\ r # NoRecord /\ r.hash = op[p].rec.hash /\ r.account = op[p].rec.account
        /\ r.status = op[p].rec.status
    <3>1. op[p].rec.version + 1 \in Nat
      BY <2>2 DEF AccessKeyRecord
    <3>2. r \in AccessKeyRecord
      BY <2>2, <3>1 DEF AccessKeyRecord
    <3> QED BY <2>2, <3>2, RecordsDiffer DEF AccessKeyRecord
  <2> HIDE DEF r, n
  <2>4. \A m \in Names : record'[m] = record[m] \/ (m = n /\ record'[m] = r)
    BY <2>1, <2>2 DEF TInv, StoreOK
  <2>5. \A m \in Names :
          /\ Exists(m)' <=> Exists(m)
          /\ Exists(m) => /\ record'[m].hash = record[m].hash
                          /\ record'[m].status = record[m].status
                          /\ record'[m].account = record[m].account
    BY <2>2, <2>3, <2>4 DEF Exists
  <2>6. OnlyCurrentSecrets'
    BY <1>0, <2>1, <2>5 DEF Exact, OnlyCurrentSecrets, Exists
  <2>7. AccountIndexIsExact'
    BY <1>0, <2>1, <2>5 DEF Exact, AccountIndexIsExact, Exists
  <2>8. NoRevival
    BY <2>5 DEF NoRevival, Exists
  <2> QED BY <2>1, <2>6, <2>7, <2>8, AtRest DEF RInv, Exact
<1>10. ASSUME NEW p \in Procs, NEW h \in Hashes, LookupIndex(p, h) PROVE RInv' /\ NoRevival
  <2>1. op'[p].pc = "lookup"
    BY <1>10 DEF LookupIndex, Idle, TInv, OpsOK
  <2>2. UpToDate(op[p])'
    BY <2>1 DEF UpToDate, Writing
  <2>3. Exact' /\ NoRevival
    BY <1>0, <1>10, ReadExact DEF LookupIndex
  <2> QED BY <2>2, <2>3 DEF Serial, RInv
<1>11. ASSUME NEW p \in Procs, LookupRecord(p) PROVE RInv' /\ NoRevival
  <2>1. op'[p].pc \in {"served", "idle"}
    BY <1>11 DEF LookupRecord, Finish, Idle, TInv, OpsOK, Operation
  <2>2. UpToDate(op[p])'
    BY <2>1 DEF UpToDate, Writing
  <2>3. Exact' /\ NoRevival
    BY <1>0, <1>11, ReadExact DEF LookupRecord
  <2> QED BY <2>2, <2>3 DEF Serial, RInv
<1>12. ASSUME NEW p \in Procs, Abort(p) PROVE RInv' /\ NoRevival
  <2>1. "ensureCheck" \in PCs \ Writing
    BY DEF PCs, Writing
  <2>2. Finish(p) \/ Goto(p, "ensureCheck")
    BY <1>12 DEF Abort
  <2>3. Exact' /\ NoRevival
    BY <1>0, <1>12, ReadExact DEF Abort
  <2> QED BY <2>1, <2>2, <2>3, AtRest DEF RInv
<1>13. ASSUME NEW n \in Names, Migrate(n) PROVE RInv' /\ NoRevival
  <2>1. FileRecord(n) \in AccessKeyRecord
    BY <1>13, FileRecords DEF Migrate
  <2>2. /\ CreateAccepted(n, FileRecord(n)) /\ CreateRecord(n, FileRecord(n))
        /\ UNCHANGED op
    BY <1>13 DEF Migrate
  <2>3. Exact' /\ NoRevival
    BY <1>0, <2>1, <2>2, CreateExact
  <2>4. ~Exists(n) /\ \A m \in Names \ {n} : record'[m] = record[m]
    BY <2>2 DEF CreateAccepted, CreateRecord, TInv, StoreOK
  <2>5. (\A p \in Procs : UpToDate(op[p]))'
    BY <1>0, <1>carried, <2>2, <2>4 DEF UpToDate
  <2> QED BY <2>3, <2>5 DEF RInv
<1>14. CASE InitializeExisting \/ UNCHANGED vars
  <2>1. UNCHANGED <<store, op>>
    BY <1>14 DEF InitializeExisting, vars, store
  <2>2. (\A p \in Procs : UpToDate(op[p]))'
    BY <1>0, <2>1 DEF UpToDate, store
  <2> QED BY <1>0, <2>1, <2>2, ReadExact DEF RInv
<1>15. ASSUME NEW p \in Procs, NEW n \in Names, NEW r \in AccessKeyRecord, NEW given,
              op[p] = Idle, CreateAccepted(n, r), CreateRecord(n, r), ThenProvision(p, n, r, given)
       PROVE  RInv' /\ NoRevival
  <2>1. Exact' /\ NoRevival
    BY <1>0, <1>15, CreateExact
  <2>2. op'[p].pc \in {"idle", "directLedger"}
    <3>1. CASE UNCHANGED op
      BY <1>15, <3>1 DEF Idle
    <3>2. CASE Start(p, "directLedger", n, r)
      BY <3>2 DEF Start, Idle, TInv, OpsOK
    <3> QED BY <1>15, <3>1, <3>2 DEF ThenProvision
  <2>3. UpToDate(op[p])'
    BY <2>2 DEF UpToDate, Writing
  <2> QED BY <2>1, <2>3 DEF Serial, RInv
<1>16. ASSUME NEW p \in Procs, NEW n \in Names, NEW a \in Accounts \cup {None},
              NEW route \in Routes, DirectCreate(p, n, a, route)
       PROVE  RInv' /\ NoRevival
  <2> DEFINE R(h) == [hash |-> h, status |-> "active", account |-> AccountOf(n, a),
                      provisioning |-> "", routing |-> route, version |-> 0]
  <2>1. PICK h \in Hashes : /\ op[p] = Idle
                            /\ CreateAccepted(n, R(h))
                            /\ CreateRecord(n, R(h))
                            /\ ThenProvision(p, n, R(h), a # None)
    BY <1>16 DEF DirectCreate
  <2>2. R(h) \in AccessKeyRecord
    BY NamesAreAccounts DEF AccountOf, AccessKeyRecord, Status, Provisioning
  <2> HIDE DEF R
  <2> QED BY <1>15, <2>1, <2>2
<1>17. ASSUME NEW p \in Procs, NEW n \in Names, DirectMigrate(p, n) PROVE RInv' /\ NoRevival
  <2>1. FileRecord(n) \in AccessKeyRecord
    BY <1>17, FileRecords DEF DirectMigrate
  <2> QED BY <1>15, <1>17, <2>1 DEF DirectMigrate
<1>18. ASSUME NEW p \in Procs, DirectLedger(p) PROVE RInv' /\ NoRevival
  BY <1>0, <1>18, AtRest, ReadExact DEF DirectLedger, RInv
<1>19. ASSUME NEW p \in Procs, NEW n \in Names, MigrateRead(p, n) PROVE RInv' /\ NoRevival
  <2>1. op'[p].pc = "migratePut"
    BY <1>19 DEF MigrateRead, Start, Idle, TInv, OpsOK
  <2>2. UpToDate(op[p])'
    BY <2>1 DEF UpToDate, Writing
  <2>3. Exact' /\ NoRevival
    BY <1>0, <1>19, ReadExact DEF MigrateRead
  <2> QED BY <2>2, <2>3 DEF Serial, RInv
<1>20. ASSUME NEW p \in Procs, MigratePut(p) PROVE RInv' /\ NoRevival
  <2> DEFINE n == op[p].name
  <2>1. n \in DOMAIN FileHash
    BY <1>20 DEF MigratePut, TInv, OpsOK, Carries
  <2>2. /\ n \in Names /\ FileRecord(n) \in AccessKeyRecord
        /\ FileRecord(n).hash = FileHash[n] /\ FileHash[n] \in Hashes
    BY <2>1, FileRecords, FileKeys
  <2>3. PutAccessKey(n, FileRecord(n)) /\ Finish(p)
    BY <1>20 DEF MigratePut
  <2> HIDE DEF n
  <2>4. index[FileRecord(n).hash] \in {None, n}
    <3>1. <<FileHash[n], n>> \in issued
      BY <2>1 DEF SInv, FileIssued
    <3>2. index[FileHash[n]] # None =>
            index[FileHash[n]] \in Names /\ <<FileHash[n], index[FileHash[n]]>> \in issued
      BY <2>2 DEF TInv, StoreOK, SInv, IndexIssued
    <3> QED BY <2>2, <3>1, <3>2 DEF SInv, IssuedOnce
  <2>5. Exact' /\ NoRevival
    BY <1>0, <2>1, <2>2, <2>3, <2>4, PutExact
  <2> QED BY <2>3, <2>5, AtRest DEF RInv
<1> QED
  BY <1>1, <1>2, <1>3, <1>4, <1>5, <1>6, <1>7, <1>8, <1>9, <1>10, <1>11, <1>12,
     <1>13, <1>14, <1>16, <1>17, <1>18, <1>19, <1>20 DEF Next

LEMMA ExactHolds == ASSUME Serial PROVE Spec => [](TInv /\ SInv /\ RInv)
<1>1. Init => RInv
  BY InitExact
<1>2. TInv /\ SInv /\ RInv /\ [Next]_vars => RInv'
  BY StepExact
<1> QED BY <1>1, <1>2, SafetyHolds, PTL DEF Spec

\* When operations on the store do not overlap, though each may end between two
\* of its calls, only the secret of the stored record of a key authenticates.
THEOREM SerialSecrets == Serial => (Spec => []OnlyCurrentSecrets)
<1> SUFFICES ASSUME Serial PROVE Spec => []OnlyCurrentSecrets
  OBVIOUS
<1>1. RInv => OnlyCurrentSecrets
  BY DEF RInv, Exact
<1> QED BY <1>1, ExactHolds, PTL

\* Then the account index lists exactly the active keys,
THEOREM SerialAccounts == Serial => (Spec => []AccountIndexIsExact)
<1> SUFFICES ASSUME Serial PROVE Spec => []AccountIndexIsExact
  OBVIOUS
<1>1. RInv => AccountIndexIsExact
  BY DEF RInv, Exact
<1> QED BY <1>1, ExactHolds, PTL

\* and no operation brings back a revoked key, but a migration of keys.yaml that
\* stores the file's record in its place.
THEOREM SerialRevocation == Serial => (Spec => RevocationIsPermanent)
<1> SUFFICES ASSUME Serial PROVE Spec => RevocationIsPermanent
  OBVIOUS
<1>1. TInv /\ SInv /\ RInv /\ [Next]_vars =>
        [\A n \in Names : Exists(n) /\ record[n].status = "revoked" =>
            record'[n].status = "revoked" \/ OverwrittenByMigration(n)]_record
  BY StepExact DEF NoRevival
<1> QED BY <1>1, ExactHolds, PTL DEF Spec, RevocationIsPermanent
=============================================================================
