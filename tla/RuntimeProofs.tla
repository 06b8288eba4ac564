---------------------------- MODULE RuntimeProofs ---------------------------
(* Proofs about what a running gateway does besides serving requests: the   *)
(* reload of its configuration, for any provider files and any number of    *)
(* edits, and the OAuth token client, for any number of requests and        *)
(* tokens.  The two share no state.                                         *)
EXTENDS Reload, OAuthClient, TLAPS

-----------------------------------------------------------------------------
(* Reloading the configuration.                                             *)

Reading == {"providers", "swap", "keys", "models", "pricing", "setkeys"}
Critical == Reading \cup {"setmodels", "setpricing", "unlock"}

\* TypeOK in two parts, for the sake of the provers.
Flags == merged \in BOOLEAN /\ events \in BOOLEAN /\ trigger \in BOOLEAN /\ timer \in BOOLEAN

Sorts ==
    /\ edits \in Versions /\ disk \in [Files -> Versions] /\ good \in SUBSET Versions
    /\ live \in [Files -> good \cup {Absent}]
    /\ mutex \in Workers \cup {None}
    /\ pc \in [Workers -> Critical \cup {"idle", "lock", "stopped"}]
    /\ read \in [Workers -> [Files -> Versions]]
    /\ signals \in 0..SignalBuffer
    /\ result \in {"none", "ok", "failed"}

\* What is about to be installed was found good: tables are read in order.
ReadsGood ==
    /\ pc["signal"] \in {"models", "pricing", "setkeys", "setmodels", "setpricing"}
          => read["signal"]["keys"] \in good
    /\ pc["signal"] \in {"pricing", "setkeys", "setmodels", "setpricing"}
          => read["signal"]["models"] \in good
    /\ pc["signal"] \in {"setkeys", "setmodels", "setpricing"}
          => read["signal"]["pricing"] \in good

TInv == Flags /\ Sorts /\ ReadsGood

LEMMA TypeSplit == Flags /\ Sorts => TypeOK
BY DEF Flags, Sorts, TypeOK, Reading, Critical

LEMMA FlagsNext == Flags /\ [Next]_vars => Flags'
<1> SUFFICES ASSUME Flags, [Next]_vars PROVE Flags'
  OBVIOUS
<1> USE DEF Flags, files, watching
<1>1. ASSUME NEW f \in Files, Edit(f) PROVE Flags'
  BY <1>1, Zenon DEF Edit
<1>2. CASE Hangup
  BY <1>2, Zenon DEF Hangup
<1>3. CASE SignalReceived
  BY <1>3, Zenon DEF SignalReceived
<1>4. ASSUME NEW t \in Tables, LoadTable(t) \/ SetTable(t) PROVE Flags'
  BY <1>4, Zenon DEF LoadTable, SetTable
<1>5. CASE EventSeen \/ Triggered \/ TimerFires \/ Stop
  BY <1>5, Zenon DEF EventSeen, Triggered, TimerFires, Stop
<1>6. ASSUME NEW w \in Workers, Lock(w) \/ ReadProviders(w) \/ SwapProviders(w) \/ Unlock(w) PROVE Flags'
  BY <1>6, Zenon DEF Lock, ReadProviders, SwapProviders, Unlock, EndReload
<1>7. CASE UNCHANGED vars
  BY <1>7, Zenon DEF vars
<1> QED BY <1>1, <1>2, <1>3, <1>4, <1>5, <1>6, <1>7 DEF Next, Step

LEMMA TInvInit == Init => TInv
<1> SUFFICES ASSUME Init PROVE TInv
  OBVIOUS
<1>1. Flags
  BY Zenon DEF Init, Flags
<1>2. ReadsGood
  BY DEF Init, ReadsGood, Workers
<1>3. Sorts
  <2> USE ReloadAssumption DEF Init, Versions, SignalBuffer, Critical, Reading, Workers
  <2>1. edits \in Versions /\ disk \in [Files -> Versions] /\ good \in SUBSET Versions
    OBVIOUS
  <2>2. live \in [Files -> good \cup {Absent}] /\ read \in [Workers -> [Files -> Versions]]
    OBVIOUS
  <2>3. /\ mutex \in Workers \cup {None} /\ signals \in 0..SignalBuffer
        /\ pc \in [Workers -> Critical \cup {"idle", "lock", "stopped"}]
        /\ result \in {"none", "ok", "failed"}
    OBVIOUS
  <2> QED BY <2>1, <2>2, <2>3 DEF Sorts
<1> QED BY <1>1, <1>2, <1>3 DEF TInv

LEMMA TInvNext == TInv /\ [Next]_vars => TInv'
<1> SUFFICES ASSUME TInv, [Next]_vars PROVE Sorts' /\ ReadsGood'
  BY FlagsNext DEF TInv
<1> USE ReloadAssumption DEF TInv, Sorts, ReadsGood, Versions, SignalBuffer, Critical, Reading, Workers, Goto, files
<1>1. ASSUME NEW f \in Files, Edit(f) PROVE Sorts' /\ ReadsGood'
  <2>1. /\ edits < MaxEdits /\ edits' = edits + 1
        /\ disk' = [disk EXCEPT ![f] = edits + 1] /\ good' \in {good, good \cup {edits + 1}}
        /\ UNCHANGED <<live, mutex, pc, read, signals, result>>
    BY <1>1, Zenon DEF Edit, history
  <2> QED BY <2>1
<1>2. CASE Hangup
  BY <1>2 DEF Hangup
<1>3. CASE SignalReceived
  <2>1. /\ signals > 0 /\ signals' = signals - 1 /\ pc' = [pc EXCEPT !["signal"] = "lock"]
        /\ UNCHANGED <<edits, disk, good, live, mutex, read, result>>
    BY <1>3, Zenon DEF SignalReceived, history
  <2> QED BY <2>1
<1>4. ASSUME NEW t \in Tables, LoadTable(t) PROVE Sorts' /\ ReadsGood'
  BY <1>4 DEF LoadTable, Fail, After, Tables, Files
<1>5. ASSUME NEW t \in Tables, SetTable(t) PROVE Sorts' /\ ReadsGood'
  BY <1>5 DEF SetTable, Setting, Installed, Tables, Files
<1>6. CASE EventSeen \/ Triggered \/ TimerFires \/ Stop
  <2>1. /\ pc' = pc \/ \E p \in {"lock", "stopped"} : pc' = [pc EXCEPT !["watch"] = p]
        /\ UNCHANGED <<edits, disk, good, live, mutex, read, signals, result>>
    BY <1>6, Zenon DEF EventSeen, Triggered, TimerFires, Stop, history
  <2> QED BY <2>1
<1>7. ASSUME NEW w \in Workers, Lock(w) PROVE Sorts' /\ ReadsGood'
  BY <1>7 DEF Lock
<1>8. ASSUME NEW w \in Workers, ReadProviders(w) PROVE Sorts' /\ ReadsGood'
  BY <1>8 DEF ReadProviders, Fail
<1>9. ASSUME NEW w \in Workers, SwapProviders(w) PROVE Sorts' /\ ReadsGood'
  <2>1. live' \in [Files -> good \cup {Absent}]
    BY <1>9 DEF SwapProviders
  <2>2. /\ \E p \in {"keys", "unlock"} : pc' = [pc EXCEPT ![w] = p]
        /\ UNCHANGED <<edits, disk, good, mutex, read, signals, result>>
    BY <1>9, Zenon DEF SwapProviders, history
  <2> QED BY <2>1, <2>2
<1>10. ASSUME NEW w \in Workers, Unlock(w) PROVE Sorts' /\ ReadsGood'
  BY <1>10 DEF Unlock, EndReload
<1>11. CASE UNCHANGED vars
  <2>1. UNCHANGED <<edits, disk, good, live, mutex, pc, read, signals, result>>
    BY <1>11, Zenon DEF vars, history
  <2> QED BY <2>1
<1> QED BY <1>1, <1>2, <1>3, <1>4, <1>5, <1>6, <1>7, <1>8, <1>9, <1>10, <1>11 DEF Next, Step

-----------------------------------------------------------------------------
\* Whoever reloads holds reloadMu, and only the SIGHUP handler reads tables.
Exclusive ==
    /\ \A w \in Workers : pc[w] \in Critical <=> mutex = w
    /\ pc["watch"] \notin {"keys", "models", "pricing", "setkeys", "setmodels", "setpricing"}

\* Versions grow: from what is live, to what a reload has read, to the disk.
Ordered ==
    /\ \A p \in Providers : disk[p] <= edits /\ (live[p] # Absent => live[p] <= disk[p])
    /\ \A w \in Workers : pc[w] = "swap" =>
          \A p \in Providers : read[w][p] <= disk[p] /\ (live[p] # Absent => live[p] <= read[w][p])

\* A reload fails while it reads, and installs nothing before it has read all.
Kept ==
    /\ pc["signal"] \in Critical \ {"unlock"} => result = "none"
    /\ (pc["signal"] \in Reading \/ (pc["signal"] = "unlock" /\ result = "failed")) =>
          \A t \in Tables : live[t] = before[t]

Inv == TInv /\ Exclusive /\ Ordered /\ Kept

LEMMA InvInit == Init => Inv
<1> SUFFICES ASSUME Init PROVE Exclusive /\ Ordered /\ Kept
  BY TInvInit DEF Inv
<1> USE ReloadAssumption DEF Init, Files, Workers, Critical, Reading
<1>1. Exclusive
  BY DEF Exclusive
<1>2. Ordered
  BY DEF Ordered
<1>3. Kept
  BY DEF Kept
<1> QED BY <1>1, <1>2, <1>3

LEMMA ExclusiveNext == Inv /\ [Next]_vars => Exclusive'
<1> SUFFICES ASSUME Inv, [Next]_vars PROVE Exclusive'
  OBVIOUS
<1> USE ReloadAssumption DEF Inv, TInv, Sorts, Exclusive, Critical, Reading, Workers, Goto
<1>1. ASSUME UNCHANGED <<pc, mutex>> PROVE Exclusive'
  BY <1>1
<1>2. ASSUME NEW f \in Files, Edit(f) PROVE Exclusive'
  BY <1>1, <1>2 DEF Edit
<1>3. CASE Hangup \/ EventSeen \/ Triggered \/ UNCHANGED vars
  BY <1>1, <1>3 DEF Hangup, EventSeen, Triggered, vars
<1>4. CASE SignalReceived
  BY <1>4 DEF SignalReceived
<1>5. ASSUME NEW t \in Tables, LoadTable(t) PROVE Exclusive'
  BY <1>5 DEF LoadTable, Fail, After, Tables
<1>6. ASSUME NEW t \in Tables, SetTable(t) PROVE Exclusive'
  BY <1>6 DEF SetTable, Setting, Installed, Tables
<1>7. CASE TimerFires \/ Stop
  BY <1>7 DEF TimerFires, Stop
<1>8. ASSUME NEW w \in Workers, Lock(w) PROVE Exclusive'
  BY <1>8 DEF Lock
<1>9. ASSUME NEW w \in Workers, ReadProviders(w) PROVE Exclusive'
  BY <1>9 DEF ReadProviders, Fail
<1>10. ASSUME NEW w \in Workers, SwapProviders(w) PROVE Exclusive'
  BY <1>10 DEF SwapProviders
<1>11. ASSUME NEW w \in Workers, Unlock(w) PROVE Exclusive'
  BY <1>11 DEF Unlock, EndReload
<1> QED BY <1>2, <1>3, <1>4, <1>5, <1>6, <1>7, <1>8, <1>9, <1>10, <1>11 DEF Next, Step

LEMMA VersionsAreNumbers ==
    ASSUME Sorts
    PROVE  \A f \in Files : /\ disk[f] \in Nat
                            /\ live[f] # Absent => live[f] \in Nat
                            /\ \A w \in Workers : read[w][f] \in Nat
<1>1. Versions \subseteq Nat
  BY ReloadAssumption DEF Versions
<1> QED BY <1>1 DEF Sorts

LEMMA OrderedNext == Inv /\ [Next]_vars => Ordered'
<1> SUFFICES ASSUME Inv, [Next]_vars PROVE Ordered'
  OBVIOUS
<1> USE ReloadAssumption DEF Inv, TInv, Sorts, Versions, Files, Ordered, Goto
<1>1. ASSUME UNCHANGED <<disk, edits, live, read>>, \A w \in Workers : pc'[w] = "swap" => pc[w] = "swap"
      PROVE  Ordered'
  BY <1>1
<1>2. ASSUME NEW f \in Files, Edit(f) PROVE Ordered'
  <2>1. /\ edits' = edits + 1 /\ disk' = [disk EXCEPT ![f] = edits + 1]
        /\ UNCHANGED <<live, pc, read>>
    BY <1>2, Zenon DEF Edit
  <2>2. \A p \in Providers : disk[p] <= disk'[p] /\ disk'[p] <= edits'
    BY <2>1
  <2>3. \A p \in Providers : /\ disk[p] \in Nat /\ disk'[p] \in Nat
                              /\ live[p] # Absent => live[p] \in Nat
                              /\ \A w \in Workers : read[w][p] \in Nat
    BY <2>1, VersionsAreNumbers
  <2>4. \A p \in Providers : live'[p] # Absent => live'[p] <= disk'[p]
    BY <2>1, <2>2, <2>3
  <2>5. \A w \in Workers : pc'[w] = "swap" =>
           \A p \in Providers : read'[w][p] <= disk'[p] /\ (live'[p] # Absent => live'[p] <= read'[w][p])
    BY <2>1, <2>2, <2>3
  <2> QED BY <2>2, <2>4, <2>5
<1>3. CASE Hangup \/ EventSeen \/ Triggered \/ UNCHANGED vars
  BY <1>1, <1>3 DEF Hangup, EventSeen, Triggered, vars, files
<1>4. CASE SignalReceived
  BY <1>1, <1>4 DEF SignalReceived, files, Workers
<1>5. ASSUME NEW t \in Tables, LoadTable(t) PROVE Ordered'
  BY <1>5 DEF LoadTable, Fail, After, Tables, files, Workers, Exclusive
<1>6. ASSUME NEW t \in Tables, SetTable(t) PROVE Ordered'
  BY <1>6 DEF SetTable, Setting, Installed, Tables, files, Workers
<1>7. CASE TimerFires \/ Stop
  BY <1>1, <1>7 DEF TimerFires, Stop, files, Workers
<1>8. ASSUME NEW w \in Workers, Lock(w) PROVE Ordered'
  BY <1>1, <1>8 DEF Lock, files
<1>9. ASSUME NEW w \in Workers, ReadProviders(w) PROVE Ordered'
  BY <1>9 DEF ReadProviders, Fail, files, Workers
<1>10. ASSUME NEW w \in Workers, SwapProviders(w) PROVE Ordered'
  <2>1. \A v \in Workers : pc'[v] # "swap"
    BY <1>10 DEF SwapProviders, Exclusive, Critical, Reading, Workers
  <2>2. \A p \in Providers : live'[p] # Absent => live'[p] <= disk[p]
    BY <1>10 DEF SwapProviders
  <2> QED BY <1>10, <2>1, <2>2 DEF SwapProviders, files
<1>11. ASSUME NEW w \in Workers, Unlock(w) PROVE Ordered'
  BY <1>11 DEF Unlock, EndReload, files, Workers
<1> QED BY <1>2, <1>3, <1>4, <1>5, <1>6, <1>7, <1>8, <1>9, <1>10, <1>11 DEF Next, Step

\* Reading on, or failing while reading, keeps what was in use.
LEMMA KeptWhileReading ==
    ASSUME Kept, pc["signal"] \in Reading, UNCHANGED <<live, before>>,
           \/ pc'["signal"] \in Reading /\ result' = result
           \/ pc'["signal"] = "unlock" /\ result' = "failed"
    PROVE  Kept'
<1>1. result = "none" /\ \A t \in Tables : live'[t] = before'[t]
  BY DEF Kept, Critical, Reading
<1>2. pc'["signal"] \in Critical \ {"unlock"} => result' = "none"
  BY <1>1 DEF Critical, Reading
<1> QED BY <1>1, <1>2 DEF Kept

LEMMA KeptNext == Inv /\ [Next]_vars => Kept'
<1> SUFFICES ASSUME Inv, [Next]_vars PROVE Kept'
  OBVIOUS
<1> USE ReloadAssumption DEF Inv, TInv, Sorts, Kept, Critical, Reading, Goto, Workers
<1>1. ASSUME UNCHANGED <<live, before, result>>, pc'["signal"] = pc["signal"] PROVE Kept'
  BY <1>1
<1>2. ASSUME NEW f \in Files, Edit(f) PROVE Kept'
  BY <1>1, <1>2 DEF Edit, history
<1>3. CASE Hangup \/ EventSeen \/ Triggered \/ TimerFires \/ Stop \/ UNCHANGED vars
  BY <1>1, <1>3 DEF Hangup, EventSeen, Triggered, TimerFires, Stop, vars, history
<1>4. CASE SignalReceived
  BY <1>4 DEF SignalReceived, history
<1>5. ASSUME NEW t \in Tables, LoadTable(t) PROVE Kept'
  <2>1. /\ pc["signal"] \in Reading /\ UNCHANGED <<live, before>>
        /\ \/ pc'["signal"] \in Reading /\ result' = result
           \/ pc'["signal"] = "unlock" /\ result' = "failed"
    BY <1>5 DEF LoadTable, Fail, After, Tables
  <2> QED BY <2>1, KeptWhileReading
<1>6. ASSUME NEW t \in Tables, SetTable(t) PROVE Kept'
  BY <1>6 DEF SetTable, Setting, Installed, Tables
<1>7. ASSUME NEW w \in Workers, Lock(w) PROVE Kept'
  BY <1>7 DEF Lock
<1>8. ASSUME NEW w \in Workers, ReadProviders(w) PROVE Kept'
  <2>1. CASE w = "signal"
    <3>1. /\ pc["signal"] \in Reading /\ UNCHANGED <<live, before>>
          /\ \/ pc'["signal"] \in Reading /\ result' = result
             \/ pc'["signal"] = "unlock" /\ result' = "failed"
      BY <1>8, <2>1 DEF ReadProviders, Fail
    <3> QED BY <3>1, KeptWhileReading
  <2>2. CASE w # "signal"
    <3>1. pc'["signal"] = pc["signal"] /\ UNCHANGED <<live, before, result>>
      BY <1>8, <2>2 DEF ReadProviders, Fail
    <3> QED BY <1>1, <3>1
  <2> QED BY <2>1, <2>2
<1>9. ASSUME NEW w \in Workers, SwapProviders(w) PROVE Kept'
  <2>1. \A t \in Tables : live'[t] = live[t]
    BY <1>9 DEF SwapProviders, Tables, Files
  <2> QED BY <1>9, <2>1 DEF SwapProviders, history
<1>10. ASSUME NEW w \in Workers, Unlock(w) PROVE Kept'
  BY <1>10 DEF Unlock, EndReload
<1> QED BY <1>2, <1>3, <1>4, <1>5, <1>6, <1>7, <1>8, <1>9, <1>10 DEF Next, Step

LEMMA InvNext == Inv /\ [Next]_vars => Inv'
BY TInvNext, ExclusiveNext, OrderedNext, KeptNext DEF Inv

LEMMA InvAlways == Spec => []Inv
BY InvInit, InvNext, PTL DEF Spec

\* A SIGHUP reload that fails leaves keys, models and pricing as they were, for
\* any edits at any moment, and nothing broken is ever in use (reloadRuntime
\* reads all three before it installs one).
THEOREM FailedReloadsSafe == Spec => []FailedReloadKeepsTables
<1>1. Inv => FailedReloadKeepsTables
  BY TypeSplit DEF Inv, TInv, Kept, FailedReloadKeepsTables
<1> QED BY <1>1, InvAlways, PTL

\* No reload puts an older provider file back into use: reloadMu keeps the
\* reading and the swap of two workers apart.
THEOREM ProvidersForward == Spec => ProvidersMoveForward
<1> DEFINE Forward == \A p \in Providers :
                        live[p] # Absent /\ live'[p] # Absent => live'[p] >= live[p]
<1>1. ASSUME Inv, [Next]_vars PROVE [Forward]_vars
  <2> USE <1>1, ReloadAssumption DEF Inv, TInv, Sorts, Versions, Files
  <2>0. \A p \in Providers : live[p] # Absent => live[p] \in Nat
    BY VersionsAreNumbers
  <2>1. ASSUME \A p \in Providers : live'[p] = live[p] PROVE Forward
    BY <2>0, <2>1
  <2>2. ASSUME NEW f \in Files, Edit(f) PROVE Forward
    BY <2>1, <2>2 DEF Edit
  <2>3. CASE Hangup \/ SignalReceived \/ EventSeen \/ Triggered \/ TimerFires \/ Stop
    BY <2>1, <2>3 DEF Hangup, SignalReceived, EventSeen, Triggered, TimerFires, Stop
  <2>4. ASSUME NEW t \in Tables, LoadTable(t) \/ SetTable(t) PROVE Forward
    BY <2>1, <2>4 DEF LoadTable, SetTable, Tables
  <2>5. ASSUME NEW w \in Workers, Lock(w) \/ ReadProviders(w) \/ Unlock(w) PROVE Forward
    BY <2>1, <2>5 DEF Lock, ReadProviders, Unlock, EndReload
  <2>6. ASSUME NEW w \in Workers, SwapProviders(w) PROVE Forward
    BY <2>6 DEF SwapProviders, Ordered
  <2> QED BY <2>2, <2>3, <2>4, <2>5, <2>6 DEF Next, Step
<1> QED BY <1>1, InvAlways, PTL DEF Spec, ProvidersMoveForward

-----------------------------------------------------------------------------
(* The OAuth token client.                                                  *)
USE BoundsAssumption, NilAssumption

\* Persisting is off for good when it is off.
Dormant == ~persistEnabled => \A r \in Requests : step[r] \notin {"load", "fill", "save"}

\* A request that stores or saves a token has one, and whoever was given one
\* to put in the cache still has it.
Holding ==
    \A r \in Requests : step[r] \in {"store", "save", "fill"} => tok[r] # Nil

CTypes == TokenTypeOK /\ Holding /\ Dormant

LEMMA CTypesInit == TokenInit => CTypes
BY DEF TokenInit, CTypes, TokenTypeOK, Holding, Dormant, Steps, Flying

LEMMA CTypesNext == CTypes /\ [TokenNext]_tokenVars => CTypes'
<1> SUFFICES ASSUME CTypes, [TokenNext]_tokenVars PROVE CTypes'
  OBVIOUS
<1>0. persistEnabled' = persistEnabled
  BY DEF TokenNext, TokenStep, Environment, tokenVars
<1> USE <1>0 DEF CTypes, TokenTypeOK, Holding, Dormant, Steps, Flying
<1>1. ASSUME NEW r \in Requests, Start(r) PROVE CTypes'
  BY <1>1 DEF Start, MoveTo
<1>2. ASSUME NEW r \in Requests, GetCached(r) PROVE CTypes'
  BY <1>2 DEF GetCached, MoveTo, Hold, Fresh
<1>3. ASSUME NEW r \in Requests, LoadPersisted(r) PROVE CTypes'
  BY <1>3 DEF LoadPersisted, MoveTo, Hold, Fresh
<1>4. ASSUME NEW r \in Requests, Fill(r) PROVE CTypes'
  BY <1>4 DEF Fill, MoveTo
<1>5. ASSUME NEW r \in Requests, BeginFlight(r) PROVE CTypes'
  BY <1>5 DEF BeginFlight, MoveTo
<1>6. ASSUME NEW r \in Requests, RequestToken(r) PROVE CTypes'
  BY <1>6 DEF RequestToken, MoveTo, Hold, Tokens
<1>7. ASSUME NEW r \in Requests, RequestFails(r) PROVE CTypes'
  BY <1>7 DEF RequestFails, MoveTo, Hold
<1>8. ASSUME NEW r \in Requests, Store(r) PROVE CTypes'
  BY <1>8 DEF Store, MoveTo
<1>9. ASSUME NEW r \in Requests, SavePersisted(r) PROVE CTypes'
  BY <1>9 DEF SavePersisted, MoveTo
<1>10. ASSUME NEW r \in Requests, Land(r) PROVE CTypes'
  BY <1>10 DEF Land, MoveTo
<1>11. ASSUME NEW r \in Requests, Close(r) PROVE CTypes'
  BY <1>11 DEF Close, Deliver, Sharing
<1>12. ASSUME NEW r \in Requests, Answered(r) PROVE CTypes'
  BY <1>12 DEF Answered, Finish, MoveTo, Hold
<1>13. ASSUME NEW r \in Requests, Unauthorized(r) PROVE CTypes'
  BY <1>13 DEF Unauthorized, MoveTo, Hold
<1>14. ASSUME NEW r \in Requests, Invalidate(r) PROVE CTypes'
  BY <1>14 DEF Invalidate, MoveTo
<1>15. ASSUME NEW t \in Tokens, Expire(t) PROVE CTypes'
  BY <1>15 DEF Expire
<1>16. CASE Restart
  BY <1>16 DEF Restart
<1>17. CASE UNCHANGED tokenVars
  BY <1>17 DEF tokenVars
<1> QED BY <1>1, <1>2, <1>3, <1>4, <1>5, <1>6, <1>7, <1>8, <1>9, <1>10, <1>11, <1>12, <1>13, <1>14, <1>15, <1>16, <1>17 DEF TokenNext, TokenStep, Environment

\* Requests, tokens and flights keep their types, and no request is sent to
\* the upstream with the empty token a failed flight leaves behind.
THEOREM TokensTypeCorrect == TokenSpec => []TokenTypeOK
<1> QED BY CTypesInit, CTypesNext, PTL DEF TokenSpec, CTypes

-----------------------------------------------------------------------------
\* SingleFlight and WaitersHaveAFlight support each other: a request joins the
\* flight of the map, and that one's owner has not closed it.
Flights == SingleFlight /\ WaitersHaveAFlight

LEMMA FlightsInit == TokenInit => Flights
BY DEF TokenInit, Flights, SingleFlight, WaitersHaveAFlight, Flying

LEMMA FlightsNext == CTypes /\ Flights /\ [TokenNext]_tokenVars => Flights'
<1> SUFFICES ASSUME CTypes, Flights, [TokenNext]_tokenVars PROVE Flights'
  OBVIOUS
<1> USE DEF CTypes, TokenTypeOK, Flights, SingleFlight, WaitersHaveAFlight, Flying, Steps
<1>1. ASSUME NEW r \in Requests, Start(r) PROVE Flights'
  BY <1>1 DEF Start, MoveTo
<1>2. ASSUME NEW r \in Requests, GetCached(r) PROVE Flights'
  BY <1>2 DEF GetCached, MoveTo, Hold, Fresh
<1>3. ASSUME NEW r \in Requests, LoadPersisted(r) PROVE Flights'
  BY <1>3 DEF LoadPersisted, MoveTo, Hold, Fresh
<1>4. ASSUME NEW r \in Requests, Fill(r) PROVE Flights'
  BY <1>4 DEF Fill, MoveTo
<1>5. ASSUME NEW r \in Requests, BeginFlight(r) PROVE Flights'
  BY <1>5 DEF BeginFlight, MoveTo
<1>6. ASSUME NEW r \in Requests, RequestToken(r) PROVE Flights'
  BY <1>6 DEF RequestToken, MoveTo, Hold, Tokens
<1>7. ASSUME NEW r \in Requests, RequestFails(r) PROVE Flights'
  BY <1>7 DEF RequestFails, MoveTo, Hold
<1>8. ASSUME NEW r \in Requests, Store(r) PROVE Flights'
  BY <1>8 DEF Store, MoveTo
<1>9. ASSUME NEW r \in Requests, SavePersisted(r) PROVE Flights'
  BY <1>9 DEF SavePersisted, MoveTo
<1>10. ASSUME NEW r \in Requests, Land(r) PROVE Flights'
  BY <1>10 DEF Land, MoveTo
<1>11. ASSUME NEW r \in Requests, Close(r) PROVE Flights'
  BY <1>11 DEF Close, Deliver, Sharing
<1>12. ASSUME NEW r \in Requests, Answered(r) PROVE Flights'
  BY <1>12 DEF Answered, Finish, MoveTo, Hold
<1>13. ASSUME NEW r \in Requests, Unauthorized(r) PROVE Flights'
  BY <1>13 DEF Unauthorized, MoveTo, Hold
<1>14. ASSUME NEW r \in Requests, Invalidate(r) PROVE Flights'
  BY <1>14 DEF Invalidate, MoveTo
<1>15. ASSUME NEW t \in Tokens, Expire(t) PROVE Flights'
  BY <1>15 DEF Expire
<1>16. CASE Restart
  BY <1>16 DEF Restart
<1>17. CASE UNCHANGED tokenVars
  BY <1>17 DEF tokenVars
<1> QED BY <1>1, <1>2, <1>3, <1>4, <1>5, <1>6, <1>7, <1>8, <1>9, <1>10, <1>11, <1>12, <1>13, <1>14, <1>15, <1>16, <1>17 DEF TokenNext, TokenStep, Environment

\* At most one token request per key is on its way, and the map names its owner.
THEOREM SingleFlightSafe == TokenSpec => []SingleFlight
<1> QED BY CTypesInit, CTypesNext, FlightsInit, FlightsNext, PTL DEF TokenSpec, Flights

\* No request waits for a flight that nobody will close.
THEOREM WaitersSafe == TokenSpec => []WaitersAreServed
<1>1. CTypes /\ Flights => WaitersAreServed
  BY DEF CTypes, TokenTypeOK, Flights, WaitersAreServed
<1> QED BY <1>1, CTypesInit, CTypesNext, FlightsInit, FlightsNext, PTL DEF TokenSpec

-----------------------------------------------------------------------------
\* Nothing is newer than the last token issued, ...
Aged ==
    /\ cache # Nil => cache <= issued
    /\ file # Nil => file <= issued
    /\ \A r \in Requests : /\ tok[r] # Nil => tok[r] <= issued
                           /\ rejected[r] # Nil => rejected[r] <= issued

\* ... which is the one a flight stores and saves ...
Newest == \A r \in Requests : step[r] \in {"store", "save"} => tok[r] = issued

\* ... and which nobody else has seen before it is stored.
Unseen ==
    \A r \in Requests : step[r] = "store" =>
        /\ cache # issued /\ file # issued
        /\ \A q \in Requests : rejected[q] # issued /\ (q # r => tok[q] # issued)

Ages == Aged /\ Newest /\ Unseen

LEMMA AgesInit == TokenInit => Ages
BY DEF TokenInit, Ages, Aged, Newest, Unseen

LEMMA AgesNext == CTypes /\ Flights /\ Ages /\ [TokenNext]_tokenVars => Ages'
<1> SUFFICES ASSUME CTypes, Flights, Ages, [TokenNext]_tokenVars PROVE Ages'
  OBVIOUS
<1> USE DEF CTypes, TokenTypeOK, Tokens, Flights, SingleFlight, Flying, Steps, Ages, Aged, Newest, Unseen
<1>1. ASSUME NEW r \in Requests, Start(r) PROVE Ages'
  BY <1>1 DEF Start, MoveTo
<1>2. ASSUME NEW r \in Requests, GetCached(r) PROVE Ages'
  BY <1>2 DEF GetCached, MoveTo, Hold, Fresh
<1>3. ASSUME NEW r \in Requests, LoadPersisted(r) PROVE Ages'
  BY <1>3 DEF LoadPersisted, MoveTo, Hold, Fresh
<1>4. ASSUME NEW r \in Requests, Fill(r) PROVE Ages'
  BY <1>4 DEF Fill, MoveTo
<1>5. ASSUME NEW r \in Requests, BeginFlight(r) PROVE Ages'
  BY <1>5 DEF BeginFlight, MoveTo
<1>6. ASSUME NEW r \in Requests, RequestToken(r) PROVE Ages'
  BY <1>6 DEF RequestToken, MoveTo, Hold, Tokens
<1>7. ASSUME NEW r \in Requests, RequestFails(r) PROVE Ages'
  BY <1>7 DEF RequestFails, MoveTo, Hold
<1>8. ASSUME NEW r \in Requests, Store(r) PROVE Ages'
  BY <1>8 DEF Store, MoveTo
<1>9. ASSUME NEW r \in Requests, SavePersisted(r) PROVE Ages'
  BY <1>9 DEF SavePersisted, MoveTo
<1>10. ASSUME NEW r \in Requests, Land(r) PROVE Ages'
  BY <1>10 DEF Land, MoveTo
<1>11. ASSUME NEW r \in Requests, Close(r) PROVE Ages'
  BY <1>11 DEF Close, Deliver, Sharing
<1>12. ASSUME NEW r \in Requests, Answered(r) PROVE Ages'
  BY <1>12 DEF Answered, Finish, MoveTo, Hold
<1>13. ASSUME NEW r \in Requests, Unauthorized(r) PROVE Ages'
  BY <1>13 DEF Unauthorized, MoveTo, Hold
<1>14. ASSUME NEW r \in Requests, Invalidate(r) PROVE Ages'
  BY <1>14 DEF Invalidate, MoveTo
<1>15. ASSUME NEW t \in Tokens, Expire(t) PROVE Ages'
  BY <1>15 DEF Expire
<1>16. CASE Restart
  BY <1>16 DEF Restart
<1>17. CASE UNCHANGED tokenVars
  BY <1>17 DEF tokenVars
<1> QED BY <1>1, <1>2, <1>3, <1>4, <1>5, <1>6, <1>7, <1>8, <1>9, <1>10, <1>11, <1>12, <1>13, <1>14, <1>15, <1>16, <1>17 DEF TokenNext, TokenStep, Environment

\* The token file never goes back to an older token.
THEOREM DiskForward == TokenSpec => DiskMovesForward
<1>1. ASSUME CTypes, Ages, [TokenNext]_tokenVars
      PROVE  file # Nil => file' # Nil /\ file' >= file
  <2>1. \/ UNCHANGED file
        \/ \E r \in Requests : step[r] = "save" /\ file' \in {file, tok[r]}
    BY <1>1 DEF TokenNext, TokenStep, Environment, tokenVars, Start, GetCached, LoadPersisted, Fill, BeginFlight,
       RequestToken, RequestFails, Store, SavePersisted, Land, Close, Answered,
       Unauthorized, Invalidate, Expire, Restart
  <2> QED BY <1>1, <2>1
          DEF CTypes, TokenTypeOK, Tokens, Holding, Ages, Aged, Newest
<1> QED BY <1>1, CTypesInit, CTypesNext, FlightsInit, FlightsNext, AgesInit, AgesNext, PTL
        DEF TokenSpec, DiskMovesForward

\* With tokens in memory only, the cache takes in only the newest token issued, and
\* none that is as old as one a request in flight was refused for.
THEOREM CacheForward == TokenSpec => CacheMovesForward
<1>1. ASSUME CTypes, Ages, [TokenNext]_tokenVars
      PROVE  ~persistEnabled => \A t \in Tokens : cache' = t /\ cache # t =>
                 /\ t = issued
                 /\ \A r \in Requests : rejected[r] # Nil => rejected[r] < t
  <2>1. \/ UNCHANGED cache
        \/ cache' = Nil
        \/ \E r \in Requests : step[r] = "store" /\ cache' = tok[r]
        \/ \E r \in Requests : step[r] = "fill"
    BY <1>1 DEF TokenNext, TokenStep, Environment, tokenVars, Start, GetCached, LoadPersisted, Fill, BeginFlight,
       RequestToken, RequestFails, Store, SavePersisted, Land, Close, Answered,
       Unauthorized, Invalidate, Expire, Restart
  <2> QED BY <1>1, <2>1
          DEF CTypes, TokenTypeOK, Tokens, Dormant, Ages, Aged, Newest, Unseen
<1> QED BY <1>1, CTypesInit, CTypesNext, FlightsInit, FlightsNext, AgesInit, AgesNext, PTL
        DEF TokenSpec, CacheMovesForward

\* The file never goes back to an older token and, without a file, the memory cache
\* takes in only the newest one, which no request in flight was refused for.
THEOREM TokensForward == TokenSpec => TokensMoveForward
BY DiskForward, CacheForward, PTL DEF TokensMoveForward
=============================================================================
