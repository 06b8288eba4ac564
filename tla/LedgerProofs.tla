---------------------------- MODULE LedgerProofs ----------------------------
(* Proofs about the usage ledger for any accounts, requests and amounts.    *)
EXTENDS Ledger, SumTheorems

LEMMA NoEventIsNone == ASSUME NEW e \in LocalBillingEvent PROVE e # NoEvent
BY AccountsAssumption DEF LocalBillingEvent, NoEvent

LEMMA CostsAreNat == \A c \in Costs : c \in Nat /\ c <= MaxCost
BY CostsAssumption

\* The steps of a request that leave the ledger alone.
Quiet(p) ==
    \/ \E a \in Accounts \cup {Master}, i \in Ids : Begin(p, a, i)
    \/ Enforce(p) \/ EnforceUnavailable(p) \/ ProviderFails(p)
    \/ \E c \in Costs : ProviderAnswers(p, c)
    \/ NotRecorded(p) \/ ProvisionAborts(p)

LEMMA Steps ==
    Next <=> \/ \E p \in Procs : Quiet(p)
             \/ \E p \in Procs : Record(p) \/ RecordReplyLost(p)
             \/ \E p \in Procs, a \in Accounts, c \in Credits : Provision(p, a, c)
             \/ \E p \in Procs : GrantCredit(p) \/ GrantReplyLost(p)
             \/ \E a \in Accounts, k \in Keys, d \in Deltas : Adjust(a, k, d)
BY Zenon DEF Next, RequestStep, ProvisionStep, Quiet

\* What req is worth, step by step.
LEMMA Ending ==
    ASSUME NEW p \in Procs, req \in [Procs -> Request], NEW pc \in PCs, End(p, pc)
    PROVE  /\ req' \in [Procs -> Request]
           /\ req' = [req EXCEPT ![p] = [Idle EXCEPT !.pc = pc]]
<1>1. [Idle EXCEPT !.pc = pc] \in Request
  BY DEF Idle, Request
<1> QED BY <1>1 DEF End

LEMMA Becoming ==
    ASSUME NEW p \in Procs, req \in [Procs -> Request], NEW pc \in PCs, Become(p, pc)
    PROVE  /\ req' \in [Procs -> Request]
           /\ req' = [req EXCEPT ![p] = [req[p] EXCEPT !.pc = pc]]
<1>1. [req[p] EXCEPT !.pc = pc] \in Request
  BY DEF Request
<1>2. req' = [req EXCEPT ![p] = [req[p] EXCEPT !.pc = pc]]
  BY DEF Become
<1> QED BY <1>1, <1>2

\* Every request that is checked, proxied or billed has an id, and everything
\* that is granted or billed to an account has that account.
Aimed ==
    \A p \in Procs :
        /\ req[p].pc \in {"check", "proxy", "billing"} =>
             req[p].id \in Ids /\ req[p].account \in Accounts \cup {Master}
        /\ req[p].pc = "billing" => req[p].amount \in Costs
        /\ req[p].pc = "grant" =>
             req[p].account \in Accounts /\ req[p].amount \in Credits

Inv == TypeOK /\ Aimed

LEMMA QuietTyped ==
    ASSUME Inv, NEW p \in Procs, Quiet(p)
    PROVE  Inv' /\ UNCHANGED book
<1> USE DEF Inv, TypeOK
<1>0. UNCHANGED book
  BY DEF Quiet, Begin, Enforce, EnforceUnavailable, ProviderFails, ProviderAnswers, NotRecorded, ProvisionAborts
<1>1. CASE \E a \in Accounts \cup {Master}, i \in Ids : Begin(p, a, i)
  <2> PICK a \in Accounts \cup {Master}, i \in Ids : Begin(p, a, i)
    BY <1>1
  <2>1. req' \in [Procs -> Request]
    BY DEF Begin, Request, PCs
  <2>2. Aimed'
    BY DEF Begin, Aimed
  <2> QED BY <1>0, <2>1, <2>2 DEF book
<1>2. CASE Enforce(p)
  <2>1. CASE Become(p, "proxy")
    <3>1. req' \in [Procs -> Request] /\ req' = [req EXCEPT ![p] = [req[p] EXCEPT !.pc = "proxy"]]
      BY <2>1, Becoming DEF PCs
    <3>2. Aimed'
      BY <1>2, <3>1 DEF Aimed, Enforce, Request
    <3> QED BY <1>0, <3>1, <3>2 DEF book
  <2>2. CASE End(p, "refused")
    <3>1. req' \in [Procs -> Request] /\ req' = [req EXCEPT ![p] = [Idle EXCEPT !.pc = "refused"]]
      BY <2>2, Ending DEF PCs
    <3>2. Aimed'
      BY <3>1 DEF Aimed, Idle
    <3> QED BY <1>0, <3>1, <3>2 DEF book
  <2> QED BY <1>2, <2>1, <2>2 DEF Enforce
<1>3. CASE \E pc \in {"unavailable", "answered", "idle"} : End(p, pc)
  <2> PICK pc \in {"unavailable", "answered", "idle"} : End(p, pc)
    BY <1>3
  <2>1. req' \in [Procs -> Request] /\ req' = [req EXCEPT ![p] = [Idle EXCEPT !.pc = pc]]
    BY Ending DEF PCs
  <2>2. Aimed'
    BY <2>1 DEF Aimed, Idle
  <2> QED BY <1>0, <2>1, <2>2 DEF book
<1>4. CASE \E c \in Costs : ProviderAnswers(p, c)
  <2> PICK c \in Costs : ProviderAnswers(p, c)
    BY <1>4
  <2>0. c \in Nat
    BY CostsAssumption
  <2> DEFINE r == [req[p] EXCEPT !.pc = "billing", !.amount = c]
  <2>1. r \in Request /\ r.pc = "billing" /\ r.amount = c /\ r.id = req[p].id /\ r.account = req[p].account
    BY <2>0 DEF Request, PCs
  <2>2. req' = [req EXCEPT ![p] = r]
    BY DEF ProviderAnswers
  <2>3. req[p].pc = "proxy"
    BY DEF ProviderAnswers
  <2> HIDE DEF r
  <2>4. req' \in [Procs -> Request]
    BY <2>1, <2>2
  <2>5. Aimed'
    BY <2>1, <2>2, <2>3 DEF Aimed
  <2> QED BY <1>0, <2>4, <2>5 DEF book
<1> QED BY <1>1, <1>2, <1>3, <1>4 DEF Quiet, EnforceUnavailable, ProviderFails, NotRecorded, ProvisionAborts

\* What the recording script does to the ledger of account a.
LEMMA Recording ==
    ASSUME TypeOK, NEW i \in Ids, NEW a \in Accounts, NEW c \in Costs, RecordScript(i, a, c)
    PROVE  /\ events' \in [Ids -> LocalBillingEvent \cup {NoEvent}]
           /\ timeline' \in [Accounts -> SUBSET Ids]
           /\ spent' \in [Accounts -> Nat]
           /\ events[i] # NoEvent => UNCHANGED <<events, timeline, spent>>
           /\ events[i] = NoEvent =>
                /\ events' = [events EXCEPT ![i] = [account |-> a, amount |-> c]]
                /\ timeline' = [timeline EXCEPT ![a] = timeline[a] \cup {i}]
                /\ spent' = [spent EXCEPT ![a] = spent[a] + c]
<1>1. c \in Nat /\ [account |-> a, amount |-> c] \in LocalBillingEvent
  BY CostsAssumption DEF LocalBillingEvent
<1>2. spent[a] + c \in Nat
  BY <1>1 DEF TypeOK
<1> QED BY <1>1, <1>2 DEF RecordScript, TypeOK

LEMMA RecordTyped ==
    ASSUME Inv, NEW p \in Procs, Record(p) \/ RecordReplyLost(p)
    PROVE  Inv'
<1> USE DEF Inv
<1>1. /\ req[p].pc = "billing" /\ req[p].account \in Accounts /\ req[p].id \in Ids
      /\ req[p].amount \in Costs
      /\ RecordScript(req[p].id, req[p].account, req[p].amount)
      /\ UNCHANGED <<opened, credit, adjustments, debited>>
  BY DEF Record, RecordReplyLost, Aimed
<1>2. /\ events' \in [Ids -> LocalBillingEvent \cup {NoEvent}]
      /\ timeline' \in [Accounts -> SUBSET Ids]
      /\ spent' \in [Accounts -> Nat]
  BY <1>1, Recording
<1>3. req' \in [Procs -> Request] /\ Aimed'
  <2>1. CASE UNCHANGED req
    BY <2>1 DEF TypeOK, Aimed
  <2>2. CASE End(p, "answered")
    <3>1. req' \in [Procs -> Request] /\ req' = [req EXCEPT ![p] = [Idle EXCEPT !.pc = "answered"]]
      BY <2>2, Ending DEF PCs, TypeOK
    <3> QED BY <3>1 DEF Aimed, Idle, TypeOK
  <2> QED BY <2>1, <2>2 DEF Record, RecordReplyLost
<1> QED BY <1>1, <1>2, <1>3 DEF TypeOK

LEMMA ProvisionTyped ==
    ASSUME Inv, NEW p \in Procs, NEW a \in Accounts, NEW c \in Credits, Provision(p, a, c)
    PROVE  Inv'
<1> USE DEF Inv
<1>1. [pc |-> "grant", account |-> a, id |-> None, amount |-> c] \in Request
  BY CreditsAssumption DEF Request, PCs
<1>2. req' \in [Procs -> Request] /\ Aimed'
  BY <1>1 DEF Provision, Aimed, TypeOK
<1> QED BY <1>2 DEF Provision, TypeOK

LEMMA Granting ==
    ASSUME TypeOK, NEW a \in Accounts, NEW c \in Credits, GrantScript(a, c)
    PROVE  /\ adjustments' \subseteq AdjustmentKeys
           /\ opened' \subseteq Accounts
           /\ credit' \in [Accounts -> Nat]
           /\ \/ UNCHANGED <<adjustments, opened, credit>>
              \/ /\ InitialKey(a) \notin adjustments
                 /\ adjustments' = adjustments \cup {InitialKey(a)}
                 /\ credit' = [credit EXCEPT ![a] = credit[a] + c]
<1>1. c \in Nat /\ credit[a] + c \in Nat
  BY CreditsAssumption DEF TypeOK
<1>2. InitialKey(a) \in AdjustmentKeys
  BY DEF AdjustmentKeys
<1> QED BY <1>1, <1>2 DEF GrantScript, TypeOK

LEMMA GrantTyped ==
    ASSUME Inv, NEW p \in Procs, GrantCredit(p) \/ GrantReplyLost(p)
    PROVE  Inv'
<1> USE DEF Inv
<1>1. /\ req[p].account \in Accounts /\ req[p].amount \in Credits
      /\ GrantScript(req[p].account, req[p].amount)
      /\ UNCHANGED <<spent, events, timeline, debited>>
  BY DEF GrantCredit, GrantReplyLost, Aimed
<1>2. /\ adjustments' \subseteq AdjustmentKeys
      /\ opened' \subseteq Accounts
      /\ credit' \in [Accounts -> Nat]
  BY <1>1, Granting
<1>3. req' \in [Procs -> Request] /\ Aimed'
  <2>1. CASE UNCHANGED req
    BY <2>1 DEF TypeOK, Aimed
  <2>2. CASE End(p, "idle")
    <3>1. req' \in [Procs -> Request] /\ req' = [req EXCEPT ![p] = [Idle EXCEPT !.pc = "idle"]]
      BY <2>2, Ending DEF PCs, TypeOK
    <3> QED BY <3>1 DEF Aimed, Idle, TypeOK
  <2> QED BY <2>1, <2>2 DEF GrantCredit, GrantReplyLost
<1> QED BY <1>1, <1>2, <1>3 DEF TypeOK

LEMMA Moving ==
    ASSUME TypeOK, NEW a \in Accounts, NEW d \in Deltas, Move(a, d)
    PROVE  \/ /\ d > 0 /\ UNCHANGED <<spent, debited>>
              /\ credit' \in [Accounts -> Nat]
              /\ credit' = [credit EXCEPT ![a] = credit[a] + d]
           \/ /\ d < 0 /\ UNCHANGED credit
              /\ spent' \in [Accounts -> Nat] /\ debited' \in [Accounts -> Nat]
              /\ spent' = [spent EXCEPT ![a] = spent[a] - d]
              /\ debited' = [debited EXCEPT ![a] = debited[a] - d]
<1>0. d \in Int /\ d # 0
  BY DeltasAssumption
<1>1. CASE d > 0
  <2>1. credit[a] + d \in Nat
    BY <1>0, <1>1 DEF TypeOK
  <2> QED BY <1>1, <2>1 DEF Move, TypeOK
<1>2. CASE d < 0
  <2>1. spent[a] - d \in Nat /\ debited[a] - d \in Nat
    BY <1>0, <1>2 DEF TypeOK
  <2>2. ~(d > 0)
    BY <1>0, <1>2
  <2> QED BY <1>2, <2>1, <2>2 DEF Move, TypeOK
<1> QED BY <1>0, <1>1, <1>2

LEMMA AdjustTyped ==
    ASSUME Inv, NEW a \in Accounts, NEW k \in Keys, NEW d \in Deltas, Adjust(a, k, d)
    PROVE  Inv'
<1> USE DEF Inv
<1>1. UNCHANGED <<events, timeline, req>>
  BY DEF Adjust
<1>2. CASE k \in adjustments
  BY <1>1, <1>2 DEF Adjust, TypeOK, Aimed
<1>3. CASE k \notin adjustments
  <2>1. Move(a, d) /\ adjustments' = adjustments \cup {k} /\ opened' = opened \cup {a}
    BY <1>3 DEF Adjust
  <2>2. credit' \in [Accounts -> Nat] /\ spent' \in [Accounts -> Nat] /\ debited' \in [Accounts -> Nat]
    BY <2>1, Moving DEF TypeOK
  <2>3. adjustments' \subseteq AdjustmentKeys /\ opened' \subseteq Accounts
    BY <2>1 DEF TypeOK, AdjustmentKeys
  <2>4. Aimed'
    BY <1>1 DEF Aimed
  <2> QED BY <1>1, <2>2, <2>3, <2>4 DEF TypeOK
<1> QED BY <1>2, <1>3

LEMMA InvInit == Init => Inv
BY DEF Init, Inv, TypeOK, Aimed, Idle, Request, PCs

LEMMA InvNext == Inv /\ [Next]_vars => Inv'
<1> SUFFICES ASSUME Inv, [Next]_vars PROVE Inv'
  OBVIOUS
<1>1. CASE UNCHANGED vars
  BY <1>1 DEF vars, Inv, TypeOK, Aimed
<1>2. CASE Next
  BY <1>2, Steps, QuietTyped, RecordTyped, ProvisionTyped, GrantTyped, AdjustTyped
<1> QED BY <1>1, <1>2

\* Accounts, events, timelines and requests keep their types, whatever fails.
THEOREM TypeCorrect == Spec => []TypeOK
<1>1. Inv => TypeOK
  BY DEF Inv
<1> QED BY <1>1, InvInit, InvNext, PTL DEF Spec

-----------------------------------------------------------------------------
(* Timelines and events.                                                    *)

\* Every step leaves the events alone or records one for the first time.
LEMMA EventSteps ==
    ASSUME Inv, [Next]_vars
    PROVE  \/ /\ UNCHANGED <<events, timeline>>
              /\ \A b \in Accounts : spent'[b] - debited'[b] = spent[b] - debited[b]
           \/ \E p \in Procs :
                LET i == req[p].id  a == req[p].account  c == req[p].amount
                IN  /\ i \in Ids /\ a \in Accounts /\ c \in Costs
                    /\ req[p].pc = "billing"
                    /\ events[i] = NoEvent
                    /\ events' = [events EXCEPT ![i] = [account |-> a, amount |-> c]]
                    /\ timeline' = [timeline EXCEPT ![a] = timeline[a] \cup {i}]
                    /\ spent' = [spent EXCEPT ![a] = spent[a] + c]
                    /\ UNCHANGED <<credit, debited, adjustments>>
                    /\ UNCHANGED req \/ End(p, "answered")
<1> USE DEF Inv
<1>1. CASE UNCHANGED vars
  BY <1>1 DEF vars
<1>2. CASE \E p \in Procs : Quiet(p)
  BY <1>2, QuietTyped DEF book
<1>3. CASE \E p \in Procs : Record(p) \/ RecordReplyLost(p)
  <2> PICK p \in Procs : Record(p) \/ RecordReplyLost(p)
    BY <1>3
  <2>1. /\ req[p].account \in Accounts /\ req[p].id \in Ids /\ req[p].amount \in Costs
        /\ req[p].pc = "billing"
        /\ RecordScript(req[p].id, req[p].account, req[p].amount)
        /\ UNCHANGED <<credit, debited, adjustments>>
        /\ UNCHANGED req \/ End(p, "answered")
    BY DEF Record, RecordReplyLost, Aimed
  <2> QED BY <2>1, Recording
<1>4. CASE \E p \in Procs, a \in Accounts, c \in Credits : Provision(p, a, c)
  BY <1>4 DEF Provision
<1>5. CASE \E p \in Procs : GrantCredit(p) \/ GrantReplyLost(p)
  BY <1>5 DEF GrantCredit, GrantReplyLost
<1>6. CASE \E a \in Accounts, k \in Keys, d \in Deltas : Adjust(a, k, d)
  <2> PICK a \in Accounts, k \in Keys, d \in Deltas : Adjust(a, k, d)
    BY <1>6
  <2>1. UNCHANGED <<events, timeline>> /\ (UNCHANGED <<spent, debited>> \/ Move(a, d))
    BY DEF Adjust
  <2>2. \/ UNCHANGED <<spent, debited>>
        \/ /\ spent' = [spent EXCEPT ![a] = spent[a] - d]
           /\ debited' = [debited EXCEPT ![a] = debited[a] - d]
    BY <2>1, Moving
  <2>3. ASSUME NEW b \in Accounts PROVE spent'[b] - debited'[b] = spent[b] - debited[b]
    BY <2>2, DeltasAssumption DEF TypeOK
  <2> QED BY <2>1, <2>3
<1> QED BY <1>1, <1>2, <1>3, <1>4, <1>5, <1>6, Steps

\* The timelines list the recorded events, and add up to what was charged.
Listed ==
    \A a \in Accounts :
        timeline[a] = {i \in Ids : events[i] # NoEvent /\ events[i].account = a}

Summed ==
    \A a \in Accounts :
        /\ IsFiniteSet(timeline[a])
        /\ spent[a] = debited[a] + Sum(Amounts, timeline[a])

\* A first event of account a, seen by the timelines ...
LEMMA ListedRecord ==
    ASSUME Inv, Listed, NEW i \in Ids, NEW a \in Accounts, NEW c \in Costs,
           events[i] = NoEvent,
           events' = [events EXCEPT ![i] = [account |-> a, amount |-> c]],
           timeline' = [timeline EXCEPT ![a] = timeline[a] \cup {i}]
    PROVE  Listed'
<1> DEFINE e == [account |-> a, amount |-> c]
<1>1. e # NoEvent /\ e.account = a
  BY NoEventIsNone DEF LocalBillingEvent
<1>2. events' = [events EXCEPT ![i] = e]
  OBVIOUS
<1> HIDE DEF e
<1>3. ASSUME NEW b \in Accounts
      PROVE  timeline'[b] = {j \in Ids : events'[j] # NoEvent /\ events'[j].account = b}
  <2>1. timeline[b] = {j \in Ids : events[j] # NoEvent /\ events[j].account = b}
    BY DEF Listed
  <2>2. timeline'[b] = IF b = a THEN timeline[b] \cup {i} ELSE timeline[b]
    BY DEF Inv, TypeOK
  <2>3. \A j \in Ids : events'[j] = IF j = i THEN e ELSE events[j]
    BY <1>2 DEF Inv, TypeOK
  <2> QED BY <1>1, <2>1, <2>2, <2>3
<1> QED BY <1>3 DEF Listed

\* ... and by the totals: it is new to every timeline, so that it is added to
\* one of them, once.
LEMMA SummedRecord ==
    ASSUME Inv, Listed, Summed, NEW i \in Ids, NEW a \in Accounts, NEW c \in Costs,
           events[i] = NoEvent,
           events' = [events EXCEPT ![i] = [account |-> a, amount |-> c]],
           timeline' = [timeline EXCEPT ![a] = timeline[a] \cup {i}],
           spent' = [spent EXCEPT ![a] = spent[a] + c], UNCHANGED debited
    PROVE  Summed'
<1>0. c \in Nat
  BY CostsAreNat
<1>1. PICK f, g : f = Amounts /\ g = Amounts'
  OBVIOUS
<1>2. \A j \in Ids : f[j] \in Nat /\ g[j] = IF j = i THEN c ELSE f[j]
  <2>1. \A j \in Ids : events[j].amount \in Nat
    BY CostsAreNat DEF Inv, TypeOK, LocalBillingEvent, NoEvent
  <2>2. \A j \in Ids : events'[j].amount = IF j = i THEN c ELSE events[j].amount
    BY DEF Inv, TypeOK
  <2> QED BY <1>1, <2>1, <2>2 DEF Amounts
<1>3. ASSUME NEW b \in Accounts
      PROVE  IsFiniteSet(timeline'[b]) /\ spent'[b] = debited'[b] + Sum(g, timeline'[b])
  <2>1. PICK S : S = timeline[b]
    OBVIOUS
  <2>2. S \subseteq Ids /\ i \notin S
    BY <2>1 DEF Listed
  <2>3. IsFiniteSet(S) /\ spent[b] = debited[b] + Sum(f, S)
    BY <1>1, <2>1 DEF Summed
  <2>4. spent[b] \in Nat /\ debited[b] \in Nat /\ debited'[b] = debited[b]
    BY DEF Inv, TypeOK
  <2>5. /\ Sum(f, S) \in Nat /\ Sum(g, S) = Sum(f, S)
        /\ Sum(g, S \cup {i}) = Sum(f, S) + c
    <3>1. \A e \in S : f[e] \in Nat /\ g[e] = f[e]
      BY <1>2, <2>2
    <3>2. g[i] = c /\ g[i] \in Nat
      BY <1>0, <1>2
    <3>3. Sum(f, S) \in Nat /\ Sum(g, S) = Sum(f, S)
      BY <2>3, <3>1, SumType, SumSame
    <3>4. Sum(g, S \cup {i}) = Sum(f, S) + g[i]
      BY <2>2, <2>3, <3>1, <3>2, SumMore
    <3> QED BY <3>2, <3>3, <3>4
  <2>6. CASE b = a
    <3>1. timeline'[b] = S \cup {i} /\ spent'[b] = spent[b] + c
      BY <2>1, <2>6 DEF Inv, TypeOK
    <3>2. IsFiniteSet(S \cup {i})
      BY <2>3, FS_AddElement
    <3>3. spent'[b] = debited'[b] + (Sum(f, S) + c)
      BY ONLY <1>0, <2>3, <2>4, <2>5, <3>1
    <3> QED BY <2>5, <3>1, <3>2, <3>3
  <2>7. CASE b # a
    <3>1. timeline'[b] = S /\ spent'[b] = spent[b]
      BY <2>1, <2>7 DEF Inv, TypeOK
    <3> QED BY <2>3, <2>4, <2>5, <3>1
  <2> QED BY <2>6, <2>7
<1> QED BY <1>1, <1>3 DEF Summed

LEMMA TimelinesNext == Inv /\ Listed /\ Summed /\ [Next]_vars => Listed' /\ Summed'
<1> SUFFICES ASSUME Inv, Listed, Summed, [Next]_vars PROVE Listed' /\ Summed'
  OBVIOUS
<1>1. CASE /\ UNCHANGED <<events, timeline>>
           /\ \A b \in Accounts : spent'[b] - debited'[b] = spent[b] - debited[b]
  <2>1. Listed'
    BY <1>1 DEF Listed
  <2>2. Amounts' = Amounts
    BY <1>1 DEF Amounts
  <2>3. ASSUME NEW b \in Accounts PROVE spent'[b] = debited'[b] + Sum(Amounts, timeline[b])
    <3>1. PICK n : n = Sum(Amounts, timeline[b])
      OBVIOUS
    <3>2. spent[b] = debited[b] + n
      BY <3>1 DEF Summed
    <3>3. n \in Nat
      <4>1. IsFiniteSet(timeline[b]) /\ timeline[b] \in SUBSET timeline[b]
        BY DEF Summed
      <4>2. \A e \in timeline[b] : Amounts[e] \in Nat
        BY CostsAreNat DEF Amounts, Inv, TypeOK, LocalBillingEvent, NoEvent
      <4> QED BY <3>1, <4>1, <4>2, SumType
    <3>4. /\ spent[b] \in Nat /\ debited[b] \in Nat
          /\ spent'[b] \in Nat /\ debited'[b] \in Nat
      BY InvNext DEF Inv, TypeOK
    <3>5. spent'[b] - debited'[b] = spent[b] - debited[b]
      BY <1>1
    <3>6. spent'[b] = debited'[b] + n
      BY ONLY <3>2, <3>3, <3>4, <3>5
    <3> QED BY <3>1, <3>6
  <2>4. Summed'
    BY <1>1, <2>2, <2>3 DEF Summed
  <2> QED BY <2>1, <2>4
<1>2. ASSUME NEW i \in Ids, NEW a \in Accounts, NEW c \in Costs,
             events[i] = NoEvent,
             events' = [events EXCEPT ![i] = [account |-> a, amount |-> c]],
             timeline' = [timeline EXCEPT ![a] = timeline[a] \cup {i}],
             spent' = [spent EXCEPT ![a] = spent[a] + c], UNCHANGED debited
      PROVE  Listed' /\ Summed'
  BY <1>2, ListedRecord, SummedRecord
<1> QED BY <1>1, <1>2, EventSteps

\* A report never meets an entry without event, and adds up to what requests
\* took from the account: the timelines are exact.
THEOREM TimelinesSafe == Spec => []TimelinesAreExact
<1>1. Init => Listed /\ Summed
  <2>1. Sum(Amounts, {}) = 0 /\ IsFiniteSet({})
    BY FS_EmptySet, SumStep
  <2> QED BY <2>1 DEF Init, Listed, Summed
<1>2. Listed /\ Summed => TimelinesAreExact
  <2>1. \A a \in Accounts : Reported(a) = Sum(Amounts, timeline[a])
    BY DEF Reported, Sum
  <2> QED BY <2>1 DEF Listed, Summed, TimelinesAreExact
<1> QED BY <1>1, <1>2, InvInit, InvNext, TimelinesNext, PTL DEF Spec

\* Credit and spending only grow.
LEMMA TotalsGrow ==
    ASSUME Inv, [Next]_vars, NEW a \in Accounts
    PROVE  spent'[a] >= spent[a] /\ credit'[a] >= credit[a]
<1> USE DEF Inv, TypeOK
<1>1. CASE UNCHANGED <<spent, credit>>
  BY <1>1
<1>2. CASE \E p \in Procs : Record(p) \/ RecordReplyLost(p)
  <2> PICK p \in Procs : Record(p) \/ RecordReplyLost(p)
    BY <1>2
  <2>1. /\ req[p].account \in Accounts /\ req[p].id \in Ids /\ req[p].amount \in Costs
        /\ RecordScript(req[p].id, req[p].account, req[p].amount)
        /\ UNCHANGED credit
    BY DEF Record, RecordReplyLost, Aimed
  <2>2. spent' = spent \/ spent' = [spent EXCEPT ![req[p].account] = spent[req[p].account] + req[p].amount]
    BY <2>1, Recording
  <2>3. req[p].amount \in Nat /\ spent[a] \in Nat /\ credit[a] \in Nat
    BY <2>1, CostsAreNat
  <2>4. spent'[a] = spent[a] \/ spent'[a] = spent[a] + req[p].amount
    BY <2>1, <2>2
  <2> QED BY <2>1, <2>3, <2>4
<1>3. CASE \E p \in Procs : GrantCredit(p) \/ GrantReplyLost(p)
  <2> PICK p \in Procs : GrantCredit(p) \/ GrantReplyLost(p)
    BY <1>3
  <2>1. /\ req[p].account \in Accounts /\ req[p].amount \in Credits
        /\ GrantScript(req[p].account, req[p].amount)
        /\ UNCHANGED spent
    BY DEF GrantCredit, GrantReplyLost, Aimed
  <2>2. credit' = credit \/ credit' = [credit EXCEPT ![req[p].account] = credit[req[p].account] + req[p].amount]
    BY <2>1, Granting
  <2>3. req[p].amount \in Nat /\ spent[a] \in Nat /\ credit[a] \in Nat
    BY <2>1, CreditsAssumption
  <2>4. credit'[a] = credit[a] \/ credit'[a] = credit[a] + req[p].amount
    BY <2>1, <2>2
  <2> QED BY <2>1, <2>3, <2>4
<1>4. CASE \E b \in Accounts, k \in Keys, d \in Deltas : Adjust(b, k, d)
  <2> PICK b \in Accounts, k \in Keys, d \in Deltas : Adjust(b, k, d)
    BY <1>4
  <2>1. UNCHANGED <<spent, credit>> \/ Move(b, d)
    BY DEF Adjust
  <2>2. \/ UNCHANGED <<spent, credit>>
        \/ d > 0 /\ UNCHANGED spent /\ credit' = [credit EXCEPT ![b] = credit[b] + d]
        \/ d < 0 /\ UNCHANGED credit /\ spent' = [spent EXCEPT ![b] = spent[b] - d]
    BY <2>1, Moving
  <2> QED BY <2>2, DeltasAssumption
<1>5. CASE \E p \in Procs : Quiet(p)
  BY <1>5, <1>1, QuietTyped DEF book
<1>6. CASE \E p \in Procs, b \in Accounts, c \in Credits : Provision(p, b, c)
  BY <1>6, <1>1 DEF Provision
<1>7. CASE UNCHANGED vars
  BY <1>7, <1>1 DEF vars
<1> QED BY <1>2, <1>3, <1>4, <1>5, <1>6, <1>7, Steps

\* No retry, lost reply or second request with the same id changes an event.
THEOREM EventsImmutable == Spec => EventsAreImmutable
<1>1. ASSUME Inv, [Next]_vars
      PROVE  /\ \A i \in Ids : events[i] # NoEvent => events'[i] = events[i]
             /\ \A a \in Accounts : spent'[a] >= spent[a] /\ credit'[a] >= credit[a]
  <2>1. \A i \in Ids : events[i] # NoEvent => events'[i] = events[i]
    BY <1>1, EventSteps DEF Inv, TypeOK
  <2> QED BY <1>1, <2>1, TotalsGrow
<1> QED BY <1>1, InvInit, InvNext, PTL DEF Spec, EventsAreImmutable

-----------------------------------------------------------------------------
(* Overspending.                                                            *)

Margin(a) == Balance(a) + debited[a]
Bounded(a) == Margin(a) > (Cardinality(Unsettled(a)) - Cardinality(Procs)) * MaxCost

LEMMA Products ==
    ASSUME NEW m \in Int, NEW n \in Int, NEW k \in Nat, m <= n
    PROVE  m * k <= n * k /\ (m - 1) * k = m * k - k
<1>1. n * k = m * k + (n - m) * k
  OBVIOUS
<1>2. n - m \in Nat
  OBVIOUS
<1>3. (n - m) * k >= 0
  BY <1>2
<1> QED BY <1>1, <1>3

LEMMA Counts ==
    ASSUME NEW S, NEW T, T \subseteq Procs, S \subseteq T
    PROVE  /\ Cardinality(S) \in Nat /\ Cardinality(T) \in Nat /\ Cardinality(Procs) \in Nat
           /\ Cardinality(S) <= Cardinality(T)
           /\ Cardinality(T) <= Cardinality(Procs)
           /\ \A p \in T : p \notin S => Cardinality(S) <= Cardinality(T) - 1
<1>1. IsFiniteSet(Procs)
  BY ProcsAssumption
<1>2. IsFiniteSet(T) /\ Cardinality(T) <= Cardinality(Procs)
  BY <1>1, FS_Subset
<1>3. IsFiniteSet(S) /\ Cardinality(S) <= Cardinality(T)
  BY <1>2, FS_Subset
<1>4. Cardinality(S) \in Nat /\ Cardinality(T) \in Nat /\ Cardinality(Procs) \in Nat
  BY <1>1, <1>2, <1>3, FS_CardinalityType
<1>5. ASSUME NEW p \in T, p \notin S PROVE Cardinality(S) <= Cardinality(T) - 1
  <2>1. Cardinality(T \ {p}) = Cardinality(T) - 1
    BY <1>2, FS_RemoveElement
  <2>2. IsFiniteSet(T \ {p}) /\ S \subseteq T \ {p}
    BY <1>2, <1>5, FS_RemoveElement
  <2>3. Cardinality(S) <= Cardinality(T \ {p})
    BY <2>2, FS_Subset
  <2> QED BY <2>1, <2>3
<1> QED BY <1>2, <1>3, <1>4, <1>5

\* Fewer unsettled requests and no smaller margin keep the bound.
LEMMA StaysBounded ==
    ASSUME Inv, Inv', NEW a \in Accounts, Bounded(a),
           Unsettled(a)' \subseteq Unsettled(a), Margin(a)' >= Margin(a)
    PROVE  Bounded(a)'
<1>1. Margin(a) \in Int /\ Margin(a)' \in Int
  BY DEF Inv, TypeOK, Margin, Balance
<1> DEFINE m == Cardinality(Unsettled(a)')
           n == Cardinality(Unsettled(a))
           N == Cardinality(Procs)
<1>2. m \in Nat /\ n \in Nat /\ N \in Nat /\ m <= n
  BY Counts DEF Unsettled
<1> HIDE DEF m, n, N
<1>3. MaxCost \in Nat
  BY CostsAssumption
<1>4. (m - N) * MaxCost <= (n - N) * MaxCost
  BY <1>2, <1>3, Products
<1>5. Margin(a) > (n - N) * MaxCost
  BY DEF Bounded, n, N
<1>6. (m - N) * MaxCost \in Int /\ (n - N) * MaxCost \in Int
  BY <1>2, <1>3
<1>7. Margin(a)' > (m - N) * MaxCost
  BY <1>1, <1>4, <1>5, <1>6
<1> QED BY <1>7 DEF Bounded, m, N

\* A process that ends or starts over is no longer unsettled.
LEMMA LeavesUnsettled ==
    ASSUME Inv, Inv', NEW a \in Accounts, NEW p \in Procs, NEW r,
           req' = [req EXCEPT ![p] = r], r.pc \notin {"proxy", "billing"},
           \A i \in Ids : events[i] # NoEvent => events'[i] # NoEvent
    PROVE  Unsettled(a)' \subseteq Unsettled(a) \ {p}
<1> SUFFICES ASSUME NEW q \in Unsettled(a)' PROVE q \in Unsettled(a) \ {p}
  OBVIOUS
<1>1. q \in Procs /\ req'[q].pc \in {"proxy", "billing"} /\ req'[q].account = a /\ events'[req'[q].id] = NoEvent
  BY DEF Unsettled
<1>2. q # p
  BY <1>1 DEF Inv, TypeOK
<1>3. req'[q] = req[q]
  BY <1>1, <1>2 DEF Inv, TypeOK
<1>4. req[q].id \in Ids
  BY <1>1, <1>3 DEF Inv, Aimed
<1> QED BY <1>1, <1>2, <1>3, <1>4 DEF Unsettled

LEMMA SameUnsettled ==
    ASSUME Inv, NEW a \in Accounts, UNCHANGED req,
           \A i \in Ids : events[i] # NoEvent => events'[i] # NoEvent
    PROVE  Unsettled(a)' \subseteq Unsettled(a)
BY DEF Unsettled, Inv, Aimed

LEMMA EndingRecord == ASSUME NEW pc PROVE [Idle EXCEPT !.pc = pc].pc = pc
BY DEF Idle

LEMMA QuietBounded ==
    ASSUME Inv, Inv', NEW p \in Procs, Quiet(p), NEW a \in Accounts, Bounded(a)
    PROVE  Bounded(a)'
<1>0. /\ UNCHANGED <<events, credit, spent, debited>>
      /\ Margin(a) \in Int /\ Margin(a)' = Margin(a)
  BY QuietTyped DEF book, Margin, Balance, Inv, TypeOK
<1>1. CASE Unsettled(a)' \subseteq Unsettled(a)
  BY <1>0, <1>1, StaysBounded
<1>2. CASE \E b \in Accounts \cup {Master}, i \in Ids : Begin(p, b, i)
  <2> PICK b \in Accounts \cup {Master}, i \in Ids : Begin(p, b, i)
    BY <1>2
  <2>1. req' = [req EXCEPT ![p] = [pc |-> "check", account |-> b, id |-> i, amount |-> 0]]
    BY DEF Begin
  <2> QED BY <1>0, <1>1, <2>1, LeavesUnsettled
<1>3. CASE \E pc \in {"refused", "unavailable", "answered", "idle"} : End(p, pc)
  <2> PICK pc \in {"refused", "unavailable", "answered", "idle"} : End(p, pc)
    BY <1>3
  <2>1. req' = [req EXCEPT ![p] = [Idle EXCEPT !.pc = pc]]
    BY DEF End
  <2> QED BY <1>0, <1>1, <2>1, LeavesUnsettled, EndingRecord
<1>4. CASE \E c \in Costs : ProviderAnswers(p, c)
  <2> PICK c \in Costs : ProviderAnswers(p, c)
    BY <1>4
  <2> DEFINE r == [req[p] EXCEPT !.pc = "billing", !.amount = c]
  <2>1. r.id = req[p].id /\ r.account = req[p].account
    BY DEF Inv, TypeOK, Request
  <2>2. req' = [req EXCEPT ![p] = r] /\ req[p].pc = "proxy"
    BY DEF ProviderAnswers
  <2> HIDE DEF r
  <2>3. \A q \in Procs : req'[q].id = req[q].id /\ req'[q].account = req[q].account
                          /\ (req'[q].pc = req[q].pc \/ q = p)
    BY <2>1, <2>2 DEF Inv, TypeOK
  <2>4. Unsettled(a)' \subseteq Unsettled(a)
    BY <1>0, <2>2, <2>3 DEF Unsettled
  <2> QED BY <1>1, <2>4
<1>5. CASE Enforce(p) /\ Become(p, "proxy")
  <2>1. req[p].pc = "check" /\ Admits(req[p].account)
    <3> SUFFICES ASSUME ~Admits(req[p].account) PROVE FALSE
      BY <1>5 DEF Enforce
    <3>1. End(p, "refused")
      BY <1>5 DEF Enforce
    <3>2. req'[p].pc = "refused"
      BY <3>1, EndingRecord DEF End, Inv, TypeOK
    <3>3. req' = [req EXCEPT ![p] = [req[p] EXCEPT !.pc = "proxy"]]
      BY <1>5, Becoming DEF PCs, Inv, TypeOK
    <3>4. [req[p] EXCEPT !.pc = "proxy"].pc = "proxy"
      BY DEF Inv, TypeOK, Request
    <3>5. req'[p].pc = "proxy"
      BY <3>3, <3>4 DEF Inv, TypeOK
    <3> QED BY <3>2, <3>5
  <2>2. req' = [req EXCEPT ![p] = [req[p] EXCEPT !.pc = "proxy"]]
    BY <1>5, Becoming DEF PCs, Inv, TypeOK
  <2>3. CASE req[p].account = a
    <3>1. Balance(a) > 0
      BY <2>1, <2>3, AccountsAssumption DEF Admits
    <3>2. Margin(a)' > 0
      BY <1>0, <3>1 DEF Margin, Balance, Inv, TypeOK
    <3> DEFINE m == Cardinality(Unsettled(a)')
               N == Cardinality(Procs)
    <3>3. m \in Nat /\ N \in Nat /\ m <= N
      BY Counts DEF Unsettled
    <3> HIDE DEF m, N
    <3>4. (m - N) * MaxCost <= 0 * MaxCost
      BY <3>3, CostsAssumption, Products
    <3>5. (m - N) * MaxCost <= 0 /\ (m - N) * MaxCost \in Int
      BY <3>3, <3>4, CostsAssumption
    <3>6. Margin(a)' > (m - N) * MaxCost
      BY <1>0, <3>2, <3>5
    <3> QED BY <3>6 DEF Bounded, m, N
  <2>4. CASE req[p].account # a
    <3> DEFINE r == [req[p] EXCEPT !.pc = "proxy"]
    <3>1. r.account = req[p].account
      BY DEF Inv, TypeOK, Request
    <3>2. req' = [req EXCEPT ![p] = r]
      BY <2>2
    <3> HIDE DEF r
    <3>3. Unsettled(a)' \subseteq Unsettled(a)
      BY <1>0, <2>4, <3>1, <3>2 DEF Unsettled, Inv, TypeOK
    <3> QED BY <1>1, <3>3
  <2> QED BY <2>3, <2>4
<1> QED BY <1>2, <1>3, <1>4, <1>5 DEF Quiet, Enforce, EnforceUnavailable, ProviderFails, NotRecorded, ProvisionAborts

\* Recording an event costs at most MaxCost and settles the request.
LEMMA RecordBounded ==
    ASSUME Inv, Inv', NEW a \in Accounts, Bounded(a), NEW p \in Procs,
           req[p].id \in Ids, req[p].account \in Accounts, req[p].amount \in Costs,
           req[p].pc = "billing", events[req[p].id] = NoEvent,
           events' = [events EXCEPT ![req[p].id] =
                        [account |-> req[p].account, amount |-> req[p].amount]],
           spent' = [spent EXCEPT ![req[p].account] = spent[req[p].account] + req[p].amount],
           UNCHANGED <<credit, debited>>,
           UNCHANGED req \/ End(p, "answered")
    PROVE  Bounded(a)'
<1> DEFINE i == req[p].id
           b == req[p].account
           c == req[p].amount
           e == [account |-> b, amount |-> c]
<1>1. e # NoEvent
  BY NoEventIsNone DEF LocalBillingEvent
<1>2. c \in Nat /\ c <= MaxCost /\ MaxCost \in Nat
  BY CostsAreNat, CostsAssumption
<1>3. /\ i \in Ids /\ b \in Accounts
      /\ events' = [events EXCEPT ![i] = e]
      /\ spent' = [spent EXCEPT ![b] = spent[b] + c]
  OBVIOUS
<1> HIDE DEF e
<1>4. \A j \in Ids : events[j] # NoEvent => events'[j] # NoEvent
  BY <1>1, <1>3 DEF Inv, TypeOK
<1>5. Unsettled(a)' \subseteq Unsettled(a) \ {p}
  <2>1. CASE UNCHANGED req
    <3>1. events'[req'[p].id] # NoEvent
      BY <1>1, <1>3, <2>1 DEF Inv, TypeOK
    <3>2. p \notin Unsettled(a)'
      BY <3>1 DEF Unsettled
    <3> QED BY <1>4, <2>1, <3>2, SameUnsettled
  <2>2. CASE End(p, "answered")
    <3>1. req' = [req EXCEPT ![p] = [Idle EXCEPT !.pc = "answered"]]
      BY <2>2 DEF End
    <3> QED BY <1>4, <3>1, LeavesUnsettled, EndingRecord
  <2> QED BY <2>1, <2>2
<1>6. CASE a # b
  <2>1. spent'[a] = spent[a]
    BY <1>3, <1>6 DEF Inv, TypeOK
  <2>2. Margin(a) \in Int /\ Margin(a)' = Margin(a)
    BY <2>1 DEF Margin, Balance, Inv, TypeOK
  <2> QED BY <1>5, <2>2, StaysBounded
<1>7. CASE a = b
  <2>1. spent'[a] = spent[a] + c
    BY <1>3, <1>7 DEF Inv, TypeOK
  <2>2. Margin(a) \in Int /\ Margin(a)' = Margin(a) - c
    BY <1>2, <2>1 DEF Margin, Balance, Inv, TypeOK
  <2>3. p \in Unsettled(a)
    BY <1>7 DEF Unsettled
  <2> DEFINE m == Cardinality(Unsettled(a)')
             n == Cardinality(Unsettled(a))
             N == Cardinality(Procs)
  <2>4. m \in Nat /\ n \in Nat /\ N \in Nat /\ m <= n - 1
    <3>1. Unsettled(a) \subseteq Procs /\ Unsettled(a)' \subseteq Unsettled(a) /\ p \notin Unsettled(a)'
      BY <1>5 DEF Unsettled
    <3> HIDE DEF i, b, c
    <3> QED BY <2>3, <3>1, Counts
  <2>5. Margin(a) > (n - N) * MaxCost
    BY DEF Bounded
  <2> HIDE DEF m, n, N, c, b, i
  <2>6. (m - N) * MaxCost <= ((n - N) - 1) * MaxCost
    <3>1. m - N \in Int /\ (n - N) - 1 \in Int /\ m - N <= (n - N) - 1
      BY <2>4
    <3> QED BY <1>2, <3>1, Products
  <2>7. ((n - N) - 1) * MaxCost = (n - N) * MaxCost - MaxCost
    <3>1. n - N \in Int
      BY <2>4
    <3> QED BY <1>2, <3>1, Products
  <2>8. (m - N) * MaxCost \in Int /\ (n - N) * MaxCost \in Int
    BY <1>2, <2>4
  <2>9. Margin(a)' > (m - N) * MaxCost
    BY <1>2, <2>2, <2>5, <2>6, <2>7, <2>8
  <2> QED BY <2>9 DEF Bounded, m, N
<1> QED BY <1>6, <1>7

LEMMA BoundedNext ==
    ASSUME Inv, Inv', [Next]_vars, NEW a \in Accounts, Bounded(a)
    PROVE  Bounded(a)'
<1>0. Margin(a) \in Int /\ Margin(a)' \in Int
  BY DEF Margin, Balance, Inv, TypeOK
<1>1. CASE \E p \in Procs : Quiet(p)
  BY <1>1, QuietBounded
<1>2. CASE ~ UNCHANGED <<events, timeline>>
  BY <1>2, EventSteps, RecordBounded
<1>3. CASE UNCHANGED <<events, timeline>> /\ (\E p \in Procs : Record(p) \/ RecordReplyLost(p))
  <2> PICK p \in Procs : Record(p) \/ RecordReplyLost(p)
    BY <1>3
  <2>1. /\ req[p].account \in Accounts /\ req[p].id \in Ids /\ req[p].amount \in Costs
        /\ RecordScript(req[p].id, req[p].account, req[p].amount)
        /\ UNCHANGED <<credit, debited>>
        /\ UNCHANGED req \/ End(p, "answered")
    BY DEF Record, RecordReplyLost, Aimed, Inv
  <2>2. UNCHANGED spent
    <3>1. CASE events[req[p].id] # NoEvent
      BY <2>1, <3>1, Recording DEF Inv
    <3>2. CASE events[req[p].id] = NoEvent
      <4> DEFINE e == [account |-> req[p].account, amount |-> req[p].amount]
      <4>1. e # NoEvent
        BY <2>1, NoEventIsNone DEF LocalBillingEvent
      <4>2. events' = [events EXCEPT ![req[p].id] = e]
        BY <2>1, <3>2, Recording DEF Inv
      <4> HIDE DEF e
      <4> QED BY <1>3, <2>1, <3>2, <4>1, <4>2 DEF Inv, TypeOK
    <3> QED BY <3>1, <3>2
  <2>3. Margin(a)' = Margin(a)
    BY <2>1, <2>2 DEF Margin, Balance
  <2>4. Unsettled(a)' \subseteq Unsettled(a)
    <3>1. CASE UNCHANGED req
      BY <1>3, <3>1, SameUnsettled
    <3>2. CASE End(p, "answered")
      <4>1. req' = [req EXCEPT ![p] = [Idle EXCEPT !.pc = "answered"]]
        BY <3>2 DEF End
      <4>2. \A i \in Ids : events[i] # NoEvent => events'[i] # NoEvent
        BY <1>3
      <4> QED BY <4>1, <4>2, LeavesUnsettled, EndingRecord
    <3> QED BY <2>1, <3>1, <3>2
  <2> QED BY <1>0, <2>3, <2>4, StaysBounded
<1>4. CASE \E p \in Procs, b \in Accounts, c \in Credits : Provision(p, b, c)
  <2> PICK p \in Procs, b \in Accounts, c \in Credits : Provision(p, b, c)
    BY <1>4
  <2>1. req' = [req EXCEPT ![p] = [pc |-> "grant", account |-> b, id |-> None, amount |-> c]]
    BY DEF Provision
  <2>2. UNCHANGED <<credit, spent, events, debited>>
    BY DEF Provision
  <2>3. Unsettled(a)' \subseteq Unsettled(a)
    BY <2>1, <2>2, LeavesUnsettled
  <2>4. Margin(a)' = Margin(a)
    BY <2>2 DEF Margin, Balance
  <2> QED BY <1>0, <2>3, <2>4, StaysBounded
<1>5. CASE \E p \in Procs : GrantCredit(p) \/ GrantReplyLost(p)
  <2> PICK p \in Procs : GrantCredit(p) \/ GrantReplyLost(p)
    BY <1>5
  <2>1. UNCHANGED <<spent, events, debited>> /\ (UNCHANGED req \/ End(p, "idle"))
    BY DEF GrantCredit, GrantReplyLost
  <2>2. Unsettled(a)' \subseteq Unsettled(a)
    <3>1. CASE UNCHANGED req
      BY <2>1, <3>1, SameUnsettled
    <3>2. CASE End(p, "idle")
      <4>1. req' = [req EXCEPT ![p] = [Idle EXCEPT !.pc = "idle"]]
        BY <3>2 DEF End
      <4> QED BY <2>1, <4>1, LeavesUnsettled, EndingRecord
    <3> QED BY <2>1, <3>1, <3>2
  <2>3. Margin(a)' >= Margin(a)
    BY <2>1, TotalsGrow DEF Margin, Balance, Inv, TypeOK
  <2> QED BY <2>2, <2>3, StaysBounded
<1>6. CASE \E b \in Accounts, k \in Keys, d \in Deltas : Adjust(b, k, d)
  <2> PICK b \in Accounts, k \in Keys, d \in Deltas : Adjust(b, k, d)
    BY <1>6
  <2>1. UNCHANGED <<events, req>> /\ (UNCHANGED <<credit, spent, debited>> \/ Move(b, d))
    BY DEF Adjust
  <2>2. Unsettled(a)' \subseteq Unsettled(a)
    BY <2>1, SameUnsettled
  <2>3. Margin(a)' >= Margin(a)
    <3>1. CASE UNCHANGED <<credit, spent, debited>>
      BY <1>0, <3>1 DEF Margin, Balance
    <3>2. CASE Move(b, d)
      <4>1. \/ d > 0 /\ UNCHANGED <<spent, debited>> /\ credit' = [credit EXCEPT ![b] = credit[b] + d]
            \/ d < 0 /\ UNCHANGED credit /\ spent' = [spent EXCEPT ![b] = spent[b] - d]
                     /\ debited' = [debited EXCEPT ![b] = debited[b] - d]
        BY <3>2, Moving DEF Inv
      <4>2. d \in Int
        BY DeltasAssumption
      <4> QED BY <4>1, <4>2 DEF Margin, Balance, Inv, TypeOK
    <3> QED BY <2>1, <3>1, <3>2
  <2> QED BY <2>2, <2>3, StaysBounded
<1>7. CASE UNCHANGED vars
  <2>1. Unsettled(a)' \subseteq Unsettled(a) /\ Margin(a)' = Margin(a)
    BY <1>7 DEF vars, Unsettled, Margin, Balance
  <2> QED BY <1>0, <2>1, StaysBounded
<1> QED BY <1>1, <1>2, <1>3, <1>4, <1>5, <1>6, <1>7, Steps

\* Concurrent requests overdraw an account by at most one request each: the
\* check before forwarding bounds what charging after the answer can take.
THEOREM OverspendSafe == Spec => []OverspendIsBounded
<1>1. OverspendIsBounded <=> \A a \in Accounts : Bounded(a)
  BY DEF OverspendIsBounded, Bounded, Margin
<1>2. ASSUME Init PROVE OverspendIsBounded
  <2> SUFFICES ASSUME NEW a \in Accounts PROVE Bounded(a)
    BY <1>1
  <2>1. Unsettled(a) = {} /\ Margin(a) = 0
    BY <1>2 DEF Init, Unsettled, Idle, Margin, Balance
  <2>2. Cardinality(Unsettled(a)) = 0
    BY <2>1, FS_EmptySet
  <2> DEFINE N == Cardinality(Procs)
  <2>3. N \in Nat \ {0}
    BY ProcsAssumption, FS_CardinalityType, FS_EmptySet
  <2> HIDE DEF N
  <2>4. (0 - N) * MaxCost <= (0 - 1) * MaxCost
    <3>1. 0 - N \in Int /\ 0 - 1 \in Int /\ 0 - N <= 0 - 1
      BY <2>3
    <3> QED BY <3>1, Products, CostsAssumption
  <2>5. (0 - N) * MaxCost < 0
    BY <2>3, <2>4, CostsAssumption
  <2> QED BY <2>1, <2>2, <2>5 DEF Bounded, N
<1>3. ASSUME Inv, OverspendIsBounded, [Next]_vars PROVE OverspendIsBounded'
  <2>1. Inv'
    BY <1>3, InvNext
  <2>2. \A a \in Accounts : Bounded(a)'
    BY <1>1, <1>3, <2>1, BoundedNext
  <2> QED BY <2>2 DEF OverspendIsBounded, Bounded, Margin
<1> QED BY <1>2, <1>3, InvInit, InvNext, PTL DEF Spec

-----------------------------------------------------------------------------
(* The ledger implements module Accounting.                                 *)

balances == [a \in Accounts |-> Balance(a)]
recorded == {j \in Ids : events[j] # NoEvent}
keysUsed == {AdjustmentKey(k) : k \in adjustments} \cup {EventKey(i) : i \in recorded}

\* A step that only moves the balance of a, and settles the fresh key k.
LEMMA Settling ==
    ASSUME NEW k, NEW a \in Accounts, Inv', k \notin keysUsed,
           keysUsed' = keysUsed \cup {k},
           \A b \in Accounts \ {a} : balances'[b] = balances[b]
    PROVE  Abstract!Settle(k, a)
<1>1. balances' \in [Accounts -> Int]
  BY DEF Inv, TypeOK, balances, Balance
<1> QED BY <1>1 DEF Abstract!Settle, balances, keysUsed, recorded

LEMMA FreshKeys ==
    /\ \A i \in Ids : EventKey(i) \in keysUsed <=> i \in recorded
    /\ \A k : AdjustmentKey(k) \in keysUsed <=> k \in adjustments
BY DEF keysUsed, recorded, EventKey, AdjustmentKey

LEMMA StepRefines ==
    ASSUME Inv, Inv', [Next]_vars
    PROVE  Abstract!Next \/ UNCHANGED <<balances, keysUsed>>
<1> USE DEF Inv, TypeOK
<1>1. CASE UNCHANGED <<credit, spent, adjustments, events>>
  BY <1>1 DEF balances, Balance, keysUsed, recorded
<1>2. ASSUME NEW i \in Ids, NEW a \in Accounts, NEW c \in Costs, events[i] = NoEvent,
             events' = [events EXCEPT ![i] = [account |-> a, amount |-> c]],
             spent' = [spent EXCEPT ![a] = spent[a] + c],
             UNCHANGED <<credit, adjustments>>
      PROVE  Abstract!Next
  <2> DEFINE e == [account |-> a, amount |-> c]
  <2>1. e # NoEvent
    BY NoEventIsNone DEF LocalBillingEvent
  <2>2. events' = [events EXCEPT ![i] = e]
    BY <1>2
  <2> HIDE DEF e
  <2>3. recorded' = recorded \cup {i} /\ i \notin recorded
    BY <1>2, <2>1, <2>2 DEF recorded
  <2>4. EventKey(i) \notin keysUsed /\ keysUsed' = keysUsed \cup {EventKey(i)}
    BY <1>2, <2>3, FreshKeys DEF keysUsed
  <2>5. \A b \in Accounts \ {a} : balances'[b] = balances[b]
    BY <1>2 DEF balances, Balance
  <2>6. balances'[a] <= balances[a]
    <3>1. c \in Nat
      BY CostsAreNat
    <3> QED BY <1>2, <3>1 DEF balances, Balance
  <2>7. Abstract!Settle(EventKey(i), a)
    BY <2>4, <2>5, Settling
  <2> QED BY <2>6, <2>7 DEF Abstract!Next, Abstract!Charge, balances
<1>3. ASSUME NEW a \in Accounts, NEW c \in Credits, InitialKey(a) \notin adjustments,
             adjustments' = adjustments \cup {InitialKey(a)},
             credit' = [credit EXCEPT ![a] = credit[a] + c],
             UNCHANGED <<spent, events>>
      PROVE  Abstract!Next
  <2> DEFINE k == AdjustmentKey(InitialKey(a))
  <2>1. k \notin keysUsed
    BY <1>3, FreshKeys
  <2>2. keysUsed' = keysUsed \cup {k}
    BY <1>3 DEF keysUsed, recorded
  <2>3. \A b \in Accounts \ {a} : balances'[b] = balances[b]
    BY <1>3 DEF balances, Balance
  <2>4. balances'[a] >= balances[a]
    BY <1>3, CreditsAssumption DEF balances, Balance
  <2>5. Abstract!Settle(k, a)
    BY <2>1, <2>2, <2>3, Settling
  <2> QED BY <2>4, <2>5 DEF Abstract!Next, Abstract!GrantCredit, balances
<1>4. ASSUME NEW a \in Accounts, NEW k \in Keys, NEW d \in Deltas, k \notin adjustments, Adjust(a, k, d)
      PROVE  Abstract!Next
  <2>1. Move(a, d) /\ adjustments' = adjustments \cup {k} /\ UNCHANGED events
    BY <1>4 DEF Adjust
  <2>2. AdjustmentKey(k) \notin keysUsed /\ keysUsed' = keysUsed \cup {AdjustmentKey(k)}
    BY <1>4, <2>1, FreshKeys DEF keysUsed, recorded
  <2>3. \/ UNCHANGED spent /\ credit' = [credit EXCEPT ![a] = credit[a] + d]
        \/ UNCHANGED credit /\ spent' = [spent EXCEPT ![a] = spent[a] - d]
    BY <2>1, Moving
  <2>4. \A b \in Accounts \ {a} : balances'[b] = balances[b]
    BY <2>3 DEF balances, Balance
  <2>5. Abstract!Settle(AdjustmentKey(k), a)
    BY <2>2, <2>4, Settling
  <2> QED BY <2>5 DEF Abstract!Next, Abstract!Adjust
<1>5. CASE \E p \in Procs : Record(p) \/ RecordReplyLost(p)
  <2> PICK p \in Procs : Record(p) \/ RecordReplyLost(p)
    BY <1>5
  <2>1. /\ req[p].account \in Accounts /\ req[p].id \in Ids /\ req[p].amount \in Costs
        /\ RecordScript(req[p].id, req[p].account, req[p].amount)
        /\ UNCHANGED <<credit, adjustments>>
    BY DEF Record, RecordReplyLost, Aimed
  <2>2. CASE events[req[p].id] # NoEvent
    BY <1>1, <2>1, <2>2, Recording
  <2>3. CASE events[req[p].id] = NoEvent
    BY <1>2, <2>1, <2>3, Recording
  <2> QED BY <2>2, <2>3
<1>6. CASE \E p \in Procs : GrantCredit(p) \/ GrantReplyLost(p)
  <2> PICK p \in Procs : GrantCredit(p) \/ GrantReplyLost(p)
    BY <1>6
  <2>1. /\ req[p].account \in Accounts /\ req[p].amount \in Credits
        /\ GrantScript(req[p].account, req[p].amount)
        /\ UNCHANGED <<spent, events>>
    BY DEF GrantCredit, GrantReplyLost, Aimed
  <2> QED BY <1>1, <1>3, <2>1, Granting
<1>7. CASE \E a \in Accounts, k \in Keys, d \in Deltas : Adjust(a, k, d)
  BY <1>1, <1>4, <1>7 DEF Adjust
<1>8. CASE \E p \in Procs : Quiet(p)
  BY <1>1, <1>8, QuietTyped DEF book
<1>9. CASE \E p \in Procs, a \in Accounts, c \in Credits : Provision(p, a, c)
  BY <1>1, <1>9 DEF Provision
<1>10. CASE UNCHANGED vars
  BY <1>1, <1>10 DEF vars
<1> QED BY <1>5, <1>6, <1>7, <1>8, <1>9, <1>10, Steps

\* Whatever is repeated, lost or interleaved, a balance moves only when a key
\* is settled for the first time, and then it is the balance of one account.
THEOREM LedgerImplementsAccounting == Spec => ImplementsAccounting
<1>1. Init => Abstract!Init
  BY DEF Init, Abstract!Init, Balance
<1>2. ASSUME Inv, Inv', [Next]_vars
      PROVE  [Abstract!Next]_<<balances, keysUsed>>
  BY <1>2, StepRefines
<1> QED BY <1>1, <1>2, InvInit, InvNext, PTL
        DEF Spec, ImplementsAccounting, Abstract!Spec, balances, keysUsed, recorded
=============================================================================
