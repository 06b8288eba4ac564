------------------------------- MODULE Ledger -------------------------------
(***************************************************************************)
(* The self-hosted usage ledger (pkg/billing/ledger.go over the local      *)
(* billing scripts of pkg/controlplane/redis.go) and the gateway requests  *)
(* that are admitted and charged through it (onrserver/billing.go).        *)
(*                                                                         *)
(* Every script is atomic.  The Redis client sends a command again when    *)
(* its connection breaks, so a script may run and its caller still not     *)
(* know: Lost replies are steps of their own.  Amounts are in micros, the  *)
(* integers the scripts add; amountMicros refuses what is not an integer.  *)
(***************************************************************************)
EXTENDS Integers, FiniteSets, FiniteSetsExt

CONSTANTS
    Accounts,       \* billing accounts
    Master,         \* the principal of the master key: no account
    Ids,            \* request ids, chosen by the client or generated
    Keys,           \* idempotency keys of manual adjustments
    Deltas,         \* amounts of manual adjustments
    Credits,        \* initial credits
    Costs,          \* costs of one request
    MaxCost,        \* the largest of them
    Procs,          \* concurrent gateway requests and provisionings
    None

ASSUME AccountsAssumption == Master \notin Accounts /\ None \notin Accounts
ASSUME DeltasAssumption == Deltas \subseteq Int \ {0}
ASSUME CreditsAssumption == Credits \subseteq Nat
ASSUME CostsAssumption == MaxCost \in Nat \ {0} /\ Costs \subseteq 0..MaxCost
ASSUME ProcsAssumption == IsFiniteSet(Procs) /\ Procs # {}
ASSUME InitialKeysAreOwn == \A a \in Accounts : <<"initial-credit", a>> \notin Keys

VARIABLES
    opened,         \* accounts whose hash has a currency
    credit,         \* account -> credit_micros
    spent,          \* account -> spent_micros
    adjustments,    \* adjustment keys that exist
    events,         \* request id -> the stored event, or NoEvent
    timeline,       \* account -> the ids of its sorted set
    req,            \* what each process is doing
    debited         \* history: account -> what manual debits took from it

vars == <<opened, credit, spent, adjustments, events, timeline, req, debited>>

LocalBillingEvent == [account : Accounts, amount : Costs]
NoEvent == [account |-> None, amount |-> 0]

InitialKey(a) == <<"initial-credit", a>>
AdjustmentKeys == Keys \cup {InitialKey(a) : a \in Accounts}

\* ReadLocalBillingAccount; an account that does not exist reads as zeroes.
Balance(a) == credit[a] - spent[a]

PCs == {"idle", "check", "proxy", "billing", "grant",
        "refused", "unavailable", "answered"}
Ended == {"idle", "refused", "unavailable", "answered"}
Request == [pc : PCs, account : Accounts \cup {Master, None},
            id : Ids \cup {None}, amount : Nat]
Idle == [pc |-> "idle", account |-> None, id |-> None, amount |-> 0]

Init ==
    /\ opened = {}
    /\ credit = [a \in Accounts |-> 0]
    /\ spent = [a \in Accounts |-> 0]
    /\ adjustments = {}
    /\ events = [i \in Ids |-> NoEvent]
    /\ timeline = [a \in Accounts |-> {}]
    /\ req = [p \in Procs |-> Idle]
    /\ debited = [a \in Accounts |-> 0]

Become(p, pc) == req' = [req EXCEPT ![p].pc = pc]
End(p, pc) == req' = [req EXCEPT ![p] = [Idle EXCEPT !.pc = pc]]
book == <<opened, credit, spent, adjustments, events, timeline, debited>>

-----------------------------------------------------------------------------
(* A gateway request.                                                       *)

Begin(p, a, i) ==
    /\ req[p].pc \in Ended
    /\ req' = [req EXCEPT ![p] =
                 [pc |-> "check", account |-> a, id |-> i, amount |-> 0]]
    /\ UNCHANGED book

\* enforceBillingBalance: the master key is not metered, an exhausted account
\* is refused, and so is every metered request while Redis cannot be read.
AdmitsMutZero(a) == a = Master \/ Balance(a) >= 0
Admits(a) == a = Master \/ Balance(a) > 0

Enforce(p) ==
    /\ req[p].pc = "check"
    /\ IF Admits(req[p].account) THEN Become(p, "proxy") ELSE End(p, "refused")
    /\ UNCHANGED book

EnforceUnavailable(p) ==
    /\ req[p].pc = "check" /\ req[p].account # Master
    /\ End(p, "unavailable")
    /\ UNCHANGED book

\* The provider answers: an error, or a status that is not 2xx, is not billed.
ProviderFails(p) ==
    /\ req[p].pc = "proxy"
    /\ End(p, "answered")
    /\ UNCHANGED book

ProviderAnswers(p, c) ==
    /\ req[p].pc = "proxy"
    /\ req' = [req EXCEPT ![p].pc = "billing", ![p].amount = c]
    /\ UNCHANGED book

\* RecordLocalBillingEvent: nothing when the event exists, else the event, its
\* place in the account's timeline and the account's total, all at once.
RecordScriptMutIndexFirst(i, a, c) ==
    /\ timeline' = [timeline EXCEPT ![a] = @ \cup {i}]
    /\ IF events[i] # NoEvent THEN UNCHANGED <<events, spent>>
       ELSE /\ events' = [events EXCEPT ![i] = [account |-> a, amount |-> c]]
            /\ spent' = [spent EXCEPT ![a] = @ + c]

RecordScript(i, a, c) ==
    IF events[i] # NoEvent THEN UNCHANGED <<events, timeline, spent>>
    ELSE /\ events' = [events EXCEPT ![i] = [account |-> a, amount |-> c]]
         /\ timeline' = [timeline EXCEPT ![a] = @ \cup {i}]
         /\ spent' = [spent EXCEPT ![a] = @ + c]

\* enqueueBillingEvent of a metered request; the reply may be lost and the
\* command sent again.
Record(p) ==
    /\ req[p].pc = "billing" /\ req[p].account # Master
    /\ RecordScript(req[p].id, req[p].account, req[p].amount)
    /\ End(p, "answered")
    /\ UNCHANGED <<opened, credit, adjustments, debited>>

RecordReplyLost(p) ==
    /\ req[p].pc = "billing" /\ req[p].account # Master
    /\ RecordScript(req[p].id, req[p].account, req[p].amount)
    /\ UNCHANGED <<opened, credit, adjustments, debited, req>>

\* A request of the master key has no subject to charge; and recording is
\* best effort, an error of Redis leaves a request uncharged.
NotRecorded(p) ==
    /\ req[p].pc = "billing"
    /\ End(p, "answered")
    /\ UNCHANGED book

-----------------------------------------------------------------------------
(* Provisioning and adjustments.                                            *)

\* ProvisionAccountWithCredit is two calls: InitializeLocalBillingAccount,
\* then SetInitialLocalBillingCredit with the key of the account.
Provision(p, a, c) ==
    /\ req[p].pc \in Ended
    /\ opened' = opened \cup {a}
    /\ req' = [req EXCEPT ![p] =
                 [pc |-> "grant", account |-> a, id |-> None, amount |-> c]]
    /\ UNCHANGED <<credit, spent, adjustments, events, timeline, debited>>

GrantScriptMutNoKey(a, c) ==
    /\ adjustments' = adjustments \cup {InitialKey(a)}
    /\ opened' = opened \cup {a}
    /\ credit' = [credit EXCEPT ![a] = @ + c]

GrantScript(a, c) ==
    IF InitialKey(a) \in adjustments
    THEN UNCHANGED <<adjustments, opened, credit>>
    ELSE /\ adjustments' = adjustments \cup {InitialKey(a)}
         /\ opened' = opened \cup {a}
         /\ credit' = [credit EXCEPT ![a] = @ + c]

GrantCredit(p) ==
    /\ req[p].pc = "grant"
    /\ GrantScript(req[p].account, req[p].amount)
    /\ End(p, "idle")
    /\ UNCHANGED <<spent, events, timeline, debited>>

GrantReplyLost(p) ==
    /\ req[p].pc = "grant"
    /\ GrantScript(req[p].account, req[p].amount)
    /\ UNCHANGED <<spent, events, timeline, debited, req>>

\* A timeout or a crash ends the provisioning; the key stays pending and the
\* administrator provisions again.
ProvisionAborts(p) ==
    /\ req[p].pc = "grant"
    /\ End(p, "idle")
    /\ UNCHANGED book

\* AdjustLocalBillingAccount, once per key whatever the account: a negative
\* delta is added to what was spent.
Move(a, d) ==
    IF d > 0
    THEN credit' = [credit EXCEPT ![a] = @ + d] /\ UNCHANGED <<spent, debited>>
    ELSE /\ spent' = [spent EXCEPT ![a] = @ - d]
         /\ debited' = [debited EXCEPT ![a] = @ - d]
         /\ UNCHANGED credit

Adjust(a, k, d) ==
    /\ IF k \in adjustments
       THEN UNCHANGED <<adjustments, opened, credit, spent, debited>>
       ELSE /\ adjustments' = adjustments \cup {k}
            /\ opened' = opened \cup {a}
            /\ Move(a, d)
    /\ UNCHANGED <<events, timeline, req>>

RequestStep(p) ==
    \/ \E a \in Accounts \cup {Master}, i \in Ids : Begin(p, a, i)
    \/ Enforce(p)
    \/ EnforceUnavailable(p)
    \/ ProviderFails(p)
    \/ \E c \in Costs : ProviderAnswers(p, c)
    \/ Record(p)
    \/ RecordReplyLost(p)
    \/ NotRecorded(p)

ProvisionStep(p) ==
    \/ \E a \in Accounts, c \in Credits : Provision(p, a, c)
    \/ GrantCredit(p)
    \/ GrantReplyLost(p)
    \/ ProvisionAborts(p)

Next ==
    \/ \E p \in Procs : RequestStep(p) \/ ProvisionStep(p)
    \/ \E a \in Accounts, k \in Keys, d \in Deltas : Adjust(a, k, d)

Spec == Init /\ [][Next]_vars

-----------------------------------------------------------------------------
(* Properties.                                                              *)

TypeOK ==
    /\ opened \subseteq Accounts
    /\ credit \in [Accounts -> Nat]
    /\ spent \in [Accounts -> Nat]
    /\ adjustments \subseteq AdjustmentKeys
    /\ events \in [Ids -> LocalBillingEvent \cup {NoEvent}]
    /\ timeline \in [Accounts -> SUBSET Ids]
    /\ req \in [Procs -> Request]
    /\ debited \in [Accounts -> Nat]

\* What a report over an account's events adds up to.
Amounts == [i \in Ids |-> events[i].amount]
Reported(a) == MapThenSumSet(LAMBDA i : Amounts[i], timeline[a])

\* A report (ReadLocalBillingEvents) walks an account's timeline, fails as a
\* whole on an entry without event and adds the amounts up: the timelines list
\* exactly the recorded events, each with the account that was charged for it,
\* and what they add up to is, with the manual debits, what the account spent.
TimelinesAreExact ==
    \A a \in Accounts :
        /\ timeline[a] = {i \in Ids : events[i] # NoEvent /\ events[i].account = a}
        /\ spent[a] = debited[a] + Reported(a)

\* Metered requests in flight that may still be charged.
Unsettled(a) ==
    {p \in Procs : /\ req[p].pc \in {"proxy", "billing"}
                   /\ req[p].account = a
                   /\ events[req[p].id] = NoEvent}

\* docs/BILLING.md allows "a small temporary overspend" of concurrent requests:
\* leaving manual debits aside, an account is never overdrawn by more than one
\* request per process, and by less while some of them are still unsettled.
OverspendIsBounded ==
    \A a \in Accounts :
        Balance(a) + debited[a]
            > (Cardinality(Unsettled(a)) - Cardinality(Procs)) * MaxCost

\* The ledger as an abstract account (module Accounting).  The Redis keys of
\* events and of adjustments have different prefixes.
EventKey(i) == <<"event", i>>
AdjustmentKey(k) == <<"adjustment", k>>

Abstract == INSTANCE Accounting WITH
    Charges <- {EventKey(i) : i \in Ids},
    Adjustments <- {AdjustmentKey(k) : k \in Keys},
    Grant <- [a \in Accounts |-> AdjustmentKey(InitialKey(a))],
    balance <- [a \in Accounts |-> Balance(a)],
    settled <- {AdjustmentKey(k) : k \in adjustments}
               \cup {EventKey(i) : i \in {j \in Ids : events[j] # NoEvent}}

\* Every change of a balance settles a key for the first time, whatever is
\* repeated, lost or interleaved: the ledger implements module Accounting.
ImplementsAccounting == Abstract!Spec

\* A recorded event never changes ("one immutable event keyed by the ONR
\* request ID", docs/BILLING.md), and money spent never comes back.
EventsAreImmutable ==
    [][/\ \A i \in Ids : events[i] # NoEvent => events'[i] = events[i]
       /\ \A a \in Accounts : spent'[a] >= spent[a] /\ credit'[a] >= credit[a]]_vars
=============================================================================
