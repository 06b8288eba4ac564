----------------------------- MODULE Accounting -----------------------------
(***************************************************************************)
(* What the usage ledger promises: a balance moves only when a key that    *)
(* was never used before is settled, and settling a key moves the balance  *)
(* of at most one account.  The key of a request can only charge it, the   *)
(* initial credit of an account can only be granted to that account.       *)
(***************************************************************************)
EXTENDS Integers

CONSTANTS
    Accounts,
    Charges,        \* keys of usage events
    Adjustments,    \* keys of manual credits and debits
    Grant           \* account -> the key of its initial credit

VARIABLES balance, settled

Init ==
    /\ balance = [a \in Accounts |-> 0]
    /\ settled = {}

Settle(k, a) ==
    /\ k \notin settled
    /\ settled' = settled \cup {k}
    /\ balance' \in [Accounts -> Int]
    /\ \A b \in Accounts \ {a} : balance'[b] = balance[b]

Charge == \E k \in Charges, a \in Accounts :
    Settle(k, a) /\ balance'[a] <= balance[a]

Adjust == \E k \in Adjustments, a \in Accounts : Settle(k, a)

GrantCredit == \E a \in Accounts :
    Settle(Grant[a], a) /\ balance'[a] >= balance[a]

Next == Charge \/ Adjust \/ GrantCredit

Spec == Init /\ [][Next]_<<balance, settled>>
=============================================================================
