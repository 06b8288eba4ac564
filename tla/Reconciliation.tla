--------------------------- MODULE Reconciliation ---------------------------
(***************************************************************************)
(* The reconciliation queue (pkg/controlplane/reconciliation.go): one JSON *)
(* candidate per provider request and a sorted set of due times.  Workers  *)
(* lease due candidates, then acknowledge them or schedule another         *)
(* attempt; a worker may crash or be slower than its lease.                *)
(*                                                                         *)
(* Time is relative: due[i] is the number of ticks until candidate i is    *)
(* due.  A lease token is random and new for every claim, and a worker     *)
(* forgets the tokens of its previous claim: the token a worker holds for  *)
(* a candidate is current exactly when the candidate's lease is its own.   *)
(***************************************************************************)
EXTENDS Naturals, FiniteSets

CONSTANTS
    Ids,            \* reconciliationCandidateID of a provider request
    Workers,
    Lease,          \* ticks a claim lasts
    Delays,         \* ticks until another attempt
    Limit,          \* candidates per claim
    MaxAttempts,    \* bound on the attempts that are counted
    Nil

ASSUME TimeAssumption ==
    /\ Lease \in Nat \ {0} /\ Limit \in Nat \ {0} /\ MaxAttempts \in Nat
    /\ Delays \subseteq Nat /\ Delays # {}
ASSUME NilAssumption ==
    Nil \notin Workers /\ Nil \notin Nat /\ Nil \notin [lease : Workers \cup {Nil}, attempts : Nat]
ASSUME IdsAssumption == IsFiniteSet(Ids)

VARIABLES
    item,           \* id -> the stored candidate, or Nil
    due,            \* id -> ticks until it is due, or Nil: the sorted set
    holds           \* worker -> ids of the claim it is working on

queueVars == <<item, due, holds>>

Candidate == [lease : Workers \cup {Nil}, attempts : Nat]

QueueInit ==
    /\ item = [i \in Ids |-> Nil]
    /\ due = [i \in Ids |-> Nil]
    /\ holds = [w \in Workers |-> {}]

\* EnqueueReconciliationCandidate: a second call for a stored candidate
\* changes neither its attempts nor its lease.
EnqueueCandidate(i, d) ==
    /\ item[i] = Nil
    /\ item' = [item EXCEPT ![i] = [lease |-> Nil, attempts |-> 0]]
    /\ due' = [due EXCEPT ![i] = d]
    /\ UNCHANGED holds

EnqueueAgainMutPostpones(i) ==
    /\ item[i] # Nil
    /\ due' = [due EXCEPT ![i] = Lease]
    /\ UNCHANGED <<item, holds>>

EnqueueAgain(i) == item[i] # Nil /\ UNCHANGED queueVars

DueNow == {i \in Ids : due[i] = 0}

\* ClaimReconciliationCandidates: the due candidates, up to the limit, are
\* leased to the worker and become due again when the lease ends; an id without
\* candidate leaves the due set.  Which of the overdue come first is left open.
Batch(ids) ==
    /\ ids # {} /\ ids \subseteq DueNow /\ Cardinality(ids) <= Limit
    /\ ids = DueNow \/ Cardinality(ids) = Limit

Stored(ids) == {i \in ids : item[i] # Nil}

Claim(w, ids) ==
    /\ Batch(ids)
    /\ item' = [i \in Ids |-> IF i \in Stored(ids) THEN [item[i] EXCEPT !.lease = w] ELSE item[i]]
    /\ due' = [i \in Ids |-> IF i \in Stored(ids) THEN Lease
                             ELSE IF i \in ids THEN Nil ELSE due[i]]
    /\ holds' = [holds EXCEPT ![w] = Stored(ids)]

\* The scripts compare the caller's token with the stored one.
OwnsLeaseMutAnyToken(w, i) == item[i] # Nil
OwnsLease(w, i) == item[i] # Nil /\ item[i].lease = w

Release(w, i) == holds' = [holds EXCEPT ![w] = @ \ {i}]

\* AckReconciliationCandidate
AckCandidateMutKeepsDue(w, i) ==
    /\ i \in holds[w]
    /\ item' = IF OwnsLease(w, i) THEN [item EXCEPT ![i] = Nil] ELSE item
    /\ UNCHANGED due
    /\ Release(w, i)

AckCandidate(w, i) ==
    /\ i \in holds[w]
    /\ IF OwnsLease(w, i)
       THEN item' = [item EXCEPT ![i] = Nil] /\ due' = [due EXCEPT ![i] = Nil]
       ELSE UNCHANGED <<item, due>>
    /\ Release(w, i)

\* RetryReconciliationCandidate
Retry(w, i, d) ==
    /\ i \in holds[w]
    /\ IF OwnsLease(w, i)
       THEN /\ item' = [item EXCEPT ![i] =
                          [lease |-> Nil,
                           attempts |-> IF @.attempts < MaxAttempts
                                        THEN @.attempts + 1 ELSE @.attempts]]
            /\ due' = [due EXCEPT ![i] = d]
       ELSE UNCHANGED <<item, due>>
    /\ Release(w, i)

\* A worker stops, or its claim call times out after Redis leased the batch.
WorkerCrash(w) ==
    /\ holds[w] # {}
    /\ holds' = [holds EXCEPT ![w] = {}]
    /\ UNCHANGED <<item, due>>

Tick ==
    /\ \E i \in Ids : due[i] # Nil /\ due[i] # 0
    /\ due' = [i \in Ids |-> IF due[i] \in {Nil, 0} THEN due[i] ELSE due[i] - 1]
    /\ UNCHANGED <<item, holds>>

ClaimSome == \E w \in Workers : holds[w] = {} /\ \E ids \in SUBSET Ids : Claim(w, ids)

QueueNext ==
    \/ \E i \in Ids, d \in Delays : EnqueueCandidate(i, d)
    \/ \E i \in Ids : EnqueueAgain(i)
    \/ \E w \in Workers, ids \in SUBSET Ids : Claim(w, ids)
    \/ \E w \in Workers, i \in Ids : AckCandidate(w, i)
    \/ \E w \in Workers, i \in Ids, d \in Delays : Retry(w, i, d)
    \/ \E w \in Workers : WorkerCrash(w)
    \/ Tick

\* Time passes, workers answer or stop, and an idle worker keeps claiming.
QueueSpec ==
    /\ QueueInit /\ [][QueueNext]_queueVars
    /\ WF_queueVars(Tick)
    /\ WF_queueVars(ClaimSome)
    /\ \A w \in Workers : WF_queueVars(holds[w] # {} /\ (WorkerCrash(w) \/ \E i \in Ids, d \in Delays : AckCandidate(w, i) \/ Retry(w, i, d)))

-----------------------------------------------------------------------------

QueueTypeOK ==
    /\ item \in [Ids -> Candidate \cup {Nil}]
    /\ due \in [Ids -> Nat \cup {Nil}]
    /\ holds \in [Workers -> SUBSET Ids]

\* The due set and the stored candidates name the same ids, so nothing is
\* claimed that is gone and nothing stored is out of the workers' reach; a
\* retried candidate keeps its fields.
DueIsExact == QueueTypeOK /\ \A i \in Ids : due[i] # Nil <=> item[i] # Nil

\* A lease that has not run out ends only by its own holder: no other worker,
\* no repeated enqueue and no late answer of an earlier holder touches it
\* ("removes a candidate only when the caller owns its current lease").
LiveLeaseIsRespected ==
    [][\A i \in Ids, w \in Workers :
         (/\ item[i] # Nil /\ item[i].lease = w
          /\ due[i] # 0 /\ i \in holds[w] /\ i \in holds'[w])
         => item'[i] = item[i]]_queueVars

\* A stored candidate is worked on again and again until it is acknowledged:
\* crashed and slow workers lose it only for the rest of their lease.
NeverForgotten ==
    \A i \in Ids : []<>(item[i] = Nil \/ \E w \in Workers : i \in holds[w])
=============================================================================
