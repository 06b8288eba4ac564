---------------------------- MODULE QueueProofs -----------------------------
(* Proofs about the control plane's two Redis queues: the billing event     *)
(* stream, for any access keys, any consumers and any bounds on messages    *)
(* and calls, and the reconciliation queue, for any candidates, workers, *)
(* leases, delays and batch sizes.  The queues share no state.              *)
EXTENDS BillingStream, Reconciliation, FiniteSetTheorems, TLAPS

-----------------------------------------------------------------------------
(* The billing event stream.                                                *)

\* The messages a counter counts.
Open(k) == {m \in 1..last : origin[m] = k /\ ~Settled(m)}

Counted == \A k \in AccessKeys : pending[k] = Cardinality(Open(k))

\* The map entry of a message is there as long as the message is open, so that
\* it is uncounted once; only what was delivered is settled.
Mapped == \A m \in Messages :
    /\ keyOf[m] = IF Settled(m) THEN None ELSE origin[m]
    /\ Settled(m) => m <= cursor
    /\ m > last => origin[m] = None

\* Only what was delivered is pending for a consumer.
Delivered == \A m \in Messages : pel[m] # None => m <= cursor

\* NothingIsLost is part of the induction: a consumer that acknowledges what
\* the group no longer holds acknowledges something that is settled.
Inv == TypeOK /\ Counted /\ Mapped /\ Delivered /\ NothingIsLost

LEMMA OpenIsFinite ==
    ASSUME TypeOK
    PROVE  \A k \in AccessKeys : IsFiniteSet(Open(k)) /\ Cardinality(Open(k)) \in Nat
<1>1. IsFiniteSet(1..last)
  BY FS_Interval, BoundsAssumption DEF TypeOK
<1> QED BY <1>1, FS_Subset, FS_CardinalityType DEF Open

LEMMA InvInit == Init => Inv
<1> SUFFICES ASSUME Init PROVE Inv
  OBVIOUS
<1>0. TypeOK
  <2>1. last \in 0..MaxMessages /\ cursor \in 0..last
    BY BoundsAssumption DEF Init
  <2>2. stream \subseteq 1..last /\ group \in BOOLEAN /\ acked \subseteq 1..cursor
    BY Zenon DEF Init
  <2>3. attempts \in [Messages -> 0..MaxCalls]
    BY BoundsAssumption DEF Init
  <2> QED BY <2>1, <2>2, <2>3 DEF Init, TypeOK
<1>1. Mapped /\ Delivered /\ NothingIsLost
  BY BoundsAssumption DEF Init, Mapped, Delivered, NothingIsLost, Settled, Messages
<1>2. \A k \in AccessKeys : Open(k) = {}
  BY DEF Init, Open
<1>3. Counted
  BY <1>2, FS_EmptySet DEF Counted, Init
<1> QED BY <1>0, <1>1, <1>3 DEF Inv

\* Steps that settle nothing and enqueue nothing leave the counters right.
LEMMA CountersStay ==
    ASSUME Counted, UNCHANGED <<last, pending, dead, origin, acked>>
    PROVE  Counted'
<1>1. \A k \in AccessKeys : Open(k)' = Open(k)
  BY DEF Open, Settled
<1> QED BY <1>1 DEF Counted

\* Settling a message: its counter goes down by one the first time only.
LEMMA SettlingCounts ==
    ASSUME Inv, NEW m \in Messages, m <= last, Uncount(m) \/ (Settled(m) /\ UNCHANGED <<keyOf, pending>>),
           \A n \in Messages : Settled(n)' <=> Settled(n) \/ n = m,
           UNCHANGED <<last, origin>>
    PROVE  /\ Counted'
           /\ keyOf' = [keyOf EXCEPT ![m] = None]
           /\ pending' \in [AccessKeys -> Nat]
<1> USE DEF Inv, TypeOK
<1>0. 1..last \subseteq Messages
  BY BoundsAssumption DEF Messages
<1>1. CASE Settled(m)
  <2>1. keyOf[m] = None /\ UNCHANGED <<keyOf, pending>>
    BY <1>1 DEF Mapped, Uncount
  <2>2. \A k \in AccessKeys : Open(k)' = Open(k)
    BY <1>0, <1>1 DEF Open
  <2>3. keyOf' = [keyOf EXCEPT ![m] = None]
    BY <2>1
  <2> QED BY <2>1, <2>2, <2>3 DEF Counted
<1>2. CASE ~Settled(m) /\ origin[m] = None
  <2>1. keyOf[m] = None /\ UNCHANGED <<keyOf, pending>>
    BY <1>2 DEF Mapped, Uncount
  <2>2. \A k \in AccessKeys : Open(k)' = Open(k)
    BY <1>0, <1>2, NoneAssumption DEF Open
  <2>3. keyOf' = [keyOf EXCEPT ![m] = None]
    BY <2>1
  <2> QED BY <2>1, <2>2, <2>3 DEF Counted
<1>3. CASE ~Settled(m) /\ origin[m] # None
  <2> DEFINE k == origin[m]
  <2>1. k \in AccessKeys /\ keyOf[m] = k /\ m \in Open(k)
    BY <1>3 DEF Mapped, Open, Messages
  <2>2. Uncount(m) /\ keyOf[m] # None
    BY <1>3, <2>1, NoneAssumption
  <2>3. pending' = Decrement(k) /\ keyOf' = [keyOf EXCEPT ![m] = None]
    BY <2>1, <2>2 DEF Uncount
  <2>4. Open(k)' = Open(k) \ {m} /\ \A j \in AccessKeys \ {k} : Open(j)' = Open(j)
    BY <1>0, <2>1 DEF Open
  <2>5. Cardinality(Open(k) \ {m}) = Cardinality(Open(k)) - 1 /\ Cardinality(Open(k) \ {m}) \in Nat
    BY <2>1, OpenIsFinite, FS_RemoveElement, FS_CardinalityType
  <2>6. pending[k] = Cardinality(Open(k)) /\ Cardinality(Open(k)) \in Nat
    BY <2>1, OpenIsFinite DEF Counted
  <2>7. pending' = [pending EXCEPT ![k] = Cardinality(Open(k) \ {m})]
    <3>1. (IF pending[k] - 1 <= 0 THEN 0 ELSE pending[k] - 1) = Cardinality(Open(k) \ {m})
      BY <2>5, <2>6
    <3> QED BY <2>3, <3>1 DEF Decrement
  <2>8. Counted'
    BY <2>1, <2>4, <2>7 DEF Counted
  <2> QED BY <2>1, <2>3, <2>5, <2>7, <2>8
<1> QED BY <1>1, <1>2, <1>3

LEMMA EnqueueKeeps ==
    ASSUME Inv, NEW k \in AccessKeys \cup {None}, Enqueue(k)
    PROVE  Inv'
<1> USE BoundsAssumption, NoneAssumption DEF Inv, TypeOK, Messages
<1>1. last' = last + 1 /\ last' \in Messages /\ origin[last'] = None /\ ~Settled(last')
  BY DEF Enqueue, Mapped
<1>2. \A m \in Messages : Settled(m)' <=> Settled(m)
  BY DEF Enqueue, Settled
<1>m. \A m \in Messages : /\ keyOf'[m] = IF m = last' THEN k ELSE keyOf[m]
                          /\ origin'[m] = IF m = last' THEN k ELSE origin[m]
  BY <1>1 DEF Enqueue
<1>3. Mapped' /\ Delivered' /\ NothingIsLost'
  <2>0. /\ cursor' = cursor /\ pel' = pel /\ stream' = stream \cup {last'}
        /\ last \in Nat /\ cursor \in Nat /\ cursor <= last
        /\ Messages \subseteq Nat /\ 1..last \subseteq Messages
    BY DEF Enqueue
  <2> HIDE DEF TypeOK, Messages
  <2>1. Mapped'
    BY <1>1, <1>2, <1>m, <2>0 DEF Mapped
  <2>2. Delivered'
    BY <2>0 DEF Delivered
  <2>3. ASSUME NEW m \in 1..last', ~Settled(m)'
        PROVE  m \in stream' /\ (m <= cursor' => pel'[m] # None)
    <3>1. CASE m = last'
      BY <1>1, <2>0, <3>1
    <3>2. CASE m # last'
      <4>1. m \in 1..last /\ m \in Messages
        BY <1>1, <2>0, <3>2
      <4> QED BY <1>2, <2>0, <2>3, <4>1 DEF NothingIsLost
    <3> QED BY <3>1, <3>2
  <2> QED BY <2>1, <2>2, <2>3 DEF NothingIsLost
<1>4. TypeOK'
  <2>1. last' \in 0..MaxMessages /\ stream' \subseteq 1..last' /\ cursor' \in 0..last' /\ group' \in BOOLEAN
    BY <1>1 DEF Enqueue
  <2>2. /\ keyOf' \in [Messages -> AccessKeys \cup {None}]
        /\ origin' \in [Messages -> AccessKeys \cup {None}]
    BY <1>1 DEF Enqueue
  <2>3. pending' \in [AccessKeys -> Nat]
    BY DEF Enqueue
  <2> QED BY <2>1, <2>2, <2>3 DEF Enqueue
<1>o. ASSUME NEW j \in AccessKeys
      PROVE  Open(j)' = IF j = k THEN Open(j) \cup {last'} ELSE Open(j)
  <2>0. last \in Nat /\ last' \in Nat /\ 1..last \subseteq Messages
    BY <1>1
  <2>3. j # None
    BY NoneAssumption
  <2> HIDE DEF Inv, TypeOK, Messages
  <2>1. /\ \A m : m \in 1..last' <=> m \in 1..last \/ m = last'
        /\ 1..last \subseteq Messages /\ last' \notin 1..last
    BY <1>1, <2>0
  <2>4. \A m : m \in Open(j)' <=> m \in Open(j) \/ (m = last' /\ j = k)
    BY <1>1, <1>2, <1>m, <2>1, <2>3 DEF Open
  <2> QED BY <2>4
<1>5. \A j \in AccessKeys \ {k} : Open(j)' = Open(j)
  BY <1>o
<1>6. k # None => Open(k)' = Open(k) \cup {last'} /\ last' \notin Open(k)
  BY <1>1, <1>o DEF Open
<1>7. CASE k = None
  BY <1>3, <1>4, <1>5, <1>7 DEF Enqueue, Counted
<1>8. CASE k # None
  <2>1. Cardinality(Open(k)') = Cardinality(Open(k)) + 1
    BY <1>6, <1>8, OpenIsFinite, FS_AddElement
  <2>2. pending' = [pending EXCEPT ![k] = Cardinality(Open(k)')]
    BY <1>8, <2>1 DEF Enqueue, Counted
  <2>3. Counted'
    BY <1>5, <1>8, <2>2 DEF Counted
  <2> QED BY <1>3, <1>4, <2>3
<1> QED BY <1>7, <1>8

LEMMA AckKeeps ==
    ASSUME Inv, NEW c \in Consumers, NEW m \in Messages, Ack(c, m)
    PROVE  Inv'
<1> USE BoundsAssumption, NoneAssumption DEF Inv, TypeOK, Messages
<1>1. m <= cursor /\ m <= last /\ m \in 1..cursor
  BY DEF Ack
<1>2. \A n \in Messages : Settled(n)' <=> Settled(n) \/ n = m
  BY DEF Ack, Settled
<1>3. Uncount(m) \/ (Settled(m) /\ UNCHANGED <<keyOf, pending>>)
  BY <1>1 DEF Ack, AckScript, NothingIsLost
<1>4. Counted' /\ keyOf' = [keyOf EXCEPT ![m] = None] /\ pending' \in [AccessKeys -> Nat]
  BY <1>1, <1>2, <1>3, SettlingCounts DEF Ack
<1>5. Mapped' /\ Delivered' /\ NothingIsLost'
  BY <1>1, <1>2, <1>4 DEF Ack, Mapped, Delivered, NothingIsLost
<1>6. TypeOK'
  BY <1>1, <1>4 DEF Ack, Done
<1> QED BY <1>4, <1>5, <1>6

LEMMA DeadLetterKeeps ==
    ASSUME Inv, NEW c \in Consumers, NEW m \in Messages, DeadLetter(c, m)
    PROVE  Inv'
<1> USE BoundsAssumption, NoneAssumption DEF Inv, TypeOK, Messages
<1>1. m <= cursor /\ m <= last /\ m \in 1..cursor
  BY DEF DeadLetter
<1>2. \A n \in Messages : Settled(n)' <=> Settled(n) \/ n = m
  BY DEF DeadLetter, DeadLetterScript, Settled
<1>3. Counted' /\ keyOf' = [keyOf EXCEPT ![m] = None] /\ pending' \in [AccessKeys -> Nat]
  BY <1>1, <1>2, SettlingCounts DEF DeadLetter, DeadLetterScript
<1>4. Mapped' /\ Delivered' /\ NothingIsLost'
  <2>1. Mapped'
    BY <1>1, <1>2, <1>3 DEF DeadLetter, DeadLetterScript, Mapped
  <2>2. Delivered'
    BY <1>1 DEF DeadLetter, DeadLetterScript, Delivered
  <2>3. NothingIsLost'
    BY <1>1, <1>2 DEF DeadLetter, DeadLetterScript, NothingIsLost
  <2> QED BY <2>1, <2>2, <2>3
<1>5. TypeOK'
  <2>1. /\ dead' \in [Messages -> Nat]
        /\ attempts' \in [Messages -> 0..MaxCalls]
    BY DEF DeadLetter, DeadLetterScript
  <2>2. /\ pel' \in [Messages -> Consumers \cup {None}]
        /\ working' \in [Consumers -> SUBSET (1..cursor)]
    BY DEF DeadLetter, DeadLetterScript, Done
  <2>3. keyOf' \in [Messages -> AccessKeys \cup {None}] /\ stream' \subseteq 1..last
    BY <1>3 DEF DeadLetter, DeadLetterScript
  <2> QED BY <1>3, <2>1, <2>2, <2>3 DEF DeadLetter, DeadLetterScript
<1> QED BY <1>3, <1>4, <1>5

LEMMA ReadKeeps ==
    ASSUME Inv, NEW c \in Consumers, Read(c)
    PROVE  Inv'
<1> USE BoundsAssumption, NoneAssumption DEF Inv, TypeOK, Messages
<1>1. PICK m \in Undelivered : /\ \A o \in Undelivered : m <= o
                               /\ cursor' = m
                               /\ pel' = [pel EXCEPT ![m] = c]
                               /\ working' = [working EXCEPT ![c] = @ \cup {m}]
  BY DEF Read
<1>2. m \in Messages /\ m > cursor /\ m <= last
  BY DEF Undelivered
<1>3. \A n \in Messages : Settled(n)' <=> Settled(n)
  BY DEF Read, Settled
<1>4. Counted'
  BY CountersStay DEF Read
<1>5. Mapped'
  BY <1>1, <1>2, <1>3 DEF Read, Mapped
<1>6. Delivered' /\ NothingIsLost'
  BY <1>1, <1>2, <1>3 DEF Read, Delivered, NothingIsLost, Undelivered
<1>7. TypeOK'
  <2>1. cursor' \in 0..last /\ acked \subseteq 1..cursor'
    BY <1>1, <1>2
  <2>2. pel' \in [Messages -> Consumers \cup {None}]
    BY <1>1, <1>2
  <2>3. working' \in [Consumers -> SUBSET (1..cursor')]
    BY <1>1, <1>2
  <2> QED BY <2>1, <2>2, <2>3 DEF Read
<1> QED BY <1>4, <1>5, <1>6, <1>7

LEMMA InvNext == Inv /\ [Next]_vars => Inv'
<1> SUFFICES ASSUME Inv, [Next]_vars PROVE Inv'
  OBVIOUS
<1> USE BoundsAssumption, NoneAssumption DEF Inv, TypeOK, Messages
<1>1. ASSUME NEW k \in AccessKeys \cup {None}, Enqueue(k) PROVE Inv'
  BY <1>1, EnqueueKeeps
<1>2. CASE EnsureGroup
  BY <1>2, CountersStay DEF EnsureGroup, Mapped, Delivered, NothingIsLost, Settled
<1>3. ASSUME NEW c \in Consumers, Read(c) PROVE Inv'
  BY <1>3, ReadKeeps
<1>4. ASSUME NEW c \in Consumers, ReadPending(c) PROVE Inv'
  <2>1. \A m \in stream : pel[m] = c => m \in 1..cursor
    BY DEF Delivered
  <2>2. {m \in stream : pel[m] = c} \in SUBSET (1..cursor)
    BY <2>1
  <2>3. working' \in [Consumers -> SUBSET (1..cursor)]
    BY <1>4, <2>2 DEF ReadPending
  <2>4. Counted'
    BY <1>4, CountersStay DEF ReadPending
  <2>5. TypeOK'
    BY <1>4, <2>3 DEF ReadPending
  <2>6. Mapped' /\ Delivered' /\ NothingIsLost'
    BY <1>4 DEF ReadPending, Mapped, Delivered, NothingIsLost, Settled
  <2> QED BY <2>4, <2>5, <2>6
<1>5. ASSUME NEW c \in Consumers, NEW m \in Messages, Ack(c, m) PROVE Inv'
  BY <1>5, AckKeeps
<1>6. ASSUME NEW c \in Consumers, NEW m \in Messages, IncrementAttempt(c, m) PROVE Inv'
  <2>0. attempts' \in [Messages -> 0..MaxCalls]
    <3>1. attempts[m] + 1 \in 0..MaxCalls
      BY <1>6 DEF IncrementAttempt
    <3> QED BY <1>6, <3>1 DEF IncrementAttempt
  <2>1. working' \in [Consumers -> SUBSET (1..cursor)]
    BY <1>6 DEF IncrementAttempt
  <2>2. Counted'
    BY <1>6, CountersStay DEF IncrementAttempt
  <2>3. TypeOK'
    BY <1>6, <2>0, <2>1 DEF IncrementAttempt
  <2>4. Mapped' /\ Delivered' /\ NothingIsLost'
    BY <1>6 DEF IncrementAttempt, Mapped, Delivered, NothingIsLost, Settled
  <2> QED BY <2>2, <2>3, <2>4
<1>7. ASSUME NEW c \in Consumers, NEW m \in Messages, DeadLetter(c, m) PROVE Inv'
  BY <1>7, DeadLetterKeeps
<1>8. ASSUME NEW c \in Consumers, Crash(c) PROVE Inv'
  BY <1>8, CountersStay DEF Crash, Mapped, Delivered, NothingIsLost, Settled
<1>9. ASSUME NEW c \in Consumers, NEW m \in Messages, AutoClaim(c, m) PROVE Inv'
  <2>1. m <= cursor
    BY <1>9 DEF AutoClaim, Delivered
  <2>2. Counted'
    BY <1>9, CountersStay DEF AutoClaim
  <2>3. TypeOK'
    <3>1. pel' \in [Messages -> Consumers \cup {None}]
      BY <1>9 DEF AutoClaim
    <3>2. working' \in [Consumers -> SUBSET (1..cursor)]
      BY <1>9, <2>1 DEF AutoClaim
    <3> QED BY <1>9, <3>1, <3>2 DEF AutoClaim
  <2>4. Mapped' /\ Delivered'
    BY <1>9, <2>1 DEF AutoClaim, Mapped, Delivered, Settled
  <2>5. NothingIsLost'
    BY <1>9, <2>1 DEF AutoClaim, NothingIsLost, Settled
  <2> QED BY <2>2, <2>3, <2>4, <2>5
<1>10. CASE UNCHANGED vars
  BY <1>10, CountersStay DEF vars, Mapped, Delivered, NothingIsLost, Settled
<1> QED BY <1>1, <1>2, <1>3, <1>4, <1>5, <1>6, <1>7, <1>8, <1>9, <1>10 DEF Next, Process

\* The counter of every access key is the number of its open messages, for any
\* number of consumers that acknowledge, give up, overtake each other and crash:
\* a message that two of them settle is uncounted once (AckBilling,
\* DeadLetterBilling), and types stay in their bounds.
THEOREM PendingSafe == Spec => []PendingIsExact
<1>1. Inv => PendingIsExact
  BY DEF Inv, Counted, Open, PendingIsExact
<1> QED BY InvInit, InvNext, <1>1, PTL DEF Spec

\* An open message is in the stream and, once delivered, pending for somebody,
\* so a consumer that crashes or is overtaken takes no message with it.
THEOREM NothingLost == Spec => []NothingIsLost
<1>1. Inv => NothingIsLost
  BY DEF Inv
<1> QED BY InvInit, InvNext, <1>1, PTL DEF Spec

-----------------------------------------------------------------------------
(* The reconciliation queue.  DueIsExact is inductive as it stands.         *)
USE TimeAssumption, NilAssumption

LEMMA DueIsExactInit == QueueInit => DueIsExact
BY DEF QueueInit, DueIsExact, QueueTypeOK

\* A claim leases what is stored and due, and leaves the rest alone.
LEMMA ClaimKeepsDue ==
    ASSUME DueIsExact,
           NEW w \in Workers, NEW ids \in SUBSET Ids, Claim(w, ids)
    PROVE  DueIsExact'
<1> USE DEF DueIsExact, QueueTypeOK, Candidate
<1>1. Stored(ids) \in SUBSET Ids /\ \A i \in Stored(ids) : item[i] \in Candidate
  BY DEF Stored
<1>2. item' \in [Ids -> Candidate \cup {Nil}]
  BY <1>1 DEF Claim
<1>3. due' \in [Ids -> Nat \cup {Nil}] /\ holds' \in [Workers -> SUBSET Ids]
  BY <1>1 DEF Claim
<1>4. ASSUME NEW i \in Ids PROVE due'[i] # Nil <=> item'[i] # Nil
  <2>1. CASE i \in Stored(ids)
    BY <1>1, <2>1 DEF Claim
  <2>2. CASE i \notin Stored(ids)
    BY <2>2 DEF Claim, Stored
  <2> QED BY <2>1, <2>2
<1> QED BY <1>2, <1>3, <1>4

LEMMA DueIsExactNext == DueIsExact /\ [QueueNext]_queueVars => DueIsExact'
<1> SUFFICES ASSUME DueIsExact, [QueueNext]_queueVars PROVE DueIsExact'
  OBVIOUS
<1> USE DEF DueIsExact, QueueTypeOK, Candidate
<1>1. ASSUME NEW i \in Ids, NEW d \in Delays, EnqueueCandidate(i, d) PROVE DueIsExact'
  BY <1>1 DEF EnqueueCandidate
<1>2. ASSUME NEW i \in Ids, EnqueueAgain(i) PROVE DueIsExact'
  BY <1>2 DEF EnqueueAgain, queueVars
<1>3. ASSUME NEW w \in Workers, NEW ids \in SUBSET Ids, Claim(w, ids) PROVE DueIsExact'
  BY <1>3, ClaimKeepsDue
<1>4. ASSUME NEW w \in Workers, NEW i \in Ids, AckCandidate(w, i) PROVE DueIsExact'
  BY <1>4 DEF AckCandidate, Release
<1>5. ASSUME NEW w \in Workers, NEW i \in Ids, NEW d \in Delays, Retry(w, i, d) PROVE DueIsExact'
  <2>1. CASE OwnsLease(w, i)
    BY <1>5, <2>1 DEF Retry, Release, OwnsLease
  <2>2. CASE ~OwnsLease(w, i)
    BY <1>5, <2>2 DEF Retry, Release
  <2> QED BY <2>1, <2>2
<1>6. ASSUME NEW w \in Workers, WorkerCrash(w) PROVE DueIsExact'
  BY <1>6 DEF WorkerCrash
<1>7. CASE Tick
  BY <1>7 DEF Tick
<1>8. CASE UNCHANGED queueVars
  BY <1>8 DEF queueVars
<1> QED BY <1>1, <1>2, <1>3, <1>4, <1>5, <1>6, <1>7, <1>8 DEF QueueNext

\* The due set and the stored candidates name the same ids for any number of
\* workers and whatever they do with an expired lease: nothing is claimed that
\* is gone, nothing stored is out of reach (the claim, ack and retry scripts).
THEOREM DueSafe == QueueSpec => []DueIsExact
BY DueIsExactInit, DueIsExactNext, PTL DEF QueueSpec

\* No step by anybody else touches a candidate whose lease is live: claims
\* take due candidates only, and acknowledgements and retries compare tokens.
THEOREM LeasesSafe == QueueSpec => LiveLeaseIsRespected
<1> DEFINE Live(i, w) == /\ item[i] # Nil /\ item[i].lease = w
                         /\ due[i] # 0 /\ i \in holds[w] /\ i \in holds'[w]
           Respected == \A i \in Ids, w \in Workers : Live(i, w) => item'[i] = item[i]
<1>1. ASSUME DueIsExact, [QueueNext]_queueVars PROVE [Respected]_queueVars
  <2> SUFFICES ASSUME NEW i \in Ids, NEW w \in Workers, Live(i, w) PROVE item'[i] = item[i]
    OBVIOUS
  <2> USE <1>1 DEF DueIsExact, QueueTypeOK
  <2>1. ASSUME NEW j \in Ids, NEW d \in Delays, EnqueueCandidate(j, d) PROVE item'[i] = item[i]
    BY <2>1 DEF EnqueueCandidate
  <2>2. ASSUME NEW j \in Ids, EnqueueAgain(j) PROVE item'[i] = item[i]
    BY <2>2 DEF EnqueueAgain, queueVars
  <2>3. ASSUME NEW v \in Workers, NEW ids \in SUBSET Ids, Claim(v, ids) PROVE item'[i] = item[i]
    BY <2>3 DEF Claim, Batch, DueNow, Stored
  <2>4. ASSUME NEW v \in Workers, NEW j \in Ids, AckCandidate(v, j) PROVE item'[i] = item[i]
    BY <2>4 DEF AckCandidate, OwnsLease, Release
  <2>5. ASSUME NEW v \in Workers, NEW j \in Ids, NEW d \in Delays, Retry(v, j, d) PROVE item'[i] = item[i]
    BY <2>5 DEF Retry, OwnsLease, Release
  <2>6. ASSUME NEW v \in Workers, WorkerCrash(v) PROVE item'[i] = item[i]
    BY <2>6 DEF WorkerCrash
  <2>7. CASE Tick
    BY <2>7 DEF Tick
  <2>8. CASE UNCHANGED queueVars
    BY <2>8 DEF queueVars
  <2> QED BY <2>1, <2>2, <2>3, <2>4, <2>5, <2>6, <2>7, <2>8 DEF QueueNext
<1> QED BY <1>1, DueSafe, PTL DEF QueueSpec, LiveLeaseIsRespected
=============================================================================
