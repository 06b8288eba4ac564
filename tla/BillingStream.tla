--------------------------- MODULE BillingStream ----------------------------
(***************************************************************************)
(* The billing event stream (pkg/controlplane/redis.go): a Redis stream    *)
(* with one consumer group, a hash from message to access key, a counter   *)
(* of unsettled messages per access key, a hash of attempts and a          *)
(* dead-letter stream.  Consumers may crash and be overtaken: AutoClaim    *)
(* gives a message of a slow consumer to another while the first still     *)
(* works on it.  The repository holds no consumer, so nothing is assumed   *)
(* of when one counts an attempt, acknowledges or gives up: any consumer   *)
(* that was given a message may make any of the calls, and repeat it when  *)
(* its answer is lost.                                                     *)
(***************************************************************************)
EXTENDS Integers, FiniteSets

CONSTANTS
    AccessKeys,
    Consumers,
    MaxMessages,            \* bound on the messages enqueued
    MaxCalls,               \* bound on the attempts and dead letters of a message
    None

ASSUME BoundsAssumption ==
    MaxMessages \in Nat /\ MaxCalls \in Nat
ASSUME NoneAssumption == None \notin AccessKeys /\ None \notin Consumers

Messages == 1..MaxMessages

VARIABLES
    last,           \* id of the newest message; ids grow
    stream,         \* messages in the stream
    group,          \* the consumer group exists
    cursor,         \* last message delivered to the group
    pel,            \* message -> the consumer it is pending for, or None
    keyOf,          \* the map hash: message -> access key, or None
    pending,        \* the pending hash: access key -> counter
    attempts,       \* the attempts hash
    dead,           \* message -> its entries in the dead-letter stream
    working,        \* consumer -> messages it is processing
    origin,         \* history: message -> access key it was enqueued for
    acked           \* history: messages some consumer acknowledged

vars == <<last, stream, group, cursor, pel, keyOf, pending, attempts, dead,
          working, origin, acked>>

Init ==
    /\ last = 0 /\ stream = {} /\ group = FALSE /\ cursor = 0
    /\ pel = [m \in Messages |-> None]
    /\ keyOf = [m \in Messages |-> None]
    /\ pending = [k \in AccessKeys |-> 0]
    /\ attempts = [m \in Messages |-> 0]
    /\ dead = [m \in Messages |-> 0]
    /\ working = [c \in Consumers |-> {}]
    /\ origin = [m \in Messages |-> None]
    /\ acked = {}

\* EnqueueBillingEventForAccessKey; without access key nothing is counted.
Enqueue(k) ==
    /\ last < MaxMessages
    /\ last' = last + 1
    /\ stream' = stream \cup {last'}
    /\ keyOf' = [keyOf EXCEPT ![last'] = k]
    /\ pending' = IF k = None THEN pending ELSE [pending EXCEPT ![k] = @ + 1]
    /\ origin' = [origin EXCEPT ![last'] = k]
    /\ UNCHANGED <<group, cursor, pel, attempts, dead, working, acked>>

\* EnsureBillingGroup: from the beginning of the stream; BUSYGROUP is success.
EnsureGroup ==
    /\ group' = TRUE
    /\ UNCHANGED <<last, stream, cursor, pel, keyOf, pending, attempts, dead, working, origin, acked>>

Undelivered == {m \in stream : m > cursor}

\* ReadBilling: the oldest message nobody was given yet.
Read(c) ==
    /\ group
    /\ \E m \in Undelivered :
          /\ \A o \in Undelivered : m <= o
          /\ cursor' = m
          /\ pel' = [pel EXCEPT ![m] = c]
          /\ working' = [working EXCEPT ![c] = @ \cup {m}]
    /\ UNCHANGED <<last, stream, group, keyOf, pending, attempts, dead, origin, acked>>

\* ReadPendingBilling: what the group still holds against this consumer.
ReadPending(c) ==
    /\ working' = [working EXCEPT ![c] = @ \cup {m \in stream : pel[m] = c}]
    /\ UNCHANGED <<last, stream, group, cursor, pel, keyOf, pending, attempts, dead, origin, acked>>

\* AutoClaimBilling and its legacy form: an idle message changes its consumer.
AutoClaim(c, m) ==
    /\ pel[m] # None /\ m \in stream
    /\ pel' = [pel EXCEPT ![m] = c]
    /\ working' = [working EXCEPT ![c] = @ \cup {m}]
    /\ UNCHANGED <<last, stream, group, cursor, keyOf, pending, attempts, dead, origin, acked>>

\* The consumer is done with the message, or lost the answer and may try again.
Done(c, m) ==
    \/ working' = [working EXCEPT ![c] = @ \ {m}]
    \/ UNCHANGED working

\* hincrby -1, then hdel when nothing is left.
Decrement(k) == [pending EXCEPT ![k] = IF @ - 1 <= 0 THEN 0 ELSE @ - 1]

Uncount(m) ==
    IF keyOf[m] = None THEN UNCHANGED <<keyOf, pending>>
    ELSE /\ pending' = Decrement(keyOf[m])
         /\ keyOf' = [keyOf EXCEPT ![m] = None]

\* AckBilling: only what the group really acknowledged is uncounted.  The
\* message stays in the stream and its attempts stay in their hash.
AckScriptMutKeepsMap(m) ==
    IF pel[m] = None \/ keyOf[m] = None THEN UNCHANGED <<keyOf, pending>>
    ELSE pending' = Decrement(keyOf[m]) /\ UNCHANGED keyOf

AckScript(m) ==
    IF pel[m] = None THEN UNCHANGED <<keyOf, pending>> ELSE Uncount(m)

Ack(c, m) ==
    /\ m \in working[c]
    /\ AckScript(m)
    /\ pel' = [pel EXCEPT ![m] = None]
    /\ acked' = acked \cup {m}
    /\ Done(c, m)
    /\ UNCHANGED <<last, stream, group, cursor, attempts, dead, origin>>

\* IncrementBillingAttempt counts, and nothing else.
IncrementAttempt(c, m) ==
    /\ m \in working[c]
    /\ attempts[m] < MaxCalls
    /\ attempts' = [attempts EXCEPT ![m] = @ + 1]
    /\ UNCHANGED <<last, stream, group, cursor, pel, keyOf, pending, dead, working, origin, acked>>

\* DeadLetterBilling moves the message, whether or not another consumer settled it
\* in the meantime.
DeadLetterScriptMutLosesIt(m) ==
    /\ stream' = stream \ {m}
    /\ pel' = [pel EXCEPT ![m] = None]
    /\ attempts' = [attempts EXCEPT ![m] = 0]
    /\ dead' = IF keyOf[m] = None THEN dead ELSE [dead EXCEPT ![m] = @ + 1]
    /\ Uncount(m)

DeadLetterScript(m) ==
    /\ dead' = [dead EXCEPT ![m] = @ + 1]
    /\ pel' = [pel EXCEPT ![m] = None]
    /\ stream' = stream \ {m}
    /\ attempts' = [attempts EXCEPT ![m] = 0]
    /\ Uncount(m)

DeadLetter(c, m) ==
    /\ m \in working[c]
    /\ dead[m] < MaxCalls
    /\ DeadLetterScript(m)
    /\ Done(c, m)
    /\ UNCHANGED <<last, group, cursor, origin, acked>>

Crash(c) ==
    /\ working[c] # {}
    /\ working' = [working EXCEPT ![c] = {}]
    /\ UNCHANGED <<last, stream, group, cursor, pel, keyOf, pending, attempts, dead, origin, acked>>

Process(c) == \E m \in Messages : Ack(c, m) \/ IncrementAttempt(c, m) \/ DeadLetter(c, m)

Next ==
    \/ \E k \in AccessKeys \cup {None} : Enqueue(k)
    \/ EnsureGroup
    \/ \E c \in Consumers : Read(c) \/ ReadPending(c) \/ Process(c) \/ Crash(c)
    \/ \E c \in Consumers, m \in Messages : AutoClaim(c, m)

Spec == Init /\ [][Next]_vars

-----------------------------------------------------------------------------

TypeOK ==
    /\ last \in 0..MaxMessages /\ stream \subseteq 1..last
    /\ group \in BOOLEAN /\ cursor \in 0..last
    /\ pel \in [Messages -> Consumers \cup {None}]
    /\ keyOf \in [Messages -> AccessKeys \cup {None}]
    /\ pending \in [AccessKeys -> Nat]
    /\ attempts \in [Messages -> 0..MaxCalls]
    /\ dead \in [Messages -> Nat]
    /\ working \in [Consumers -> SUBSET (1..cursor)]
    /\ origin \in [Messages -> AccessKeys \cup {None}]
    /\ acked \subseteq 1..cursor

Settled(m) == m \in acked \/ dead[m] > 0

\* The counter of an access key (BillingPendingForAccessKey) is the number of
\* its messages that are neither acknowledged nor dead-lettered, however often
\* and by whomever they are settled.
PendingIsExact ==
    /\ TypeOK
    /\ \A k \in AccessKeys :
          pending[k] = Cardinality({m \in 1..last : origin[m] = k /\ ~Settled(m)})

\* Nothing is lost: an unsettled message is in the stream, and either still to be
\* delivered, also when it was enqueued before the group was created, or pending
\* for a consumer, from which AutoClaimBilling takes it when that one died.
NothingIsLost ==
    \A m \in 1..last :
        ~Settled(m) => m \in stream /\ (m <= cursor => pel[m] # None)
=============================================================================
