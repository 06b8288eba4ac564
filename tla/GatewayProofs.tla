--------------------------- MODULE GatewayProofs ----------------------------
(* Proofs about Gateway for any callers, records, files and requests.       *)
EXTENDS Gateway, NaturalsInduction, WellFoundedInduction, TLAPS

\* A request is a record of these fields.  Of most of them nothing is said:
\* the sets are those of the values that occur.
IsRequest(q) ==
    \E G, P, K, H, W :
        q \in [pc : Steps, call : Maybe(Calls), parsed : BOOLEAN, who : G,
               provider : P, key : K, checked : BOOLEAN, held : H, known : W]

Shape == /\ req = [r \in Requests |-> req[r]]
         /\ \A r \in Requests : IsRequest(req[r])

\* What a request remembers includes the tables in force: its caller's record
\* and its model's route.
Current(q) ==
    q.pc # "idle" =>
        /\ q.call \in Calls
        /\ q.call.secret # None => Held(records, store, q.call) \subseteq q.held
        /\ ModelOf(q.call) \in Models => routes[ModelOf(q.call)] \in q.known
        /\ q.pc = "file" => mode # "redis_only"

Chosen == {"policy", "balance", "key", "proxy", "sent"}
Admitted == Chosen \cup {"select"}

\* A caller is one of its records since it arrived, or has none for a reason.
Known(q) ==
    q.pc \in Admitted =>
        IF q.who # None THEN q.who \in q.held
        ELSE \/ q.call.secret = Master
             \/ AllowBYOKWithoutK /\ q.call.secret = None /\ q.call.uk
             \/ q.call.token /\ \E g \in q.held : ~HasAnyData(g)

Granted(q) ==
    q.pc \in Chosen => q.who = None \/ q.who.allowed = {} \/ q.provider \in q.who.allowed

Policed(q) ==
    q.pc \in Chosen \ {"policy"} =>
        \/ q.who = None \/ q.who.policy = None \/ ModelOf(q.call) = None
        \/ \E route \in q.known : RouteAllows(route, q.who, q.provider)

Paid(q) == q.pc \in {"key", "proxy", "sent"} => ~BillingEnabled \/ q.who = None \/ q.checked

Keyed(q) ==
    q.pc \in {"proxy", "sent"} =>
        IF q.call.uk THEN q.key = BYOK
        ELSE q.who = None \/ q.call.gemini \/ q.who.bindings[q.provider] \in {None, q.key}

Good(q) == Current(q) /\ Known(q) /\ Granted(q) /\ Policed(q) /\ Paid(q) /\ Keyed(q)

Inv == Shape /\ \A r \in Requests : Good(req[r])

-----------------------------------------------------------------------------
LEMMA CallFacts ==
    /\ Master # None
    /\ \A c \in Calls : c.secret \in Maybe(Secrets) /\ ModelOf(c) \in Maybe(Models)
    /\ None \notin Models
BY GatewayAssumption DEF CallType, ModelOf, Maybe

LEMMA IdleIsGood == IsRequest(Idle) /\ Good(Idle)
<1>1. Idle \in [pc : Steps, call : Maybe(Calls), parsed : BOOLEAN, who : {None},
                provider : {None}, key : {None}, checked : BOOLEAN, held : {{}}, known : {{}}]
  BY DEF Idle, Steps, Maybe
<1>2. IsRequest(Idle)
  BY <1>1 DEF IsRequest
<1>3. Good(Idle)
  BY DEF Idle, Good, Current, Known, Granted, Policed, Paid, Keyed, Chosen, Admitted
<1> QED BY <1>2, <1>3

\* The updates the handlers make of a request: one or two fields, and nothing
\* else.
Updated(n, q, pc, parsed, who, provider, key, checked) ==
    /\ IsRequest(n)
    /\ n.pc = pc /\ n.call = q.call /\ n.held = q.held /\ n.known = q.known
    /\ n.parsed = parsed /\ n.who = who /\ n.provider = provider
    /\ n.key = key /\ n.checked = checked

LEMMA Update ==
    ASSUME NEW q, IsRequest(q), NEW pc \in Steps, NEW who, NEW provider, NEW key
    PROVE  /\ Updated([q EXCEPT !.pc = pc], q, pc, q.parsed, q.who, q.provider, q.key, q.checked)
           /\ Updated([q EXCEPT !.pc = pc, !.who = who], q, pc, q.parsed, who, q.provider, q.key, q.checked)
           /\ Updated([q EXCEPT !.pc = pc, !.parsed = TRUE], q, pc, TRUE, q.who, q.provider, q.key, q.checked)
           /\ Updated([q EXCEPT !.pc = pc, !.provider = provider], q, pc, q.parsed, q.who, provider, q.key, q.checked)
           /\ Updated([q EXCEPT !.pc = pc, !.key = key], q, pc, q.parsed, q.who, q.provider, key, q.checked)
           /\ Updated([q EXCEPT !.pc = pc, !.checked = TRUE], q, pc, q.parsed, q.who, q.provider, q.key, TRUE)
<1>1. PICK G, P, K, H, W :
        q \in [pc : Steps, call : Maybe(Calls), parsed : BOOLEAN, who : G,
               provider : P, key : K, checked : BOOLEAN, held : H, known : W]
  BY DEF IsRequest
<1> DEFINE Space(A, B, C) == [pc : Steps, call : Maybe(Calls), parsed : BOOLEAN, who : A,
                              provider : B, key : C, checked : BOOLEAN, held : H, known : W]
<1>2. \A A, B, C, n : n \in Space(A, B, C) => IsRequest(n)
  BY DEF IsRequest
<1>3. Updated([q EXCEPT !.pc = pc], q, pc, q.parsed, q.who, q.provider, q.key, q.checked)
  <2> DEFINE n == [q EXCEPT !.pc = pc]
  <2>1. n \in Space(G, P, K)
    BY <1>1
  <2>2. IsRequest(n)
    BY <1>2, <2>1
  <2> QED BY <1>1, <2>2 DEF Updated
<1>4. Updated([q EXCEPT !.pc = pc, !.who = who], q, pc, q.parsed, who, q.provider, q.key, q.checked)
  <2> DEFINE n == [q EXCEPT !.pc = pc, !.who = who]
  <2>1. n \in Space(G \cup {who}, P, K)
    BY <1>1
  <2>2. IsRequest(n)
    BY <1>2, <2>1
  <2> QED BY <1>1, <2>2 DEF Updated
<1>5. Updated([q EXCEPT !.pc = pc, !.parsed = TRUE], q, pc, TRUE, q.who, q.provider, q.key, q.checked)
  <2> DEFINE n == [q EXCEPT !.pc = pc, !.parsed = TRUE]
  <2>1. n \in Space(G, P, K)
    BY <1>1
  <2>2. IsRequest(n)
    BY <1>2, <2>1
  <2> QED BY <1>1, <2>2 DEF Updated
<1>6. Updated([q EXCEPT !.pc = pc, !.provider = provider], q, pc, q.parsed, q.who, provider, q.key, q.checked)
  <2> DEFINE n == [q EXCEPT !.pc = pc, !.provider = provider]
  <2>1. n \in Space(G, P \cup {provider}, K)
    BY <1>1
  <2>2. IsRequest(n)
    BY <1>2, <2>1
  <2> QED BY <1>1, <2>2 DEF Updated
<1>7. Updated([q EXCEPT !.pc = pc, !.key = key], q, pc, q.parsed, q.who, q.provider, key, q.checked)
  <2> DEFINE n == [q EXCEPT !.pc = pc, !.key = key]
  <2>1. n \in Space(G, P, K \cup {key})
    BY <1>1
  <2>2. IsRequest(n)
    BY <1>2, <2>1
  <2> QED BY <1>1, <2>2 DEF Updated
<1>8. Updated([q EXCEPT !.pc = pc, !.checked = TRUE], q, pc, q.parsed, q.who, q.provider, q.key, TRUE)
  <2> DEFINE n == [q EXCEPT !.pc = pc, !.checked = TRUE]
  <2>1. n \in Space(G, P, K)
    BY <1>1
  <2>2. IsRequest(n)
    BY <1>2, <2>1
  <2> QED BY <1>1, <2>2 DEF Updated
<1> QED BY <1>3, <1>4, <1>5, <1>6, <1>7, <1>8

\* A step of one request that leaves the tables alone.
LEMMA OneRequest ==
    ASSUME Inv, NEW r \in Requests, NEW q, IsRequest(q), Good(q), Becomes(r, q), UNCHANGED tables
    PROVE  Inv'
<1>1. req'[r] = q /\ \A s \in Requests \ {r} : req'[s] = req[s]
  BY DEF Becomes, Inv, Shape
<1>2. Shape'
  BY <1>1 DEF Shape, Inv, Becomes
<1>3. \A p : Good(p)' <=> Good(p)
  BY DEF tables, Good, Current, Known, Granted, Policed, Paid, Keyed, Held
<1> QED BY <1>1, <1>2, <1>3 DEF Inv

LEMMA Rejected == ASSUME Inv, NEW r \in Requests, Reject(r), UNCHANGED tables PROVE Inv'
BY IdleIsGood, OneRequest DEF Reject

\* Going on to another step of the authentication.
LEMMA Onward ==
    ASSUME Inv, NEW r \in Requests, req[r].pc # "idle", UNCHANGED tables,
           NEW pc \in {"auth", "redis", "file", "parse"}, pc = "file" => mode # "redis_only",
           \/ Goto(r, pc)
           \/ Becomes(r, [req[r] EXCEPT !.pc = pc, !.parsed = TRUE])
    PROVE  Inv'
<1> DEFINE n == [req[r] EXCEPT !.pc = pc]
           m == [req[r] EXCEPT !.pc = pc, !.parsed = TRUE]
<1>1. IsRequest(req[r]) /\ Good(req[r])
  BY DEF Inv, Shape
<1>2. pc \in Steps
  BY DEF Steps
<1>3. /\ Updated(n, req[r], pc, req[r].parsed, req[r].who, req[r].provider, req[r].key, req[r].checked)
      /\ Updated(m, req[r], pc, TRUE, req[r].who, req[r].provider, req[r].key, req[r].checked)
  BY <1>1, <1>2, Update
<1> HIDE DEF n, m
<1>4. Good(n) /\ Good(m)
  BY <1>1, <1>3 DEF Updated, Good, Current, Known, Granted, Policed, Paid, Keyed, Chosen, Admitted
<1>5. Becomes(r, n) \/ Becomes(r, m)
  BY DEF Goto, n, m
<1> QED BY <1>3, <1>4, <1>5, OneRequest DEF Updated

\* Authentication admits a record of the caller, or nobody for a reason.
LEMMA Admits ==
    ASSUME Inv, NEW r \in Requests, req[r].pc # "idle", UNCHANGED tables, NEW g, Admit(r, g),
           IF g # None THEN g \in req[r].held
           ELSE \/ req[r].call.secret = Master
                \/ AllowBYOKWithoutK /\ req[r].call.secret = None /\ req[r].call.uk
                \/ req[r].call.token /\ \E h \in req[r].held : ~HasAnyData(h)
    PROVE  Inv'
<1> DEFINE n == [req[r] EXCEPT !.pc = "select", !.who = g]
<1>1. IsRequest(req[r]) /\ Good(req[r])
  BY DEF Inv, Shape
<1>2. "select" \in Steps
  BY DEF Steps
<1>3. Updated(n, req[r], "select", req[r].parsed, g, req[r].provider, req[r].key, req[r].checked)
  BY <1>1, <1>2, Update
<1>4. Becomes(r, n)
  BY DEF Admit
<1> HIDE DEF n
<1>5. Good(n)
  BY <1>1, <1>3 DEF Updated, Good, Current, Known, Granted, Policed, Paid, Keyed, Chosen, Admitted
<1> QED BY <1>3, <1>4, <1>5, OneRequest DEF Updated

LEMMA ArriveKeeps ==
    ASSUME Inv, NEW r \in Requests, NEW c \in Calls, Arrive(r, c)
    PROVE  Inv'
<1> DEFINE h == IF c.secret = None THEN {} ELSE Held(records, store, c)
           k == {routes[m] : m \in {ModelOf(c)} \cap Models}
           n == [Idle EXCEPT !.pc = "auth", !.call = c, !.held = h, !.known = k]
<1>1. /\ n \in [pc : Steps, call : Maybe(Calls), parsed : BOOLEAN, who : {None}, provider : {None},
                key : {None}, checked : BOOLEAN, held : {h, {}}, known : {k, {}}]
      /\ n.pc = "auth" /\ n.call = c /\ n.held = h /\ n.known = k
  <2> HIDE DEF h, k
  <2>1. Idle \in [pc : Steps, call : Maybe(Calls), parsed : BOOLEAN, who : {None}, provider : {None},
                  key : {None}, checked : BOOLEAN, held : {h, {}}, known : {k, {}}]
    BY DEF Idle, Steps, Maybe
  <2>2. "auth" \in Steps /\ c \in Maybe(Calls)
    BY DEF Steps, Maybe
  <2> QED BY <2>1, <2>2
<1>2. IsRequest(n)
  <2>1. \A H, W, q : q \in [pc : Steps, call : Maybe(Calls), parsed : BOOLEAN, who : {None}, provider : {None},
                          key : {None}, checked : BOOLEAN, held : H, known : W] => IsRequest(q)
    BY DEF IsRequest
  <2> HIDE DEF n, h, k
  <2> QED BY <1>1, <2>1
<1>3. Good(n)
  <2> HIDE DEF n
  <2> QED BY <1>1 DEF Good, Current, Known, Granted, Policed, Paid, Keyed, Chosen, Admitted
<1>4. Becomes(r, n) /\ UNCHANGED tables
  BY DEF Arrive
<1> QED BY <1>2, <1>3, <1>4, OneRequest

LEMMA AuthenticateKeeps ==
    ASSUME Inv, NEW r \in Requests, Authenticate(r)
    PROVE  Inv'
<1>0. Good(req[r])
  BY DEF Inv
<1>1. CASE MatchMaster(r)
  <2>1. req[r].pc # "idle" /\ UNCHANGED tables
    BY <1>1 DEF MatchMaster, At
  <2>2. CASE Probe(r) = Master
    <3>1. Admit(r, None) /\ req[r].call.secret = Master
      BY <1>1, <2>2, CallFacts DEF MatchMaster, Probe
    <3> QED BY <2>1, <3>1, Admits
  <2>3. CASE Probe(r) # Master
    BY <1>1, <2>1, <2>3, Onward DEF MatchMaster
  <2> QED BY <2>2, <2>3
<1>2. ASSUME req[r].pc # "idle", UNCHANGED tables, Unmatched(r) PROVE Inv'
  BY <1>2, Onward, Rejected DEF Unmatched
<1>3. CASE LookupAccessKey(r)
  <2>1. req[r].pc # "idle" /\ UNCHANGED tables
    BY <1>3 DEF LookupAccessKey, At
  <2>2. CASE mode # "file_only" /\ Probe(r) # None /\ records[Probe(r)] # None
    <3>1. Admit(r, records[Probe(r)])
      BY <1>3, <2>2 DEF LookupAccessKey
    <3>2. Probe(r) = req[r].call.secret
      BY <2>2 DEF Probe
    <3>3. records[Probe(r)] \in req[r].held
      BY <1>0, <2>1, <2>2, <3>2 DEF Good, Current, Held
    <3> QED BY <2>1, <2>2, <3>1, <3>3, Admits
  <2>3. CASE ~(mode # "file_only" /\ Probe(r) # None /\ records[Probe(r)] # None)
    <3>1. \/ mode # "redis_only" /\ Goto(r, "file")
          \/ Unmatched(r)
      BY <1>3, <2>3 DEF LookupAccessKey
    <3> QED BY <1>2, <2>1, <3>1, Onward
  <2> QED BY <2>2, <2>3
<1>4. CASE LookupFails(r)
  BY <1>4, Rejected DEF LookupFails
<1>5. CASE MatchAccessKey(r)
  <2>1. req[r].pc = "file" /\ UNCHANGED tables
    BY <1>5 DEF MatchAccessKey, At
  <2>2. CASE Probe(r) # None /\ store.access[Probe(r)] # None
    <3> DEFINE g == store.access[Probe(r)]
    <3>1. Admit(r, IF req[r].call.token /\ ~HasAnyData(g) THEN None ELSE g)
      BY <1>5, <2>2 DEF MatchAccessKey
    <3>2. Probe(r) = req[r].call.secret
      BY <2>2 DEF Probe
    <3>3. g \in req[r].held
      BY <1>0, <2>1, <2>2, <3>2 DEF Good, Current, Held
    <3> HIDE DEF g
    <3>4. CASE req[r].call.token /\ ~HasAnyData(g)
      BY <2>1, <3>1, <3>3, <3>4, Admits
    <3>5. CASE ~(req[r].call.token /\ ~HasAnyData(g))
      <4>1. g # None
        BY <2>2 DEF g
      <4> QED BY <2>1, <3>1, <3>3, <3>5, <4>1, Admits
    <3> QED BY <3>4, <3>5
  <2>3. CASE ~(Probe(r) # None /\ store.access[Probe(r)] # None)
    BY <1>2, <1>5, <2>1, <2>3 DEF MatchAccessKey
  <2> QED BY <2>2, <2>3
<1>6. CASE ParseToken(r)
  <2>1. req[r].pc # "idle" /\ UNCHANGED tables
    BY <1>6 DEF ParseToken, At
  <2>2. CASE req[r].call.secret # None
    BY <1>6, <2>1, <2>2, Onward DEF ParseToken
  <2>3. CASE req[r].call.secret = None /\ AllowBYOKWithoutK /\ req[r].call.uk
    <3>1. Admit(r, None)
      BY <1>6, <2>3 DEF ParseToken
    <3> QED BY <2>1, <2>3, <3>1, Admits
  <2>4. CASE req[r].call.secret = None /\ ~(AllowBYOKWithoutK /\ req[r].call.uk)
    BY <1>6, <2>1, <2>4, Rejected DEF ParseToken
  <2> QED BY <2>2, <2>3, <2>4
<1> QED BY <1>1, <1>3, <1>4, <1>5, <1>6 DEF Authenticate

\* A handler's step that changes the fields it names.
LEMMA Handled ==
    ASSUME Inv, NEW r \in Requests, UNCHANGED tables,
           NEW pc, NEW who, NEW provider, NEW key, NEW checked, NEW n,
           Updated(n, req[r], pc, req[r].parsed, who, provider, key, checked),
           Becomes(r, n), Good(n)
    PROVE  Inv'
BY OneRequest DEF Updated

LEMMA SelectKeeps == ASSUME Inv, NEW r \in Requests, SelectProvider(r) PROVE Inv'
<1>1. IsRequest(req[r]) /\ Good(req[r])
  BY DEF Inv, Shape
<1>2. req[r].pc = "select" /\ UNCHANGED tables
  BY DEF SelectProvider, At
<1>3. ASSUME NEW p, Selected(r, p), AllowsProvider(r, p) PROVE Inv'
  <2> DEFINE n == [req[r] EXCEPT !.pc = "policy", !.provider = p]
  <2>1. "policy" \in Steps
    BY DEF Steps
  <2>2. Updated(n, req[r], "policy", req[r].parsed, req[r].who, p, req[r].key, req[r].checked)
    BY <1>1, <2>1, Update
  <2>3. Becomes(r, n)
    BY <1>3 DEF Selected
  <2> HIDE DEF n
  <2>4. Good(n)
    BY <1>1, <1>2, <1>3, <2>2 DEF AllowsProvider, Allowed, Updated, Good, Current, Known, Granted, Policed,
                             Paid, Keyed, Chosen, Admitted
  <2> QED BY <1>2, <2>2, <2>3, <2>4, Handled
<1>4. ASSUME NEW p, Selected(r, p) PROVE Inv'
  BY <1>2, <1>3, <1>4, Rejected DEF Selected
<1> QED BY <1>2, <1>4, Rejected DEF SelectProvider

LEMMA PolicyKeeps == ASSUME Inv, NEW r \in Requests, AuthorizeRoutePolicy(r) PROVE Inv'
<1> DEFINE n == [req[r] EXCEPT !.pc = "balance"]
<1>1. IsRequest(req[r]) /\ Good(req[r])
  BY DEF Inv, Shape
<1>2. req[r].pc = "policy" /\ UNCHANGED tables
  BY DEF AuthorizeRoutePolicy, At
<1>3. CASE PolicyAllows(r)
  <2>1. "balance" \in Steps
    BY DEF Steps
  <2>2. Updated(n, req[r], "balance", req[r].parsed, req[r].who, req[r].provider, req[r].key, req[r].checked)
    BY <1>1, <2>1, Update
  <2>3. Becomes(r, n)
    BY <1>3 DEF AuthorizeRoutePolicy, Goto
  <2> HIDE DEF n
  <2>4. Model(r) # None => Model(r) \in Models
    BY <1>1, <1>2, CallFacts DEF Good, Current, Model, Maybe
  <2>5. Model(r) # None => routes[Model(r)] \in req[r].known
    BY <1>1, <1>2, <2>4 DEF Good, Current, Model
  <2>6. \/ req[r].who = None \/ req[r].who.policy = None \/ Model(r) = None
        \/ \E route \in req[r].known : RouteAllows(route, req[r].who, req[r].provider)
    BY <1>3, <2>5 DEF PolicyAllows
  <2>7. Good(n)
    BY <1>1, <1>2, <2>2, <2>6 DEF Model, Updated, Good, Current, Known, Granted, Policed,
                             Paid, Keyed, Chosen, Admitted
  <2> QED BY <1>2, <2>2, <2>3, <2>7, Handled
<1>4. CASE ~PolicyAllows(r)
  BY <1>2, <1>4, Rejected DEF AuthorizeRoutePolicy
<1> QED BY <1>3, <1>4

LEMMA BalanceKeeps == ASSUME Inv, NEW r \in Requests, EnforceBillingBalance(r) PROVE Inv'
<1> DEFINE n == [req[r] EXCEPT !.pc = "key"]
           m == [req[r] EXCEPT !.pc = "key", !.checked = TRUE]
<1>1. IsRequest(req[r]) /\ Good(req[r])
  BY DEF Inv, Shape
<1>2. req[r].pc = "balance" /\ UNCHANGED tables
  BY DEF EnforceBillingBalance, At
<1>3. "key" \in Steps
  BY DEF Steps
<1>4. /\ Updated(n, req[r], "key", req[r].parsed, req[r].who, req[r].provider, req[r].key, req[r].checked)
      /\ Updated(m, req[r], "key", req[r].parsed, req[r].who, req[r].provider, req[r].key, TRUE)
  BY <1>1, <1>3, Update
<1>5. \/ (~BillingEnabled \/ req[r].who = None) /\ Becomes(r, n)
      \/ Becomes(r, m)
      \/ Reject(r)
  BY DEF EnforceBillingBalance, Goto
<1> HIDE DEF n, m
<1>6. ~BillingEnabled \/ req[r].who = None => Good(n)
  BY <1>1, <1>2, <1>4 DEF Updated, Good, Current, Known, Granted, Policed, Paid, Keyed, Chosen, Admitted
<1>7. Good(m)
  BY <1>1, <1>2, <1>4 DEF Updated, Good, Current, Known, Granted, Policed, Paid, Keyed, Chosen, Admitted
<1> QED BY <1>2, <1>4, <1>5, <1>6, <1>7, Handled, Rejected

LEMMA KeyKeeps ==
    ASSUME Inv, NEW r \in Requests, NEW k, UseKey(r, k), req[r].pc = "key", UNCHANGED tables,
           IF req[r].call.uk THEN k = BYOK ELSE Binding(r) \in {None, k}
    PROVE  Inv'
<1> DEFINE n == [req[r] EXCEPT !.pc = "proxy", !.key = k]
<1>1. IsRequest(req[r]) /\ Good(req[r])
  BY DEF Inv, Shape
<1>2. "proxy" \in Steps
  BY DEF Steps
<1>3. Updated(n, req[r], "proxy", req[r].parsed, req[r].who, req[r].provider, k, req[r].checked)
  BY <1>1, <1>2, Update
<1>4. Becomes(r, n)
  BY DEF UseKey
<1> HIDE DEF n
<1>5. Good(n)
  BY <1>1, <1>3 DEF Binding, Updated, Good, Current, Known, Granted, Policed, Paid, Keyed, Chosen, Admitted
<1> QED BY <1>3, <1>4, <1>5, Handled

LEMMA HandleKeeps == ASSUME Inv, NEW r \in Requests, Handle(r) PROVE Inv'
<1>1. CASE SelectProvider(r)
  BY <1>1, SelectKeeps
<1>2. CASE AuthorizeRoutePolicy(r)
  BY <1>2, PolicyKeeps
<1>3. CASE EnforceBillingBalance(r)
  BY <1>3, BalanceKeeps
<1>4. CASE UpstreamKey(r)
  BY <1>4, KeyKeeps DEF UpstreamKey, At
<1>5. CASE KeyByName(r)
  <2>1. req[r].pc = "key" /\ ~req[r].call.uk /\ UNCHANGED tables
    BY <1>5 DEF KeyByName, Bound, At
  <2>2. UseKey(r, Binding(r)) \/ Reject(r)
    BY <1>5 DEF KeyByName
  <2> QED BY <2>1, <2>2, KeyKeeps, Rejected
<1>6. CASE NextKey(r)
  <2>1. req[r].pc = "key" /\ ~req[r].call.uk /\ Binding(r) = None /\ UNCHANGED tables
    BY <1>6 DEF NextKey, At
  <2>2. Reject(r) \/ \E k : UseKey(r, k)
    BY <1>6 DEF NextKey
  <2> QED BY <2>1, <2>2, KeyKeeps, Rejected
<1>7. CASE ProxyJSON(r)
  <2> DEFINE n == [req[r] EXCEPT !.pc = "sent"]
  <2>1. IsRequest(req[r]) /\ Good(req[r])
    BY DEF Inv, Shape
  <2>2. req[r].pc = "proxy" /\ UNCHANGED tables
    BY <1>7 DEF ProxyJSON, At
  <2>3. "sent" \in Steps
    BY DEF Steps
  <2>4. Updated(n, req[r], "sent", req[r].parsed, req[r].who, req[r].provider, req[r].key, req[r].checked)
    BY <2>1, <2>3, Update
  <2>5. Becomes(r, n) \/ Reject(r)
    BY <1>7 DEF ProxyJSON, Goto
  <2> HIDE DEF n
  <2>6. Good(n)
    BY <2>1, <2>2, <2>4 DEF Updated, Good, Current, Known, Granted, Policed, Paid, Keyed, Chosen, Admitted
  <2> QED BY <2>2, <2>4, <2>5, <2>6, Handled, Rejected
<1>8. CASE Return(r)
  BY <1>8, Rejected DEF Return, Reject
<1>9. CASE InspectRequestBodyFails(r) \/ GeminiActionFails(r)
  BY <1>9, Rejected DEF InspectRequestBodyFails, GeminiActionFails
<1> QED BY <1>1, <1>2, <1>3, <1>4, <1>5, <1>6, <1>7, <1>8, <1>9 DEF Handle

-----------------------------------------------------------------------------
\* A change of the tables reaches a request as history only.
LEMMA WitnessKeeps ==
    ASSUME Inv, mode' = mode, req' = Witness(records', store', routes')
    PROVE  Inv'
<1> SUFFICES ASSUME NEW r \in Requests PROVE IsRequest(req'[r]) /\ Good(req[r])'
  BY DEF Inv, Shape, Witness
<1>1. IsRequest(req[r]) /\ Good(req[r])
  BY DEF Inv, Shape
<1>2. CASE req[r].pc = "idle"
  <2>1. req'[r] = req[r]
    BY <1>2 DEF Witness
  <2> QED BY <1>1, <1>2, <2>1 DEF Good, Current, Known, Granted, Policed, Paid, Keyed, Chosen, Admitted
<1>3. CASE req[r].pc # "idle"
  <2> DEFINE q == req[r]
             h == IF q.call.secret = None THEN q.held ELSE q.held \cup Held(records', store', q.call)
             k == q.known \cup {routes'[m] : m \in {ModelOf(q.call)} \cap Models}
             n == [q EXCEPT !.held = h, !.known = k]
  <2>1. req'[r] = n
    BY <1>3 DEF Witness
  <2>2. PICK G, P, K, H, W :
          q \in [pc : Steps, call : Maybe(Calls), parsed : BOOLEAN, who : G,
                 provider : P, key : K, checked : BOOLEAN, held : H, known : W]
    BY <1>1 DEF IsRequest
  <2>3. /\ n \in [pc : Steps, call : Maybe(Calls), parsed : BOOLEAN, who : G,
                  provider : P, key : K, checked : BOOLEAN, held : H \cup {h}, known : W \cup {k}]
        /\ n.pc = q.pc /\ n.call = q.call /\ n.parsed = q.parsed /\ n.who = q.who /\ n.provider = q.provider
        /\ n.key = q.key /\ n.checked = q.checked /\ n.held = h /\ n.known = k
    <3> HIDE DEF h, k
    <3> QED BY <2>2
  <2>4. IsRequest(n)
    <3>1. \A A, B, q1 : q1 \in [pc : Steps, call : Maybe(Calls), parsed : BOOLEAN, who : G,
                  provider : P, key : K, checked : BOOLEAN, held : A, known : B] => IsRequest(q1)
      BY DEF IsRequest
    <3> HIDE DEF n, h, k
    <3> QED BY <2>3, <3>1
  <2>5. q.held \subseteq h /\ q.known \subseteq k
    OBVIOUS
  <2>6. /\ q.call.secret # None => Held(records', store', q.call) \subseteq h
        /\ ModelOf(q.call) \in Models => routes'[ModelOf(q.call)] \in k
    OBVIOUS
  <2> HIDE DEF n, h, k
  <2>7. Current(req[r])'
    BY <1>1, <1>3, <2>1, <2>3, <2>6 DEF Good, Current, Held
  <2>8. Known(n) /\ Granted(n) /\ Policed(n) /\ Paid(n) /\ Keyed(n)
    BY <1>1, <2>3, <2>5 DEF Good, Known, Granted, Policed, Paid, Keyed, Chosen, Admitted
  <2>9. (Known(req[r]) /\ Granted(req[r]) /\ Policed(req[r]) /\ Paid(req[r]) /\ Keyed(req[r]))'
    BY <2>1, <2>8 DEF Known, Granted, Policed, Paid, Keyed
  <2> QED BY <2>1, <2>4, <2>7, <2>9 DEF Good
<1> QED BY <1>2, <1>3

LEMMA EnvironmentKeeps == ASSUME Inv, Environment PROVE Inv'
<1>1. CASE RecordsChange
  BY <1>1, WitnessKeeps DEF RecordsChange
<1>2. CASE ReloadKeys
  BY <1>2, WitnessKeeps DEF ReloadKeys
<1>3. CASE ReloadModels
  BY <1>3, WitnessKeeps DEF ReloadModels
<1>4. CASE ReloadProviders
  BY <1>4 DEF ReloadProviders, Inv, Shape, Good, Current, Known, Granted, Policed, Paid, Keyed, Held
<1> QED BY <1>1, <1>2, <1>3, <1>4 DEF Environment

-----------------------------------------------------------------------------
\* Init, Next and the inductive invariant.
LEMMA InitInv == ASSUME Init PROVE Inv
BY IdleIsGood DEF Init, Inv, Shape

LEMMA InvNext == Inv /\ [Next]_vars => Inv'
<1> SUFFICES ASSUME Inv, [Next]_vars PROVE Inv'
  OBVIOUS
<1>1. ASSUME NEW r \in Requests, Authenticate(r) PROVE Inv'
  BY <1>1, AuthenticateKeeps
<1>2. ASSUME NEW r \in Requests, Handle(r) PROVE Inv'
  BY <1>2, HandleKeeps
<1>3. ASSUME NEW r \in Requests, NEW c \in Calls, Arrive(r, c) PROVE Inv'
  BY <1>3, ArriveKeeps
<1>4. CASE Environment
  BY <1>4, EnvironmentKeeps
<1>5. CASE UNCHANGED vars
  BY <1>5 DEF vars, Inv, Shape, Good, Current, Known, Granted, Policed, Paid, Keyed, Held
<1> QED BY <1>1, <1>2, <1>3, <1>4, <1>5 DEF Next

\* Whoever carries a route policy reaches only a provider that a route of the
\* model lists for it, over any reloads (authorizeRoutePolicyRequest).
THEOREM PolicySafe == Spec => []PolicyHolds
<1>1. Inv => PolicyHolds
  BY DEF Inv, Good, Policed, Chosen, PolicyHolds, Sent, Model
<1> QED BY <1>1, InitInv, InvNext, PTL DEF Spec

\* No account's request spends a key of the gateway without a balance check
\* (enforceBillingBalance), by whatever way it was authenticated.
THEOREM AccountsSafe == Spec => []AccountsAreChecked
<1>1. Inv => AccountsAreChecked
  <2> SUFFICES ASSUME Inv, NEW r \in Requests, BillingEnabled, Sent(r), req[r].key # BYOK, ~req[r].checked
               PROVE  req[r].call.secret = Master \/ \E g \in req[r].held : Anonymous(r, g)
    BY DEF AccountsAreChecked
  <2>1. Good(req[r]) /\ req[r].pc = "sent"
    BY DEF Inv, Sent
  <2>2. req[r].who = None /\ ~req[r].call.uk
    BY <2>1 DEF Good, Paid, Keyed
  <2> QED BY <2>1, <2>2 DEF Good, Known, Chosen, Admitted, Anonymous
<1> QED BY <1>1, InitInv, InvNext, PTL DEF Spec

\* A key that a record binds is the key sent (KeyByName, NextKey), over any
\* reloads, off the Gemini endpoints, whose handler looks at no binding.
THEOREM BindingsSafe == Spec => []BindingIsExact
<1>1. Inv => BindingIsExact
  <2> SUFFICES ASSUME Inv, NEW r \in Requests, Sent(r), ~req[r].call.uk, ~req[r].call.gemini,
                      req[r].call.secret # Master
               PROVE  \E g \in HeldBy(r) :
                        g.bindings[req[r].provider] \in {None, req[r].key} \/ Anonymous(r, g)
    BY DEF BindingIsExact, Bindable
  <2>1. Good(req[r]) /\ req[r].pc = "sent"
    BY DEF Inv, Sent
  <2>2. CASE req[r].who # None
    BY <2>1, <2>2 DEF Good, Known, Granted, Keyed, Chosen, Admitted, HeldBy
  <2>3. CASE req[r].who = None
    BY <2>1, <2>3 DEF Good, Known, Chosen, Admitted, HeldBy, Anonymous, HasAnyData
  <2> QED BY <2>2, <2>3
<1> QED BY <1>1, InitInv, InvNext, PTL DEF Spec

\* Nothing is sent but for the master key, for a record of the caller that
\* allows the provider, or for a token with its own key where that is allowed.
THEOREM GrantsSafe == Spec => [](\A r \in Requests : Sent(r) => IsGranted(r))
<1>1. Inv => \A r \in Requests : Sent(r) => IsGranted(r)
  <2> SUFFICES ASSUME Inv, NEW r \in Requests, Sent(r) PROVE IsGranted(r)
    OBVIOUS
  <2>1. Good(req[r]) /\ req[r].pc = "sent"
    BY DEF Inv, Sent
  <2>2. CASE req[r].who # None
    BY <2>1, <2>2 DEF Good, Known, Granted, Chosen, Admitted, HeldBy, IsGranted
  <2>3. CASE req[r].who = None
    BY <2>1, <2>3 DEF Good, Known, Keyed, Chosen, Admitted, HeldBy, HasAnyData, IsGranted
  <2> QED BY <2>2, <2>3
<1> QED BY <1>1, InitInv, InvNext, PTL DEF Spec
-----------------------------------------------------------------------------
\* The types, up to the key that is sent.  Induction on the naturals, over
\* sets instead of predicates.
LEMMA Least == ASSUME NEW T \in SUBSET Nat, T # {} PROVE \E m \in T : \A k \in T : m <= k
<1> DEFINE R == OpToRel(<, Nat)
<1>1. IsWellFoundedOn(R, Nat)
  BY NatLessThanWellFounded
<1>2. \A a, b \in Nat : <<a, b>> \in R <=> a < b
  BY DEF OpToRel
<1> HIDE DEF R
<1>3. PICK m \in T : \A k \in T : ~(<<k, m>> \in R)
  BY <1>1, WFMin
<1>4. ASSUME NEW k \in T PROVE m <= k
  <2>1. ~(k < m)
    BY <1>2, <1>3
  <2> QED BY <2>1
<1> QED BY <1>4

LEMMA Induct == ASSUME NEW S, 0 \in S, \A n \in Nat : n \in S => n + 1 \in S PROVE Nat \subseteq S
<1> DEFINE T == {n \in Nat : n \notin S}
<1> SUFFICES ASSUME T # {} PROVE FALSE
  OBVIOUS
<1>1. PICK m \in T : \A k \in T : m <= k
  BY Least
<1>2. m # 0 /\ m \in Nat
  OBVIOUS
<1>3. m - 1 \in Nat /\ (m - 1) + 1 = m
  BY <1>2
<1>4. m - 1 \notin T
  BY <1>1, <1>3
<1> QED BY <1>3, <1>4

\* Keep returns a sequence over what the sequence is over: its function exists,
\* one more element at a time, and its values have the type one after another.
LEMMA KeepType == ASSUME NEW T, NEW s \in Seq(T), NEW S PROVE Keep(s, S) \in Seq(T)
<1> DEFINE At0(g, n) == IF n = 0 THEN <<>>
                        ELSE IF s[n] \in S THEN Append(g[n - 1], s[n]) ELSE g[n - 1]
           Has(m) == \E g \in [0 .. m -> Seq(T)] : \A n \in 0 .. m : g[n] = At0(g, n)
           Ok == {m \in Nat : m <= Len(s) => Has(m)}
<1>0. \A m \in Nat : m \in Ok <=> (m <= Len(s) => Has(m))
  <2> HIDE DEF Has
  <2> QED OBVIOUS
<1>1. 0 \in Ok
  <2> DEFINE g == [n \in 0 .. 0 |-> <<>>]
  <2>1. g \in [0 .. 0 -> Seq(T)] /\ \A n \in 0 .. 0 : g[n] = At0(g, n)
    OBVIOUS
  <2> HIDE DEF g
  <2> QED BY <2>1
<1>2. ASSUME NEW m \in Nat, m \in Ok PROVE m + 1 \in Ok
  <2> SUFFICES ASSUME m + 1 <= Len(s)
               PROVE  Has(m + 1)
    <3> HIDE DEF Has, Ok
    <3> QED BY <1>0
  <2>0. Has(m)
    <3> HIDE DEF Has, Ok
    <3> QED BY <1>0, <1>2
  <2>1. PICK h \in [0 .. m -> Seq(T)] : \A n \in 0 .. m : h[n] = At0(h, n)
    BY <2>0
  <2> DEFINE last == IF s[m + 1] \in S THEN Append(h[m], s[m + 1]) ELSE h[m]
             g == [n \in 0 .. (m + 1) |-> IF n = m + 1 THEN last ELSE h[n]]
  <2>2. s[m + 1] \in T /\ h[m] \in Seq(T)
    BY <2>1
  <2>3. last \in Seq(T)
    BY <2>2
  <2> HIDE DEF last
  <2>4. g \in [0 .. (m + 1) -> Seq(T)]
    BY <2>3
  <2>5. g[m + 1] = last /\ \A n \in 0 .. m : g[n] = h[n]
    OBVIOUS
  <2> HIDE DEF g
  <2>6. ASSUME NEW n \in 0 .. m PROVE g[n] = At0(g, n)
    <3>1. n # 0 => n - 1 \in 0 .. m
      OBVIOUS
    <3> QED BY <2>1, <2>5, <3>1
  <2>7. g[m + 1] = At0(g, m + 1)
    <3>1. (m + 1) - 1 = m /\ m + 1 # 0 /\ m \in 0 .. m
      OBVIOUS
    <3> QED BY <2>5, <3>1 DEF last
  <2>8. \A n \in 0 .. (m + 1) : n \in 0 .. m \/ n = m + 1
    OBVIOUS
  <2> QED BY <2>4, <2>6, <2>7, <2>8
<1>3. Nat \subseteq Ok
  <2> HIDE DEF Ok
  <2> QED BY <1>1, <1>2, Induct
<1> DEFINE kept == CHOOSE f : f = [n \in 0 .. Len(s) |-> At0(f, n)]
<1>4. kept = [n \in 0 .. Len(s) |-> At0(kept, n)]
  <2>0. Has(Len(s))
    <3>1. Len(s) \in Nat /\ Len(s) <= Len(s)
      OBVIOUS
    <3> HIDE DEF Has, Ok
    <3> QED BY <1>0, <1>3, <3>1
  <2>1. PICK g \in [0 .. Len(s) -> Seq(T)] : \A n \in 0 .. Len(s) : g[n] = At0(g, n)
    BY <2>0
  <2>2. g = [n \in 0 .. Len(s) |-> At0(g, n)]
    BY <2>1
  <2> HIDE DEF At0
  <2> QED BY <2>2
<1>5. Keep(s, S) = kept[Len(s)]
  BY DEF Keep
<1> HIDE DEF kept
<1> DEFINE Typ == {n \in Nat : n <= Len(s) => kept[n] \in Seq(T)}
<1>6. 0 \in Typ
  BY <1>4
<1>7. ASSUME NEW n \in Nat, n \in Typ PROVE n + 1 \in Typ
  <2> SUFFICES ASSUME n + 1 <= Len(s) PROVE kept[n + 1] \in Seq(T)
    OBVIOUS
  <2>1. (n + 1) - 1 = n /\ n + 1 # 0 /\ n + 1 \in 0 .. Len(s)
    OBVIOUS
  <2>2. kept[n + 1] = IF s[n + 1] \in S THEN Append(kept[n], s[n + 1]) ELSE kept[n]
    BY <1>4, <2>1
  <2>3. kept[n] \in Seq(T) /\ s[n + 1] \in T
    BY <1>7
  <2> QED BY <2>2, <2>3
<1>8. Nat \subseteq Typ
  <2> HIDE DEF Typ
  <2> QED BY <1>6, <1>7, Induct
<1>9. kept[Len(s)] \in Seq(T)
  BY <1>8
<1> QED BY <1>5, <1>9

\* The tables have their types.
Tables ==
    /\ records \in [Secrets -> Maybe(Principals)]
    /\ store.access \in [Secrets -> Maybe(Principals)]
    /\ store.keys \in [Providers -> Seq(KeyNames)]
    /\ routes \in [Models -> Maybe(Routes)]
    /\ registry \in SUBSET Providers

Cursors == nextKey \in [Providers -> Nat] /\ nextIdx \in [Models -> Nat]

\* A request's caller and the versions of its record are principals; past the
\* choice it has a provider, and with the provider a key.
Typed(q) ==
    /\ q.who \in Maybe(Principals) /\ q.held \subseteq Principals
    /\ q.pc \in Chosen => q.provider \in Providers
    /\ q.pc \in {"proxy", "sent"} => q.key \in KeyNames \cup {BYOK}

Types == Tables /\ Cursors /\ \A r \in Requests : Typed(req[r])

LEMMA RecordTypes == \A t \in RecordTables : t \in [Secrets -> Maybe(Principals)]
<1> DEFINE Rows == Maybe({g \in Principals : g.account # None})
<1>1. Rows \subseteq Maybe(Principals)
  BY DEF Maybe
<1>2. \A t \in RecordTables : t \in [Secrets -> Rows]
  BY GatewayAssumption
<1> HIDE DEF Rows
<1> QED BY <1>1, <1>2

LEMMA LoadKeysTypes ==
    ASSUME NEW f \in KeyFiles
    PROVE  /\ LoadKeys(f).access \in [Secrets -> Maybe(Principals)]
           /\ LoadKeys(f).keys \in [Providers -> Seq(KeyNames)]
<1> DEFINE Key == [name : KeyNames, filled : BOOLEAN]
           Entry == [name : Maybe(Accounts), disabled : BOOLEAN,
                     bindings : [Providers -> Maybe(KeyNames)]]
           Name(p) == LET filled == Keep(f.keys[p], [name : KeyNames, filled : {TRUE}])
                      IN  [i \in DOMAIN filled |-> filled[i].name]
           Grant(s) == IF f.access[s] = None \/ f.access[s].disabled THEN None
                       ELSE [account |-> f.access[s].name, allowed |-> {}, policy |-> None,
                             bindings |-> f.access[s].bindings]
<1>1. f.access \in [Secrets -> Maybe(Entry)] /\ f.keys \in [Providers -> Seq(Key)]
  BY GatewayAssumption
<1>2. ASSUME NEW p \in Providers PROVE Name(p) \in Seq(KeyNames)
  <2> DEFINE filled == Keep(f.keys[p], [name : KeyNames, filled : {TRUE}])
  <2>1. filled \in Seq(Key)
    BY <1>1, KeepType
  <2>2. Name(p) = [i \in DOMAIN filled |-> filled[i].name]
    OBVIOUS
  <2> HIDE DEF filled, Name
  <2>3. DOMAIN filled = 1 .. Len(filled) /\ Len(filled) \in Nat
    BY <2>1
  <2>4. \A i \in 1 .. Len(filled) : filled[i].name \in KeyNames
    <3> HIDE DEF Key
    <3>1. \A i \in 1 .. Len(filled) : filled[i] \in Key
      BY <2>1
    <3> QED BY <3>1 DEF Key
  <2> QED BY <2>2, <2>3, <2>4
<1>3. ASSUME NEW s \in Secrets PROVE Grant(s) \in Maybe(Principals)
  <2>1. CASE f.access[s] = None \/ f.access[s].disabled
    BY <2>1 DEF Maybe
  <2>2. CASE ~(f.access[s] = None \/ f.access[s].disabled)
    <3>1. f.access[s] \in Entry
      BY <1>1, <2>2 DEF Maybe
    <3>2. {} \in SUBSET Providers /\ None \in Maybe(Policies)
      BY DEF Maybe
    <3>3. Grant(s) = [account |-> f.access[s].name, allowed |-> {}, policy |-> None,
                      bindings |-> f.access[s].bindings]
      BY <2>2
    <3>4. Grant(s) \in Principals
      BY <3>1, <3>2, <3>3 DEF Principals
    <3> QED BY <3>4 DEF Maybe
  <2> QED BY <2>1, <2>2
<1>4. LoadKeys(f).keys = [p \in Providers |-> Name(p)] /\ LoadKeys(f).access = [s \in Secrets |-> Grant(s)]
  BY DEF LoadKeys
<1> HIDE DEF Name, Grant
<1> QED BY <1>2, <1>3, <1>4

LEMMA LoadRoutesTypes ==
    ASSUME NEW f \in ModelFiles
    PROVE  LoadRoutes(f) \in [Models -> Maybe(Routes)]
<1>1. f.routes \in [Models -> Maybe(Routes)] /\ f.priority \in Seq(Providers)
  BY GatewayAssumption
<1> SUFFICES ASSUME NEW m \in Models, f.routes[m] # None
             PROVE  [f.routes[m] EXCEPT !.providers = OrderProviders(f.routes[m].providers, f.priority),
                                        !.strategy = "priority"] \in Routes
  BY <1>1 DEF LoadRoutes, Maybe
<1>2. f.routes[m] \in Routes
  BY <1>1 DEF Maybe
<1>3. f.routes[m].providers \in Seq(Providers)
  BY <1>2 DEF Routes
<1>4. OrderProviders(f.routes[m].providers, f.priority) \in Seq(Providers)
  <2> DEFINE a == Keep(f.priority, ToSet(f.routes[m].providers))
             b == Keep(f.routes[m].providers, Providers \ ToSet(f.priority))
  <2>1. a \in Seq(Providers) /\ b \in Seq(Providers)
    BY <1>1, <1>3, KeepType
  <2>2. OrderProviders(f.routes[m].providers, f.priority) = a \o b
    BY DEF OrderProviders
  <2> HIDE DEF a, b
  <2> QED BY <2>1, <2>2
<1> QED BY <1>2, <1>4 DEF Routes

\* The versions of a record are principals.
LEMMA HeldTypes ==
    ASSUME NEW rs \in [Secrets -> Maybe(Principals)], NEW st,
           st.access \in [Secrets -> Maybe(Principals)], NEW c \in Calls, c.secret # None
    PROVE  Held(rs, st, c) \subseteq Principals
<1>1. c.secret \in Secrets
  BY CallFacts DEF Maybe
<1> QED BY <1>1 DEF Held, Maybe

-----------------------------------------------------------------------------
\* A step of one request that leaves the tables alone.
LEMMA OneTyped ==
    ASSUME Inv, Types, NEW r \in Requests, NEW q, Typed(q), Becomes(r, q), UNCHANGED tables, Cursors'
    PROVE  Types'
<1>1. req'[r] = q /\ \A s \in Requests \ {r} : req'[s] = req[s]
  BY DEF Becomes, Inv, Shape
<1>2. \A p : Typed(p)' <=> Typed(p)
  BY DEF Typed
<1>3. Tables'
  BY DEF Types, Tables, tables
<1> QED BY <1>1, <1>2, <1>3 DEF Types

LEMMA RejectTyped ==
    ASSUME Inv, Types, NEW r \in Requests, Reject(r), UNCHANGED tables, Cursors' PROVE Types'
<1>1. Typed(Idle)
  BY DEF Typed, Idle, Maybe, Chosen
<1> QED BY <1>1, OneTyped DEF Reject

\* A step that changes fields of a request keeps its types when the new ones do.
LEMMA UpdateTyped ==
    ASSUME Inv, Types, NEW r \in Requests, UNCHANGED tables, Cursors',
           NEW pc, NEW parsed, NEW who, NEW provider, NEW key, NEW checked, NEW n, Becomes(r, n),
           Updated(n, req[r], pc, parsed, who, provider, key, checked),
           who \in Maybe(Principals),
           pc \in Chosen => provider \in Providers,
           pc \in {"proxy", "sent"} => key \in KeyNames \cup {BYOK}
    PROVE  Types'
<1>1. Typed(req[r])
  BY DEF Types
<1>2. Typed(n)
  BY <1>1 DEF Typed, Updated
<1> QED BY <1>2, OneTyped

\* A step on from the choice of the provider, or before it.
LEMMA GotoTyped ==
    ASSUME Inv, Types, NEW r \in Requests, UNCHANGED tables, Cursors', NEW pc \in Steps,
           pc \in Chosen => req[r].pc \in Chosen,
           pc \in {"proxy", "sent"} => req[r].pc \in {"proxy", "sent"},
           \/ Goto(r, pc)
           \/ Becomes(r, [req[r] EXCEPT !.pc = pc, !.parsed = TRUE])
           \/ Becomes(r, [req[r] EXCEPT !.pc = pc, !.checked = TRUE])
    PROVE  Types'
<1>1. IsRequest(req[r]) /\ Typed(req[r])
  BY DEF Inv, Shape, Types
<1> DEFINE n == [req[r] EXCEPT !.pc = pc]
           m == [req[r] EXCEPT !.pc = pc, !.parsed = TRUE]
           k == [req[r] EXCEPT !.pc = pc, !.checked = TRUE]
<1>2. /\ Updated(n, req[r], pc, req[r].parsed, req[r].who, req[r].provider, req[r].key, req[r].checked)
      /\ Updated(m, req[r], pc, TRUE, req[r].who, req[r].provider, req[r].key, req[r].checked)
      /\ Updated(k, req[r], pc, req[r].parsed, req[r].who, req[r].provider, req[r].key, TRUE)
  BY <1>1, Update
<1>3. Becomes(r, n) \/ Becomes(r, m) \/ Becomes(r, k)
  BY DEF Goto
<1> HIDE DEF n, m, k
<1>4. /\ req[r].who \in Maybe(Principals)
      /\ pc \in Chosen => req[r].provider \in Providers
      /\ pc \in {"proxy", "sent"} => req[r].key \in KeyNames \cup {BYOK}
  BY <1>1 DEF Typed
<1> QED BY <1>2, <1>3, <1>4, UpdateTyped

LEMMA AdmitTyped ==
    ASSUME Inv, Types, NEW r \in Requests, UNCHANGED tables, Cursors',
           NEW g \in Maybe(Principals), Admit(r, g)
    PROVE  Types'
<1> DEFINE n == [req[r] EXCEPT !.pc = "select", !.who = g]
<1>1. IsRequest(req[r]) /\ "select" \in Steps
  BY DEF Inv, Shape, Steps
<1>2. Updated(n, req[r], "select", req[r].parsed, g, req[r].provider, req[r].key, req[r].checked)
  BY <1>1, Update
<1>3. Becomes(r, n)
  BY DEF Admit
<1> HIDE DEF n
<1>4. "select" \notin Chosen
  BY DEF Chosen
<1> QED BY <1>2, <1>3, <1>4, UpdateTyped

LEMMA AuthenticateTyped ==
    ASSUME Inv, Types, NEW r \in Requests, Authenticate(r)
    PROVE  Types'
<1>1. UNCHANGED tables /\ Cursors'
  BY DEF Authenticate, MatchMaster, LookupAccessKey, LookupFails, MatchAccessKey, ParseToken, cursors,
         Types, Cursors
<1>2. /\ None \in Maybe(Principals)
      /\ "redis" \in Steps \ Chosen /\ "file" \in Steps \ Chosen
      /\ "parse" \in Steps \ Chosen /\ "auth" \in Steps \ Chosen
  BY DEF Maybe, Steps, Chosen
<1>3. Unmatched(r) => Types'
  BY <1>1, <1>2, GotoTyped, RejectTyped DEF Unmatched
<1>4. CASE MatchMaster(r)
  BY <1>1, <1>2, <1>4, AdmitTyped, GotoTyped DEF MatchMaster
<1>5. ASSUME req[r].pc # "idle", Probe(r) # None PROVE Probe(r) \in Secrets
  <2>1. req[r].call \in Calls
    BY <1>5 DEF Inv, Good, Current
  <2> QED BY <1>5, <2>1, CallFacts DEF Probe, Maybe
<1>6. CASE LookupAccessKey(r)
  <2>1. req[r].pc # "idle"
    BY <1>6 DEF LookupAccessKey, At
  <2>2. Probe(r) # None => records[Probe(r)] \in Maybe(Principals)
    BY <1>5, <2>1 DEF Types, Tables
  <2>3. \/ Goto(r, "file") \/ Unmatched(r)
        \/ Probe(r) # None /\ Admit(r, records[Probe(r)])
    BY <1>6 DEF LookupAccessKey
  <2> QED BY <1>1, <1>2, <1>3, <2>2, <2>3, AdmitTyped, GotoTyped
<1>7. CASE LookupFails(r)
  BY <1>1, <1>7, RejectTyped DEF LookupFails
<1>8. CASE MatchAccessKey(r)
  <2>1. req[r].pc # "idle"
    BY <1>8 DEF MatchAccessKey, At
  <2>2. Probe(r) # None => store.access[Probe(r)] \in Maybe(Principals)
    BY <1>5, <2>1 DEF Types, Tables
  <2>3. \/ Unmatched(r) \/ Admit(r, None)
        \/ Probe(r) # None /\ Admit(r, store.access[Probe(r)])
    BY <1>8 DEF MatchAccessKey
  <2> QED BY <1>1, <1>2, <1>3, <2>2, <2>3, AdmitTyped
<1>9. CASE ParseToken(r)
  BY <1>1, <1>2, <1>9, AdmitTyped, GotoTyped, RejectTyped DEF ParseToken
<1> QED BY <1>4, <1>6, <1>7, <1>8, <1>9 DEF Authenticate

LEMMA ArriveTyped ==
    ASSUME Inv, Types, NEW r \in Requests, NEW c \in Calls, Arrive(r, c)
    PROVE  Types'
<1> DEFINE h == IF c.secret = None THEN {} ELSE Held(records, store, c)
           k == {routes[m] : m \in {ModelOf(c)} \cap Models}
           n == [Idle EXCEPT !.pc = "auth", !.call = c, !.held = h, !.known = k]
<1>1. h \subseteq Principals
  BY HeldTypes DEF Types, Tables
<1>2. n.pc = "auth" /\ n.who = None /\ n.held = h
  <2> HIDE DEF h, k
  <2> QED BY DEF Idle
<1>3. Becomes(r, n) /\ UNCHANGED tables /\ Cursors'
  BY DEF Arrive, cursors, Types, Cursors
<1> HIDE DEF n, h
<1>4. Typed(n)
  BY <1>1, <1>2 DEF Typed, Maybe, Chosen
<1> QED BY <1>3, <1>4, OneTyped

\* The index stays within the candidates.
LEMMA IndexFacts ==
    ASSUME NEW T, NEW s \in Seq(T), s # <<>>, NEW i \in Nat
    PROVE  /\ i % Len(s) \in Nat /\ (i + 1) % Len(s) \in Nat
           /\ s[(i % Len(s)) + 1] \in T /\ s[1] \in T
<1>1. Len(s) \in Nat /\ Len(s) > 0
  OBVIOUS
<1>2. i % Len(s) \in 0 .. (Len(s) - 1) /\ (i + 1) % Len(s) \in Nat
  BY <1>1
<1>3. (i % Len(s)) + 1 \in 1 .. Len(s) /\ 1 \in 1 .. Len(s)
  BY <1>1, <1>2
<1>4. \A j \in 1 .. Len(s) : s[j] \in T
  OBVIOUS
<1> QED BY <1>2, <1>3, <1>4

LEMMA SelectTyped == ASSUME Inv, Types, NEW r \in Requests, SelectProvider(r) PROVE Types'
<1>1. /\ req[r].pc = "select" /\ UNCHANGED tables /\ nextKey' = nextKey
      /\ IsRequest(req[r]) /\ Typed(req[r]) /\ req[r].call \in Calls
  BY DEF SelectProvider, At, Inv, Shape, Good, Current, Types
<1>2. ASSUME NEW p \in Providers, Selected(r, p), Cursors' PROVE Types'
  <2> DEFINE n == [req[r] EXCEPT !.pc = "policy", !.provider = p]
  <2>1. "policy" \in Steps
    BY DEF Steps
  <2>2. Updated(n, req[r], "policy", req[r].parsed, req[r].who, p, req[r].key, req[r].checked)
    BY <1>1, <2>1, Update
  <2>3. Becomes(r, n) \/ Reject(r)
    BY <1>2 DEF Selected
  <2> HIDE DEF n
  <2>4. CASE Becomes(r, n)
    <3>1. Typed(n)
      BY <1>1, <1>2, <2>2 DEF Typed, Updated
    <3> QED BY <1>1, <1>2, <2>4, <3>1, OneTyped
  <2>5. CASE Reject(r)
    BY <1>1, <1>2, <2>5, RejectTyped
  <2> QED BY <2>3, <2>4, <2>5
<1>3. nextIdx' = nextIdx => Cursors'
  BY <1>1 DEF Types, Cursors
<1>4. CASE Forced(r) # None
  <2>1. Forced(r) \in Providers
    <3>1. req[r].call.p \in Maybe(Providers) /\ req[r].call.header \in Maybe(Providers)
      BY <1>1, GatewayAssumption DEF CallType
    <3> QED BY <1>4, <3>1 DEF Forced, Maybe
  <2>2. Selected(r, Forced(r)) /\ nextIdx' = nextIdx
    BY <1>4 DEF SelectProvider
  <2> QED BY <1>2, <1>3, <2>1, <2>2
<1>5. CASE Forced(r) = None /\ Candidates(r) = <<>>
  <2>1. Reject(r) /\ nextIdx' = nextIdx
    BY <1>5 DEF SelectProvider
  <2> QED BY <1>1, <1>3, <2>1, RejectTyped
<1>6. CASE Forced(r) = None /\ Candidates(r) # <<>>
  <2> DEFINE m == Model(r)
             s == Candidates(r)
  <2>1. m # None /\ routes[m] # None /\ s = FilterAllowed(routes[m].providers, Allowed(r))
    BY <1>6 DEF Candidates
  <2>2. m \in Models
    BY <1>1, <2>1, CallFacts DEF Model, Maybe
  <2>3. routes[m] \in Routes /\ nextIdx[m] \in Nat /\ nextIdx \in [Models -> Nat]
    BY <2>1, <2>2 DEF Types, Tables, Cursors, Maybe
  <2>4. routes[m].providers \in Seq(Providers)
    BY <2>3 DEF Routes
  <2>5. s \in Seq(Providers) /\ s # <<>>
    <3>1. Keep(routes[m].providers, Allowed(r)) \in Seq(Providers)
      BY <2>4, KeepType
    <3> HIDE DEF s
    <3>2. s = routes[m].providers \/ s = Keep(routes[m].providers, Allowed(r))
      BY <2>1 DEF FilterAllowed
    <3> QED BY <1>6, <2>4, <3>1, <3>2 DEF s
  <2>6. Selected(r, s[Turn(r) + 1]) /\ AdvanceTurn(r)
    BY <1>6 DEF SelectProvider
  <2>7. Turn(r) = IF routes[m].strategy = "priority" THEN 0 ELSE nextIdx[m] % Len(s)
    BY DEF Turn
  <2>8. nextIdx' = IF routes[m].strategy = "priority" THEN nextIdx
                   ELSE [nextIdx EXCEPT ![m] = (Turn(r) + 1) % Len(s)]
    BY <2>6 DEF AdvanceTurn
  <2> HIDE DEF m, s
  <2>9. s[Turn(r) + 1] \in Providers /\ Turn(r) \in Nat
    <3>1. s[(nextIdx[m] % Len(s)) + 1] \in Providers /\ s[1] \in Providers /\ nextIdx[m] % Len(s) \in Nat
      BY <2>3, <2>5, IndexFacts
    <3>2. CASE routes[m].strategy = "priority"
      BY <2>7, <3>1, <3>2
    <3>3. CASE routes[m].strategy # "priority"
      BY <2>7, <3>1, <3>3
    <3> QED BY <3>2, <3>3
  <2>10. (Turn(r) + 1) % Len(s) \in Nat
    BY <2>5, <2>9, IndexFacts
  <2>11. Cursors'
    <3>1. nextIdx' \in [Models -> Nat]
      BY <2>3, <2>8, <2>10
    <3> QED BY <1>1, <3>1 DEF Types, Cursors
  <2> QED BY <1>2, <2>6, <2>9, <2>11
<1> QED BY <1>4, <1>5, <1>6

\* A key is one of the store's, or the caller's own.
LEMMA UseKeyTyped ==
    ASSUME Inv, Types, NEW r \in Requests, NEW k \in KeyNames \cup {BYOK}, UseKey(r, k),
           req[r].pc = "key", UNCHANGED tables, Cursors'
    PROVE  Types'
<1> DEFINE n == [req[r] EXCEPT !.pc = "proxy", !.key = k]
<1>1. IsRequest(req[r]) /\ Typed(req[r]) /\ "proxy" \in Steps /\ "key" \in Chosen
  BY DEF Inv, Shape, Steps, Types, Chosen
<1>2. Updated(n, req[r], "proxy", req[r].parsed, req[r].who, req[r].provider, k, req[r].checked)
  BY <1>1, Update
<1>3. Becomes(r, n)
  BY DEF UseKey
<1> HIDE DEF n
<1>4. req[r].who \in Maybe(Principals) /\ req[r].provider \in Providers
  BY <1>1 DEF Typed
<1> QED BY <1>2, <1>3, <1>4, UpdateTyped

LEMMA NextKeyTyped == ASSUME Inv, Types, NEW r \in Requests, NextKey(r) PROVE Types'
<1> DEFINE p == req[r].provider
           keys == store.keys[p]
           i == (nextKey[p] % Len(keys)) + 1
<1>1. req[r].pc = "key" /\ UNCHANGED tables /\ nextIdx' = nextIdx
  BY DEF NextKey, At
<1>2. \/ Reject(r) /\ nextKey' = nextKey
      \/ /\ keys # <<>> /\ UseKey(r, keys[i])
         /\ nextKey' = [nextKey EXCEPT ![p] = i % Len(keys)]
  BY DEF NextKey
<1>3. p \in Providers
  BY <1>1 DEF Types, Typed, Chosen
<1>4. keys \in Seq(KeyNames) /\ nextKey[p] \in Nat /\ nextKey \in [Providers -> Nat]
  BY <1>3 DEF Types, Tables, Cursors
<1> HIDE DEF p, keys
<1>5. CASE Reject(r) /\ nextKey' = nextKey
  <2>1. Cursors'
    BY <1>1, <1>5 DEF Types, Cursors
  <2> QED BY <1>1, <1>5, <2>1, RejectTyped
<1>6. CASE /\ keys # <<>> /\ UseKey(r, keys[i])
           /\ nextKey' = [nextKey EXCEPT ![p] = i % Len(keys)]
  <2>1. keys[i] \in KeyNames /\ nextKey[p] % Len(keys) \in Nat
    BY <1>4, <1>6, IndexFacts
  <2>2. i % Len(keys) \in Nat
    BY <1>4, <1>6, <2>1, IndexFacts
  <2> HIDE DEF i
  <2>3. nextKey' \in [Providers -> Nat]
    BY <1>4, <1>6, <2>2
  <2>4. Cursors'
    BY <1>1, <2>3 DEF Types, Cursors
  <2> QED BY <1>1, <1>6, <2>1, <2>4, UseKeyTyped
<1> QED BY <1>2, <1>5, <1>6

LEMMA HandleTyped == ASSUME Inv, Types, NEW r \in Requests, Handle(r) PROVE Types'
<1>1. CASE SelectProvider(r)
  BY <1>1, SelectTyped
<1>2. CASE NextKey(r)
  BY <1>2, NextKeyTyped
<1>3. ASSUME UNCHANGED cursors PROVE Cursors'
  BY <1>3 DEF cursors, Types, Cursors
<1>4. /\ "balance" \in Steps /\ "key" \in Steps /\ "sent" \in Steps
      /\ {"policy", "balance", "key", "proxy"} \subseteq Chosen
  BY DEF Steps, Chosen
<1>5. CASE AuthorizeRoutePolicy(r)
  <2>1. req[r].pc = "policy" /\ UNCHANGED tables /\ UNCHANGED cursors /\ (Goto(r, "balance") \/ Reject(r))
    BY <1>5 DEF AuthorizeRoutePolicy, At
  <2> QED BY <1>3, <1>4, <2>1, GotoTyped, RejectTyped
<1>6. CASE EnforceBillingBalance(r)
  <2>1. /\ req[r].pc = "balance" /\ UNCHANGED tables /\ UNCHANGED cursors
        /\ \/ Goto(r, "key") \/ Reject(r)
           \/ Becomes(r, [req[r] EXCEPT !.pc = "key", !.checked = TRUE])
    BY <1>6 DEF EnforceBillingBalance, At
  <2> QED BY <1>3, <1>4, <2>1, GotoTyped, RejectTyped
<1>7. CASE UpstreamKey(r)
  BY <1>3, <1>7, UseKeyTyped DEF UpstreamKey, At
<1>8. CASE KeyByName(r)
  <2>1. /\ req[r].pc = "key" /\ UNCHANGED tables /\ UNCHANGED cursors /\ Binding(r) # None
        /\ UseKey(r, Binding(r)) \/ Reject(r)
    BY <1>8 DEF KeyByName, Bound, At
  <2>2. Typed(req[r]) /\ req[r].who # None /\ Binding(r) = req[r].who.bindings[req[r].provider]
    BY <2>1 DEF Types, Binding
  <2>3. req[r].who \in Principals /\ req[r].provider \in Providers
    BY <1>4, <2>1, <2>2 DEF Typed, Maybe
  <2>4. Binding(r) \in KeyNames
    BY <2>1, <2>2, <2>3 DEF Principals, Maybe
  <2> QED BY <1>3, <2>1, <2>4, UseKeyTyped, RejectTyped
<1>9. CASE ProxyJSON(r)
  <2>1. req[r].pc = "proxy" /\ UNCHANGED tables /\ UNCHANGED cursors /\ (Goto(r, "sent") \/ Reject(r))
    BY <1>9 DEF ProxyJSON, At
  <2> QED BY <1>3, <1>4, <2>1, GotoTyped, RejectTyped
<1>10. CASE Return(r)
  BY <1>3, <1>10, RejectTyped DEF Return, Reject
<1>11. CASE InspectRequestBodyFails(r) \/ GeminiActionFails(r)
  BY <1>3, <1>11, RejectTyped DEF InspectRequestBodyFails, GeminiActionFails
<1> QED BY <1>1, <1>2, <1>5, <1>6, <1>7, <1>8, <1>9, <1>10, <1>11 DEF Handle

\* New tables have the types of the old ones, and so has what the requests
\* remember of them.
LEMMA WitnessTyped ==
    ASSUME Inv, Types, Tables', Cursors', mode' = mode, req' = Witness(records', store', routes')
    PROVE  Types'
<1> SUFFICES ASSUME NEW r \in Requests PROVE Typed(req'[r])
  BY DEF Types, Typed
<1>1. IsRequest(req[r]) /\ Typed(req[r]) /\ Good(req[r])
  BY DEF Inv, Shape, Types
<1>2. CASE req[r].pc = "idle"
  BY <1>1, <1>2 DEF Witness
<1>3. CASE req[r].pc # "idle"
  <2> DEFINE q == req[r]
             h == IF q.call.secret = None THEN q.held ELSE q.held \cup Held(records', store', q.call)
             k == q.known \cup {routes'[m] : m \in {ModelOf(q.call)} \cap Models}
             n == [q EXCEPT !.held = h, !.known = k]
  <2>1. req'[r] = n
    BY <1>3 DEF Witness
  <2>2. q.call \in Calls
    BY <1>1, <1>3 DEF Good, Current
  <2>3. records' \in [Secrets -> Maybe(Principals)] /\ store'.access \in [Secrets -> Maybe(Principals)]
    BY DEF Tables
  <2>4. h \subseteq Principals
    BY <1>1, <2>2, <2>3, HeldTypes DEF Typed
  <2>5. n.pc = q.pc /\ n.who = q.who /\ n.provider = q.provider /\ n.key = q.key /\ n.held = h
    <3>1. PICK G, P, K, H, W :
            q \in [pc : Steps, call : Maybe(Calls), parsed : BOOLEAN, who : G,
                   provider : P, key : K, checked : BOOLEAN, held : H, known : W]
      BY <1>1 DEF IsRequest
    <3> HIDE DEF h, k
    <3> QED BY <3>1
  <2> HIDE DEF n, h
  <2> QED BY <1>1, <2>1, <2>4, <2>5 DEF Typed
<1> QED BY <1>2, <1>3

LEMMA StoreTypes ==
    ASSUME NEW s \in Stores
    PROVE  s.access \in [Secrets -> Maybe(Principals)] /\ s.keys \in [Providers -> Seq(KeyNames)]
BY LoadKeysTypes DEF Stores

LEMMA RouteTypes == \A t \in RouteTables : t \in [Models -> Maybe(Routes)]
BY LoadRoutesTypes DEF RouteTables

LEMMA EnvironmentTyped == ASSUME Inv, Types, Environment PROVE Types'
<1>1. CASE RecordsChange
  <2>1. Tables' /\ Cursors'
    BY <1>1, RecordTypes DEF RecordsChange, Types, Tables, Cursors, cursors
  <2> QED BY <1>1, <2>1, WitnessTyped DEF RecordsChange
<1>2. CASE ReloadKeys
  <2>1. Tables' /\ Cursors'
    BY <1>2, StoreTypes DEF ReloadKeys, Types, Tables, Cursors
  <2> QED BY <1>2, <2>1, WitnessTyped DEF ReloadKeys
<1>3. CASE ReloadModels
  <2>1. Tables' /\ Cursors'
    BY <1>3, RouteTypes DEF ReloadModels, Types, Tables, Cursors
  <2> QED BY <1>3, <2>1, WitnessTyped DEF ReloadModels
<1>4. CASE ReloadProviders
  <2>1. Tables' /\ Cursors'
    BY <1>4, GatewayAssumption DEF ReloadProviders, Types, Tables, Cursors, cursors
  <2> QED BY <1>4, <2>1 DEF ReloadProviders, Types, Typed
<1> QED BY <1>1, <1>2, <1>3, <1>4 DEF Environment

LEMMA InitTypes == Init => Types
<1> SUFFICES ASSUME Init PROVE Types
  OBVIOUS
<1>1. Tables
  BY RecordTypes, StoreTypes, RouteTypes, GatewayAssumption DEF Init, Tables
<1>2. Cursors
  BY DEF Init, Cursors
<1>3. Typed(Idle)
  BY DEF Typed, Idle, Maybe, Chosen
<1> QED BY <1>1, <1>2, <1>3 DEF Init, Types

LEMMA TypesNext == Inv /\ Types /\ [Next]_vars => Types'
<1> SUFFICES ASSUME Inv, Types, [Next]_vars PROVE Types'
  OBVIOUS
<1>1. ASSUME NEW r \in Requests, Authenticate(r) PROVE Types'
  BY <1>1, AuthenticateTyped
<1>2. ASSUME NEW r \in Requests, Handle(r) PROVE Types'
  BY <1>2, HandleTyped
<1>3. ASSUME NEW r \in Requests, NEW c \in Calls, Arrive(r, c) PROVE Types'
  BY <1>3, ArriveTyped
<1>4. CASE Environment
  BY <1>4, EnvironmentTyped
<1>5. CASE UNCHANGED vars
  BY <1>5 DEF vars, Types, Tables, Cursors, Typed
<1> QED BY <1>1, <1>2, <1>3, <1>4, <1>5 DEF Next

\* Whatever is sent is granted, goes to a provider there is and carries a key
\* of the store or the caller's own, for any files, records and callers and
\* over any reloads: no index of NextProviderAllowed or NextKey leaves its
\* list when a reload shortens it.
THEOREM CallsSafe == Spec => []CallsAreGranted
<1>1. Inv /\ Types => TypeOK
  <2> SUFFICES ASSUME Inv, Types PROVE TypeOK
    OBVIOUS
  <2>1. ASSUME NEW r \in Requests
        PROVE  /\ req[r].pc \in Steps /\ req[r].call \in Maybe(Calls) /\ req[r].who \in Maybe(Principals)
               /\ req[r].pc \in Chosen => req[r].provider \in Providers
               /\ req[r].pc \in {"proxy", "sent"} => req[r].key \in KeyNames \cup {BYOK}
    <3>1. req[r].pc \in Steps /\ req[r].call \in Maybe(Calls)
      BY DEF Inv, Shape, IsRequest
    <3> QED BY <3>1 DEF Types, Typed
  <2> QED BY <2>1 DEF Types, Tables, Cursors, TypeOK, Chosen
<1>2. Spec => [](Inv /\ Types)
  BY InitInv, InitTypes, InvNext, TypesNext, PTL DEF Spec
<1>3. Spec => [](\A r \in Requests : Sent(r) => IsGranted(r))
  BY GrantsSafe
<1>4. TypeOK /\ (\A r \in Requests : Sent(r) => IsGranted(r)) => CallsAreGranted
  BY DEF CallsAreGranted
<1> QED BY <1>1, <1>2, <1>3, <1>4, PTL
=============================================================================
