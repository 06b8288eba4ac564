------------------------------ MODULE Gateway ------------------------------
(***************************************************************************)
(* A request's way through the gateway, up to the call of the provider     *)
(* (onr/internal/auth/middleware.go and token.go, onrserver/router.go,     *)
(* handlers.go, gemini.go and billing.go, models.Router, keystore.Store):  *)
(* authentication by master key, access key or token key, the choice of a  *)
(* provider, the route policy, the balance check, the choice of a provider *)
(* key.  Requests run concurrently; between their steps access-key records *)
(* change and keys, routes and providers are reloaded.                     *)
(*                                                                         *)
(* Names are compared after the trimming and lower-casing that the code    *)
(* does on every side, so they are plain values here.  AllowedModels is    *)
(* empty in every principal the resolver builds, so the model check always *)
(* passes and is left out.                                                 *)
(***************************************************************************)
EXTENDS Naturals, Sequences, SequencesExt

CONSTANTS
    Requests,           \* requests in flight
    Providers, Models, KeyNames, Accounts, Policies,
    Secrets, Master,    \* access-key secrets, auth.api_key among them
    Calls,              \* what clients send
    RecordTables,       \* contents of the Redis access-key records
    KeyFiles,           \* versions of keys.yaml
    ModelFiles,         \* versions of models.yaml
    Registries,         \* sets of loaded providers
    AllowBYOKWithoutK,  \* auth.token_key.allow_byok_without_k
    BillingEnabled,
    BYOK,               \* a provider key the client brings
    None

Maybe(S) == S \cup {None}

\* token: a onr:v1? token key, the rest of it a secret (k), a provider (p), a
\* model (m) and an upstream key (uk); otherwise secret is the credential.
CallType ==
    [token : BOOLEAN, secret : Maybe(Secrets), p : Maybe(Providers), m : Maybe(Models),
     uk : BOOLEAN, header : Maybe(Providers), model : Maybe(Models), gemini : BOOLEAN]

\* An empty allowlist permits every provider.
Principals ==
    [account : Maybe(Accounts), allowed : SUBSET Providers, policy : Maybe(Policies),
     bindings : [Providers -> Maybe(KeyNames)]]

Routes ==
    [providers : Seq(Providers), strategy : {"round_robin", "priority"}, owner : Maybe(Policies)]

\* A token's m replaces the request's model.
ModelOf(c) == IF c.m # None THEN c.m ELSE c.model

ASSUME GatewayAssumption ==
    /\ AllowBYOKWithoutK \in BOOLEAN /\ BillingEnabled \in BOOLEAN
    /\ Master \in Secrets
    /\ Calls \subseteq CallType
    /\ \A c \in Calls : ~c.token => c.p = None /\ c.m = None /\ ~c.uk
    /\ \A t \in RecordTables :
          t \in [Secrets -> Maybe({g \in Principals : g.account # None})]
    /\ \A f \in KeyFiles :
          /\ f.access \in [Secrets -> Maybe([name : Maybe(Accounts), disabled : BOOLEAN,
                                             bindings : [Providers -> Maybe(KeyNames)]])]
          /\ f.keys \in [Providers -> Seq([name : KeyNames, filled : BOOLEAN])]
    /\ \A f \in ModelFiles : f.routes \in [Models -> Maybe(Routes)] /\ f.priority \in Seq(Providers)
    /\ Registries \subseteq SUBSET Providers
    /\ BYOK \notin KeyNames
    /\ None \notin Secrets \cup Providers \cup Models \cup KeyNames \cup Accounts
                   \cup Policies \cup Principals \cup Routes \cup {BYOK}

VARIABLES
    mode,               \* redis.access_key_mode; "hybrid" is any other value
    records,            \* Redis: secret -> principal of its record
    store, nextKey,     \* keystore.Store: access keys, provider keys; next index
    routes, nextIdx,    \* models.Router: model -> route; next index
    registry,           \* providers of the DSL registry
    req                 \* request -> its state

vars == <<mode, records, store, nextKey, routes, nextIdx, registry, req>>
tables == <<mode, records, store, routes, registry>>
cursors == <<nextKey, nextIdx>>

-----------------------------------------------------------------------------
\* Loading the files.

\* The members of S in a sequence, in its order.
Keep(s, S) ==
    LET kept[n \in 0 .. Len(s)] ==
            IF n = 0 THEN <<>>
            ELSE IF s[n] \in S THEN Append(kept[n - 1], s[n]) ELSE kept[n - 1]
    IN  kept[Len(s)]

\* keystore.Load: keys with neither value nor credentials and disabled access
\* keys are dropped.
LoadKeys(f) ==
    [keys |-> [p \in Providers |->
                 LET filled == Keep(f.keys[p], [name : KeyNames, filled : {TRUE}])
                 IN  [i \in DOMAIN filled |-> filled[i].name]],
     access |-> [s \in Secrets |->
                   IF f.access[s] = None \/ f.access[s].disabled THEN None
                   ELSE [account |-> f.access[s].name, allowed |-> {}, policy |-> None,
                         bindings |-> f.access[s].bindings]]]

\* A file without any key is an error and the old store stays.
Loadable(f) ==
    LET s == LoadKeys(f)
    IN  (\E p \in Providers : s.keys[p] # <<>>) \/ (\E a \in Secrets : s.access[a] # None)

\* orderProviders: the prioritised providers first, the rest in route order
\* (a provider that a route lists twice is ranked once: only the head is used).
OrderProviders(providers, priority) ==
    Keep(priority, ToSet(providers)) \o Keep(providers, Providers \ ToSet(priority))

\* NewRouterWithPriority.
LoadRoutes(f) ==
    [m \in Models |->
       IF f.routes[m] = None \/ f.priority = <<>> THEN f.routes[m]
       ELSE [f.routes[m] EXCEPT !.providers = OrderProviders(@, f.priority),
                                !.strategy = "priority"]]

\* What a load can put in force.
Stores == {LoadKeys(f) : f \in {g \in KeyFiles : Loadable(g)}}
RouteTables == {LoadRoutes(f) : f \in ModelFiles}

Idle ==
    [pc |-> "idle", call |-> None, parsed |-> FALSE, who |-> None, provider |-> None,
     key |-> None, checked |-> FALSE, held |-> {}, known |-> {}]

Init ==
    /\ mode \in {"file_only", "redis_only", "hybrid"}
    /\ records \in RecordTables
    /\ store \in Stores
    /\ nextKey = [p \in Providers |-> 0]
    /\ routes \in RouteTables
    /\ nextIdx = [m \in Models |-> 0]
    /\ registry \in Registries
    /\ req = [r \in Requests |-> Idle]

-----------------------------------------------------------------------------
\* The environment.  held and known are the history of a request: the versions
\* of its caller's access-key record, and of the route table, since it arrived.

Held(rs, st, c) ==
    {g \in (IF mode = "file_only" THEN {} ELSE {rs[c.secret]})
           \cup (IF mode = "redis_only" THEN {} ELSE {st.access[c.secret]}) : g # None}

Witness(rs, st, rt) ==
    [r \in Requests |->
       IF req[r].pc = "idle" THEN req[r]
       ELSE [req[r] EXCEPT
               !.held = IF req[r].call.secret = None THEN @
                        ELSE @ \cup Held(rs, st, req[r].call),
               !.known = @ \cup {rt[m] : m \in {ModelOf(req[r].call)} \cap Models}]]

RecordsChange ==
    /\ records' \in RecordTables
    /\ req' = Witness(records', store, routes)
    /\ UNCHANGED <<mode, store, routes, registry, cursors>>

\* state.SetKeys and state.SetModelRouter: a new table starts with new indexes.
ReloadKeys ==
    /\ store' \in Stores
    /\ nextKey' = [p \in Providers |-> 0]
    /\ req' = Witness(records, store', routes)
    /\ UNCHANGED <<mode, records, routes, registry, nextIdx>>

ReloadModels ==
    /\ routes' \in RouteTables
    /\ nextIdx' = [m \in Models |-> 0]
    /\ req' = Witness(records, store, routes')
    /\ UNCHANGED <<mode, records, store, registry, nextKey>>

ReloadProviders ==
    /\ registry' \in Registries
    /\ UNCHANGED <<mode, records, store, routes, cursors, req>>

-----------------------------------------------------------------------------
\* Authentication (MiddlewareWithResolver, authenticateToken).

At(r, pc) == req[r].pc = pc
Becomes(r, q) == req' = [req EXCEPT ![r] = q]
Goto(r, pc) == Becomes(r, [req[r] EXCEPT !.pc = pc])
Reject(r) == Becomes(r, Idle)
Admit(r, principal) == Becomes(r, [req[r] EXCEPT !.pc = "select", !.who = principal])

Arrive(r, c) ==
    /\ At(r, "idle")
    /\ Becomes(r, [Idle EXCEPT !.pc = "auth", !.call = c,
                     !.held = IF c.secret = None THEN {} ELSE Held(records, store, c),
                     !.known = {routes[m] : m \in {ModelOf(c)} \cap Models}])
    /\ UNCHANGED <<tables, cursors>>

\* What the resolver is asked for: the credential as it came, then a token's k.
Probe(r) == IF req[r].call.token /\ ~req[r].parsed THEN None ELSE req[r].call.secret

MatchMaster(r) ==
    /\ At(r, "auth")
    /\ IF Probe(r) = Master THEN Admit(r, None) ELSE Goto(r, "redis")
    /\ UNCHANGED <<tables, cursors>>

\* No match: an unparsed token is tried next, anything else is refused.
Unmatched(r) ==
    IF req[r].call.token /\ ~req[r].parsed THEN Goto(r, "parse") ELSE Reject(r)

LookupAccessKeyMutFallsBack(r) ==
    /\ At(r, "redis")
    /\ IF mode # "file_only" /\ Probe(r) # None /\ records[Probe(r)] # None
       THEN Admit(r, records[Probe(r)]) ELSE Goto(r, "file")
    /\ UNCHANGED <<tables, cursors>>

\* The resolver's first half: the Redis record.
LookupAccessKey(r) ==
    /\ At(r, "redis")
    /\ IF mode = "file_only" THEN Goto(r, "file")
       ELSE IF Probe(r) # None /\ records[Probe(r)] # None
            THEN Admit(r, records[Probe(r)])
            ELSE IF mode = "redis_only" THEN Unmatched(r) ELSE Goto(r, "file")
    /\ UNCHANGED <<tables, cursors>>

\* Redis is unreachable: 503, and no other way in is tried.
LookupFails(r) ==
    /\ At(r, "redis") /\ mode # "file_only"
    /\ Reject(r)
    /\ UNCHANGED <<tables, cursors>>

\* HasAnyData: a file key without a name carries nothing but bindings.
HasAnyData(g) == g.account # None \/ g.allowed # {} \/ g.policy # None

\* The second half: MatchAccessKey in the key store.
MatchAccessKey(r) ==
    /\ At(r, "file")
    /\ IF Probe(r) # None /\ store.access[Probe(r)] # None
       THEN LET g == store.access[Probe(r)]
            IN  Admit(r, IF req[r].call.token /\ ~HasAnyData(g) THEN None ELSE g)
       ELSE Unmatched(r)
    /\ UNCHANGED <<tables, cursors>>

\* A token without k passes only when that is allowed and it brings a key.
ParseToken(r) ==
    /\ At(r, "parse")
    /\ IF req[r].call.secret # None THEN Becomes(r, [req[r] EXCEPT !.pc = "auth", !.parsed = TRUE])
       ELSE IF AllowBYOKWithoutK /\ req[r].call.uk THEN Admit(r, None)
       ELSE Reject(r)
    /\ UNCHANGED <<tables, cursors>>

-----------------------------------------------------------------------------
\* The handlers (makeHandler, makeGeminiHandler).

Model(r) == ModelOf(req[r].call)
Allowed(r) == IF req[r].who = None THEN {} ELSE req[r].who.allowed

FilterAllowed(providers, allowed) ==
    IF allowed = {} THEN providers ELSE Keep(providers, allowed)

\* NextProviderAllowed: one index per model, shared by all allowlists.
Candidates(r) ==
    IF Model(r) = None \/ routes[Model(r)] = None THEN <<>>
    ELSE FilterAllowed(routes[Model(r)].providers, Allowed(r))

Turn(r) ==
    IF routes[Model(r)].strategy = "priority" THEN 0 ELSE nextIdx[Model(r)] % Len(Candidates(r))

AdvanceTurn(r) ==
    nextIdx' = IF routes[Model(r)].strategy = "priority" THEN nextIdx
               ELSE [nextIdx EXCEPT ![Model(r)] = (Turn(r) + 1) % Len(Candidates(r))]

Forced(r) == IF req[r].call.p # None THEN req[r].call.p ELSE req[r].call.header

AllowsProvider(r, p) == Allowed(r) = {} \/ p \in Allowed(r)

\* The body is too long, or not the JSON its endpoint wants.
InspectRequestBodyFails(r) ==
    /\ At(r, "select")
    /\ Reject(r)
    /\ UNCHANGED <<tables, cursors>>

\* parseGeminiModelAction and geminiAPIFromAction: no model, or an action the
\* gateway does not serve.
GeminiActionFails(r) ==
    /\ At(r, "select") /\ req[r].call.gemini
    /\ Reject(r)
    /\ UNCHANGED <<tables, cursors>>

Selected(r, p) ==
    IF AllowsProvider(r, p) THEN Becomes(r, [req[r] EXCEPT !.pc = "policy", !.provider = p])
    ELSE Reject(r)

\* selectProvider and authorizeAccessKeyRequest.
SelectProvider(r) ==
    /\ At(r, "select")
    /\ IF Forced(r) # None THEN Selected(r, Forced(r)) /\ UNCHANGED nextIdx
       ELSE IF Candidates(r) = <<>> THEN Reject(r) /\ UNCHANGED nextIdx
       ELSE Selected(r, Candidates(r)[Turn(r) + 1]) /\ AdvanceTurn(r)
    /\ UNCHANGED <<tables, nextKey>>

RouteAllows(route, g, p) ==
    \/ route = None
    \/ /\ route.owner \in {None, g.policy}
       /\ route.providers = <<>> \/ Contains(route.providers, p)

PolicyAllowsMutOwnerOnly(r) ==
    \/ req[r].who = None \/ req[r].who.policy = None \/ Model(r) = None
    \/ routes[Model(r)] = None
    \/ routes[Model(r)].owner \in {None, req[r].who.policy}

\* authorizeRoutePolicyRequest: the route is read again, perhaps from a newer
\* table; a model without a route passes.
PolicyAllows(r) ==
    \/ req[r].who = None \/ req[r].who.policy = None \/ Model(r) = None
    \/ RouteAllows(routes[Model(r)], req[r].who, req[r].provider)

AuthorizeRoutePolicy(r) ==
    /\ At(r, "policy")
    /\ IF PolicyAllows(r) THEN Goto(r, "balance") ELSE Reject(r)
    /\ UNCHANGED <<tables, cursors>>

EnforceBillingBalanceMutSkipsTokens(r) ==
    /\ At(r, "balance")
    /\ IF ~BillingEnabled \/ req[r].who = None \/ req[r].call.token THEN Goto(r, "key")
       ELSE \/ Reject(r)
            \/ /\ req[r].who.account # None
               /\ Becomes(r, [req[r] EXCEPT !.pc = "key", !.checked = TRUE])
    /\ UNCHANGED <<tables, cursors>>

\* enforceBillingBalance: without a principal, or with billing off, there is
\* nothing to check; a principal without an account is refused; otherwise the
\* ledger decides.
EnforceBillingBalance(r) ==
    /\ At(r, "balance")
    /\ IF ~BillingEnabled \/ req[r].who = None THEN Goto(r, "key")
       ELSE \/ Reject(r)
            \/ /\ req[r].who.account # None
               /\ Becomes(r, [req[r] EXCEPT !.pc = "key", !.checked = TRUE])
    /\ UNCHANGED <<tables, cursors>>

-----------------------------------------------------------------------------
\* The provider key, from the store in force when it is picked.

UseKey(r, k) == Becomes(r, [req[r] EXCEPT !.pc = "proxy", !.key = k])

\* The token's uk.
UpstreamKey(r) ==
    /\ At(r, "key") /\ req[r].call.uk
    /\ UseKey(r, BYOK)
    /\ UNCHANGED <<tables, cursors>>

\* makeGeminiHandler never looks at the bindings.
Binding(r) ==
    IF req[r].who = None \/ req[r].call.gemini THEN None
    ELSE req[r].who.bindings[req[r].provider]

Bound(r) == At(r, "key") /\ ~req[r].call.uk /\ Binding(r) # None

KeyByNameMutFallsBack(r) ==
    /\ Bound(r)
    /\ LET keys == store.keys[req[r].provider]
       IN  IF Contains(keys, Binding(r)) THEN UseKey(r, Binding(r))
           ELSE IF keys = <<>> THEN Reject(r) ELSE UseKey(r, keys[1])
    /\ UNCHANGED <<tables, cursors>>

KeyByName(r) ==
    /\ Bound(r)
    /\ IF Contains(store.keys[req[r].provider], Binding(r))
       THEN UseKey(r, Binding(r)) ELSE Reject(r)
    /\ UNCHANGED <<tables, cursors>>

NextKey(r) ==
    LET p == req[r].provider
        keys == store.keys[p]
        i == (nextKey[p] % Len(keys)) + 1
    IN  /\ At(r, "key") /\ ~req[r].call.uk /\ Binding(r) = None
        /\ IF keys = <<>> THEN Reject(r) /\ UNCHANGED nextKey
           ELSE /\ UseKey(r, keys[i])
                /\ nextKey' = [nextKey EXCEPT ![p] = i % Len(keys)]
        /\ UNCHANGED <<tables, nextIdx>>

\* buildProxyCtx: the provider may have left the registry meanwhile.
ProxyJSON(r) ==
    /\ At(r, "proxy")
    /\ IF req[r].provider \in registry THEN Goto(r, "sent") ELSE Reject(r)
    /\ UNCHANGED <<tables, cursors>>

\* The provider has answered and the handler returns.
Return(r) ==
    /\ At(r, "sent")
    /\ Becomes(r, Idle)
    /\ UNCHANGED <<tables, cursors>>

-----------------------------------------------------------------------------
Authenticate(r) ==
    \/ MatchMaster(r) \/ LookupAccessKey(r) \/ LookupFails(r) \/ MatchAccessKey(r) \/ ParseToken(r)

Handle(r) ==
    \/ InspectRequestBodyFails(r) \/ GeminiActionFails(r)
    \/ SelectProvider(r) \/ AuthorizeRoutePolicy(r) \/ EnforceBillingBalance(r)
    \/ UpstreamKey(r) \/ KeyByName(r) \/ NextKey(r) \/ ProxyJSON(r) \/ Return(r)

Environment == RecordsChange \/ ReloadKeys \/ ReloadModels \/ ReloadProviders

Next ==
    \/ \E r \in Requests : Authenticate(r) \/ Handle(r) \/ \E c \in Calls : Arrive(r, c)
    \/ Environment

Spec == Init /\ [][Next]_vars

-----------------------------------------------------------------------------
Steps ==
    {"idle", "auth", "redis", "file", "parse", "select", "policy", "balance", "key", "proxy", "sent"}

\* The tables and the requests have their types; a request past the choice of
\* a provider has one, and one with the provider has a key.
TypeOK ==
    /\ records \in [Secrets -> Maybe(Principals)]
    /\ store.access \in [Secrets -> Maybe(Principals)]
    /\ store.keys \in [Providers -> Seq(KeyNames)]
    /\ nextKey \in [Providers -> Nat] /\ nextIdx \in [Models -> Nat]
    /\ routes \in [Models -> Maybe(Routes)]
    /\ registry \in SUBSET Providers
    /\ \A r \in Requests :
          /\ req[r].pc \in Steps
          /\ req[r].call \in Maybe(Calls)
          /\ req[r].who \in Maybe(Principals)
          /\ req[r].pc \in {"policy", "balance", "key", "proxy", "sent"} => req[r].provider \in Providers
          /\ req[r].pc \in {"proxy", "sent"} => req[r].key \in KeyNames \cup {BYOK}

Sent(r) == req[r].pc = "sent"
HeldBy(r) == {g \in req[r].held : g.allowed = {} \/ req[r].provider \in g.allowed}

IsGranted(r) ==
    \/ req[r].call.secret = Master
    \/ HeldBy(r) # {}
    \/ AllowBYOKWithoutK /\ req[r].call.secret = None /\ req[r].key = BYOK

\* Whatever way a request authenticates (README.md, "Access Keys") and however
\* its provider is chosen, it reaches a provider only for the master key, for
\* an access key one of whose records since the request arrived allows that
\* provider, or, where configured, for a token that pays with its own key; past
\* the choice it has a provider, and with the provider a key.
CallsAreGranted ==
    /\ TypeOK
    /\ \A r \in Requests : Sent(r) => IsGranted(r)

\* An unnamed key of keys.yaml sent inside a token loses its principal.
Anonymous(r, g) == req[r].call.token /\ ~HasAnyData(g)

\* Bindings are looked at unless the client brings its key or the endpoint is
\* Gemini's; the master key has none.
Bindable(r) == ~req[r].call.uk /\ ~req[r].call.gemini /\ req[r].call.secret # Master

\* CTYUN.md: a binding is an exact key-name lookup without replacement.  The
\* key sent is the one that a record of the caller binds to the provider, over
\* reloads of keys.yaml and changes of the record; only an anonymous caller's
\* bindings are not looked at.
BindingIsExact ==
    \A r \in Requests : Sent(r) /\ Bindable(r) =>
        \E g \in HeldBy(r) :
            g.bindings[req[r].provider] \in {None, req[r].key} \/ Anonymous(r, g)

\* Under a route policy a request goes to a provider that a route of its model
\* lists for that policy, also when models.yaml is reloaded between the choice
\* of the provider and the check; a model that had no route has no rule.
PolicyHolds ==
    \A r \in Requests : Sent(r) /\ req[r].who # None =>
        \/ req[r].who.policy = None \/ Model(r) = None
        \/ \E route \in req[r].known : RouteAllows(route, req[r].who, req[r].provider)

\* With billing on, a gateway key is spent without a balance check only for
\* the master key, which has no billing principal, and for an anonymous caller:
\* whoever has an account is checked, by whatever way they came in.
AccountsAreChecked ==
    \A r \in Requests : BillingEnabled /\ Sent(r) /\ req[r].key # BYOK /\ ~req[r].checked =>
        req[r].call.secret = Master \/ \E g \in req[r].held : Anonymous(r, g)
=============================================================================
