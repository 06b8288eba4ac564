------------------------------ MODULE Pricing ------------------------------
(***************************************************************************)
(* Prices (onr-core/pkg/pricing): the models.dev catalog becomes a price   *)
(* file (onr-admin pricing sync), the price file and the overrides beside  *)
(* it become a resolver, and the resolver turns a request's usage into its *)
(* cost.                                                                   *)
(*                                                                         *)
(* A cost map gives a rate, a whole number, to names of rates: "input",    *)
(* "output", "cache_read", "cache_write" and those of flat usage fields.   *)
(* Tokens are priced by the million and further fields by the piece; costs *)
(* are in millionths of the unit.  A usage is [in, out, read, write], flat *)
(* gives quantities to its further fields.  Names are trimmed and in lower *)
(* case already; "" is a missing one.                                      *)
(***************************************************************************)
EXTENDS Integers, FiniteSetsExt, TLC

NoRates    == <<>>
NoResolver == <<>>
NoCost     == <<>>
RateOf(rates, name) == IF name \in DOMAIN rates THEN rates[name] ELSE 0

----------------------------------------------------------------------------
(* The catalog: provider id to [model id -> cost map]. *)

ProviderAliases == "gemini" :> "google" @@ "moonshot" :> "moonshotai-cn" @@ "moonshotai" :> "moonshotai-cn"
                   @@ "azure-response" :> "azure"

\* The id of the catalog for a provider of the gateway, "" when it has none.
ResolveProviderID(catalog, name) ==
  IF name \in DOMAIN catalog /\ name # "" THEN name
  ELSE IF name \in DOMAIN ProviderAliases /\ ProviderAliases[name] \in DOMAIN catalog
       THEN ProviderAliases[name] ELSE ""

\* ExtractPrices: all models of a provider, or the wanted ones, which must all be there.
ExtractPrices(catalog, name, wanted) ==
  LET id     == ResolveProviderID(catalog, name)
      models == IF wanted \ {""} = {} THEN DOMAIN catalog[id] ELSE wanted \ {""}
  IN IF id = "" \/ catalog[id] = <<>> \/ ~(models \subseteq DOMAIN catalog[id])
     THEN [ok |-> FALSE, prices |-> {}]
     ELSE [ok |-> TRUE, prices |-> {[provider |-> id, model |-> m, cost |-> catalog[id][m]] : m \in models}]

\* BuildPriceFile sorts the entries by provider and model; here a file is the set of them.
\* runPricingSyncWithOptions: unknown providers are skipped, and a sync that
\* finds nothing or misses a model leaves the file as it was.
SyncPrices(catalog, providers, wanted, file) ==
  LET known == {p \in providers : ResolveProviderID(catalog, p) # ""}
      found == {ExtractPrices(catalog, p, wanted) : p \in known}
  IN IF found = {} \/ \E f \in found : ~f.ok THEN file ELSE UNION {f.prices : f \in found}

----------------------------------------------------------------------------
(* The resolver: [base, providers, channels].  A scope of the overrides is *)
(* [multiplier, models], its models giving cost maps to some models.       *)

\* LoadResolver: no resolver when nothing is priced; entries without name or cost are skipped.
LoadResolver(file, overrides) ==
  LET priced == {e \in file : e.provider # "" /\ e.model # "" /\ e.cost # NoRates}
  IN IF priced = {} THEN NoResolver
     ELSE [base |-> [p \in {e.provider : e \in priced} |->
                       [m \in {e.model : e \in {f \in priced : f.provider = p}} |->
                          (CHOOSE e \in priced : e.provider = p /\ e.model = m).cost]],
           providers |-> overrides.providers, channels |-> overrides.channels]

\* What is not overridden has the empty scope; channels are <<provider, key>>.
NoScope == [multiplier |-> 1, models |-> <<>>]
ScopeOf(scopes, name) == IF name \in DOMAIN scopes THEN scopes[name] ELSE NoScope

\* The exact provider's entry wins over the wildcard's, as a whole.
BaseRates(r, provider, model) ==
  LET Entry(p) == p \in DOMAIN r.base /\ model \in DOMAIN r.base[p]
  IN IF Entry(provider) THEN r.base[provider][model]
     ELSE IF Entry("*") THEN r.base["*"][model] ELSE NoRates

\* applyModelOverride: rate by rate over what is there.
ApplyModelOverride(rates, model, scope) ==
  IF model \in DOMAIN scope.models THEN scope.models[model] @@ rates ELSE rates

\* The provider's scope first, the channel's over it; both multiply.
EffectiveRates(r, provider, key, model) ==
  LET p == ScopeOf(r.providers, provider)
      c == ScopeOf(r.channels, <<provider, key>>)
      rates == ApplyModelOverride(ApplyModelOverride(BaseRates(r, provider, model), model, p), model, c)
  IN [name \in DOMAIN rates |-> rates[name] * (p.multiplier * c.multiplier)]

\* A cache rate of zero is the input rate.
CacheRate(rates, name) == IF RateOf(rates, name) = 0 THEN RateOf(rates, "input") ELSE RateOf(rates, name)

\* computeExtraUsageCost: the flat fields that have a rate.
ExtraFields(flat, rates) == {f \in DOMAIN flat \cap DOMAIN rates : rates[f] # 0 /\ flat[f] > 0}
Million == 1000000
ExtraCost(flat, rates) == MapThenSumSet(LAMBDA f : flat[f] * rates[f] * Million, ExtraFields(flat, rates))

\* usdByRatePerMillion
Cost(tokens, rate) == IF tokens <= 0 THEN 0 ELSE tokens * rate

BillableInput(usage) ==
  LET n == usage.in - usage.read - usage.write IN IF n < 0 THEN 0 ELSE n

Costs(usage, flat, rates) ==
  [input |-> Cost(BillableInput(usage), RateOf(rates, "input")),
   output |-> Cost(usage.out, RateOf(rates, "output")),
   read |-> Cost(usage.read, CacheRate(rates, "cache_read")),
   write |-> Cost(usage.write, CacheRate(rates, "cache_write")),
   extra |-> ExtraCost(flat, rates), billable |-> BillableInput(usage)]

WithTotal(c) == c @@ [total |-> c.input + c.output + c.read + c.write + c.extra]

\* Compute: no cost where nothing has a price.
Priced(flat, rates) ==
  \/ \E name \in {"input", "output", "cache_read", "cache_write"} : RateOf(rates, name) # 0
  \/ ExtraFields(flat, rates) # {}

Compute(r, provider, key, model, usage, flat) ==
  LET rates == EffectiveRates(r, provider, key, model)
  IN IF provider = "" \/ model = "" \/ ~Priced(flat, rates) THEN NoCost
     ELSE WithTotal(Costs(usage, flat, rates))
============================================================================
