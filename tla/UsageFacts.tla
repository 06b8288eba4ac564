----------------------------- MODULE UsageFacts -----------------------------
(***************************************************************************)
(* What a response costs: the usage_fact, usage_root and *_tokens rules of *)
(* a provider read a response into token counts and billing fields         *)
(* (dslconfig usage.go, usage_fact.go, usage_root.go), the finish reason   *)
(* is read beside them (finish_reason.go), and for a stream both are       *)
(* gathered event by event (stream_metrics.go).                            *)
(*                                                                         *)
(* Quantities are counted in thousandths, and so is the number of a        *)
(* scale= option: scale=0.001 is the token with n = 1.  An object that is  *)
(* not there, a nil map in Go, is the empty object.                        *)
(***************************************************************************)
EXTENDS DslSelect

Unit == 1000
Round(q) == (q + Unit \div 2) \div Unit
NoObject == Obj(NoFields)

(***************************************************************************)
(* Facts.  The *_tokens_path and *_tokens_expr fields are facts as well,   *)
(* unless the file has an explicit fact for the same tokens.               *)
(***************************************************************************)
KeyOf(fact) == <<fact.a[1][1], fact.a[2][1]>>
LegacyKeys == {"input", "output", "cache_read", "cache_write"} \X {"token"}
LegacyFields == <<[key |-> "input", path |-> "input_tokens_path", expr |-> "input_tokens_expr"],
                  [key |-> "output", path |-> "output_tokens_path", expr |-> "output_tokens_expr"],
                  [key |-> "cache_read", path |-> "cache_read_tokens_path", expr |-> "cache_read_tokens_expr"],
                  [key |-> "cache_write", path |-> "cache_write_tokens_path", expr |-> "cache_write_tokens_expr"]>>

LegacyUsageFact(cfg, f) ==
    LET Given1(name, field) == IF Literal(cfg, field) = <<>> THEN Empty
                               ELSE name :> [k |-> "string", t |-> Literal(cfg, field)]
    IN  [d |-> "usage_fact",
         a |-> <<<<f.key>>, <<"token">>, Given1("path", f.path) @@ Given1("expr", f.expr)>>]

CompiledFacts(cfg) ==
    LET facts == Get(cfg, "facts", <<>>)
        explicit == {KeyOf(facts[i]) : i \in 1..Len(facts)}
        legacy == [i \in 1..Len(LegacyFields) |-> LegacyUsageFact(cfg, LegacyFields[i])]
    IN  SelectSeq(legacy, LAMBDA x : KeyOf(x) \notin explicit /\ DOMAIN x.a[3] # {}) \o facts

Roots(cfg) == Get(cfg, "roots", <<>>)
HasRoots(cfg) == Roots(cfg) # <<>>

\* usageFactReadsUsageRoot
ReadsUsageRoot(fact, rooted) == \/ OptText(fact.a[3], "source") = <<"usage">>
                                \/ OptText(fact.a[3], "source") = <<>> /\ rooted

\* usageFactSourceRoot; r holds the four objects a fact may read.
SourceRoot(fact, r, rooted) ==
    LET s == OptText(fact.a[3], "source")
    IN  IF ReadsUsageRoot(fact, rooted) THEN r.usage
        ELSE IF s \in {<<>>, <<"response">>} THEN r.response
        ELSE IF s = <<"request">> THEN r.request ELSE r.derived

MatchesUsageFactFilter(v, type, status) ==
    /\ type # <<>> => Has(v, "type") /\ v.f["type"] = Str(type)
    /\ status # <<>> => Has(v, "status") /\ v.f["status"] = Str(status)

CountPath(root, path, type, status) ==
    LET Counted(r) == [ok |-> r.ok, n |-> Len(SelectSeq(r.vals, LAMBDA v : MatchesUsageFactFilter(v, type, status)))]
    IN  Counted(GetValuesByPath(root, path))

LenPath(root, path) == LET Length(s) == [ok |-> s # <<>>, n |-> Len(s)] IN Length(GetStringByPath(root, path))

Unmatched == [ok |-> FALSE, n |-> 0]

\* evaluateUsageFactWithEvent
Quantity(o, root) ==
    IF OptText(o, "expr") # <<>> THEN [ok |-> TRUE, n |-> EvalUsageExpr(OptText(o, "expr"), root)]
    ELSE IF OptText(o, "count_path") # <<>>
         THEN CountPath(root, OptText(o, "count_path"), OptText(o, "type"), OptText(o, "status"))
    ELSE IF OptText(o, "sum_path") # <<>> THEN GetFloatByPath(root, OptText(o, "sum_path"))
    ELSE IF OptText(o, "len_path") # <<>> THEN LenPath(root, OptText(o, "len_path"))
    ELSE GetFloatByPath(root, OptText(o, "path"))
Scaled(o, q) == IF q.ok THEN [q EXCEPT !.n = @ * (IF "scale" \in DOMAIN o THEN o["scale"].n ELSE Unit)] ELSE Unmatched
FactIn(event, o, root) ==
    IF \/ root = NoObject
       \/ ~MatchesUsageEvent(event, OptText(o, "event"), OptOn(o, "event_optional"))
       \/ OptText(o, "when_path") # <<>> /\ ~ValueEqualsLiteral(root, OptText(o, "when_path"), OptText(o, "when_eq"))
    THEN Unmatched
    ELSE Scaled(o, Quantity(o, root))
EvaluateUsageFact(event, r, rooted, fact) == FactIn(event, fact.a[3], SourceRoot(fact, r, rooted))

\* usageFactEventOptionalFallbackKey: everything but the event and the fallback mark.
RuleKey(fact) == Restrict(fact.a[3], DOMAIN fact.a[3] \ {"event", "event_optional", "fallback"})
\* Without an event, a rule whose event is optional stands for all rules like it before it.
SkipDuplicate(event, facts, i) ==
    LET Scoped(j) == OptOn(facts[j].a[3], "event_optional") /\ OptText(facts[j].a[3], "event") # <<>>
    IN  /\ event = "" /\ Scoped(i)
        /\ \E j \in 1..i - 1 : Scoped(j) /\ RuleKey(facts[j]) = RuleKey(facts[i])

\* evaluateUsageFactGroupWithEvent: the facts of one dimension and unit.  Fallback
\* rules count only when no other rule of the group matched.
EvaluateGroup(event, r, rooted, facts) ==
    LET first == SelectSeq(facts, LAMBDA x : ~OptOn(x.a[3], "fallback"))
        all == first \o SelectSeq(facts, LAMBDA x : OptOn(x.a[3], "fallback"))
        Counted(q) ==
            SelectSeq([i \in 1..Len(all) |-> [fact |-> all[i], n |-> q[i].n,
                                              ok |-> q[i].ok /\ (i > Len(first) => \A j \in 1..Len(first) : ~q[j].ok)]],
                      LAMBDA e : e.ok)
    IN  Counted([i \in 1..Len(all) |-> IF SkipDuplicate(event, all, i) THEN Unmatched
                                       ELSE EvaluateUsageFact(event, r, rooted, all[i])])

Attrs(fact) == OptText(fact.a[3], "attr.ttl")
\* usageFactEvalMergeKey: the identity a price is attached to.
MergeKey(fact) == <<KeyOf(fact), Attrs(fact)>>

\* evaluateUsageFactConfigGroupsWithEvent and mergeUsageFactEvals: identity to quantity.
EvaluateFacts(event, r, rooted, facts) ==
    LET Merged(evals) ==
            [id \in UNION {{MergeKey(evals[k][i].fact) : i \in 1..Len(evals[k])} : k \in DOMAIN evals} |->
                Total([i \in 1..Len(evals[id[1]]) |->
                           IF MergeKey(evals[id[1]][i].fact) = id THEN evals[id[1]][i].n ELSE 0])]
    IN  Merged([k \in {KeyOf(facts[i]) : i \in 1..Len(facts)} |->
                    EvaluateGroup(event, r, rooted, SelectSeq(facts, LAMBDA x : KeyOf(x) = k))])

\* projectUsageFromFacts, buildUsageFlatFields: the token counts, and one flat field per
\* identity that is not one of the four counts without attributes.
ProjectUsage(sums) ==
    LET Tokens(d) == MapThenSumSet(LAMBDA id : Round(sums[id]), {id \in DOMAIN sums : id[1] = <<d, "token">>})
        flat == {id \in DOMAIN sums : id[1] \notin LegacyKeys \/ id[2] # <<>>}
    IN  [in |-> Tokens("input"), out |-> Tokens("output"), read |-> Tokens("cache_read"),
         write |-> Tokens("cache_write"), total |-> Tokens("input") + Tokens("output"),
         flat |-> [id \in flat |-> sums[id]]]

(***************************************************************************)
(* usage_root: the objects it names, joined.                               *)
(***************************************************************************)
IsEmptyValue(v) == \/ v.t = "null"
                   \/ v.t = "str" /\ v.s = <<>>
                   \/ v.t = "bool" /\ ~v.b
                   \/ v.t = "obj" /\ v.f = NoFields
                   \/ v.t = "arr" /\ v.e = <<>>
                   \/ IsNum(v) /\ v.n = 0

\* Mutant: an empty count wipes out the one before.
MergeRootOver(dst, src, latest) == Obj(src.f @@ dst.f)

\* mergeUsageRootPreferNonZero and mergeUsageRootLatestNonZero differ in who wins.
RECURSIVE MergeRoot(_, _, _)
MergeRoot(dst, src, latest) ==
    LET Pick(k) == IF k \notin DOMAIN src.f THEN dst.f[k]
                   ELSE IF k \notin DOMAIN dst.f THEN src.f[k]
                   ELSE IF dst.f[k].t = "obj" /\ src.f[k].t = "obj" THEN MergeRoot(dst.f[k], src.f[k], latest)
                   ELSE IF IF latest THEN ~IsEmptyValue(src.f[k]) \/ IsEmptyValue(dst.f[k])
                           ELSE IsEmptyValue(dst.f[k]) /\ ~IsEmptyValue(src.f[k])
                        THEN src.f[k] ELSE dst.f[k]
    IN  Obj([k \in DOMAIN dst.f \cup DOMAIN src.f |-> Pick(k)])

ExtractUsageRoot(event, response, roots) ==
    LET Without(v, fields) == Obj(Restrict(v.f, DOMAIN v.f \ {fields[i] : i \in 1..Len(fields)}))
        Step(merged, root) ==
            LET o == root.a[1]
                objs == SelectSeq(GetValuesByPath(response, OptText(o, "path")).vals, LAMBDA v : v.t = "obj")
            IN  IF MatchesUsageEvent(event, OptText(o, "event"), OptOn(o, "event_optional"))
                THEN FoldLeft(LAMBDA m, v : MergeRoot(m, Without(v, OptText(o, "exclude")), FALSE), merged, objs)
                ELSE merged
    IN  FoldLeft(Step, NoObject, roots)

(***************************************************************************)
(* ExtractUsage, for an answer that came at once.                          *)
(***************************************************************************)
Sources(meta, response, usage) == [request |-> meta.request, derived |-> meta.derived,
                                   response |-> response, usage |-> usage]

\* extractCustomUsageWithEvent
ExtractEventUsage(meta, cfg, facts, event, response) ==
    LET r == Sources(meta, response, ExtractUsageRoot(event, response, Roots(cfg)))
        u == ProjectUsage(EvaluateFacts(event, r, HasRoots(cfg), facts))
    IN  [u EXCEPT !.total = IF Literal(cfg, "total_tokens_expr") = <<>> THEN @
                            ELSE EvalUsageExpr(Literal(cfg, "total_tokens_expr"), response)]

Custom(cfg, field) == ModeOf(cfg, field) = <<"custom">>

\* usageConfigAllowsNonJSONResponse; response is Missing when the body is not JSON.
ExtractUsage(meta, cfg, response) ==
    LET facts == CompiledFacts(cfg)
        elsewhere == \E i \in 1..Len(Get(cfg, "facts", <<>>)) :
                        OptText(cfg["facts"][i].a[3], "source") \in {<<"request">>, <<"derived">>}
        root == IF response.ok /\ response.v.t = "obj" THEN response.v ELSE NoObject
    IN  IF Custom(cfg, "usage_extract") /\ (response.ok \/ elsewhere)
        THEN Found(ExtractEventUsage(meta, cfg, facts, "", root)) ELSE Missing

(***************************************************************************)
(* The finish reason.                                                      *)
(***************************************************************************)
\* finishReasonRuleMatchesEvent: one event name, not a list of them.
FinishRuleMatches(rule, event) ==
    \/ OptText(rule.a[2], "event") \in {<<>>, <<event>>}
    \/ event = "" /\ OptOn(rule.a[2], "event_optional")

FinishReasonByPaths(root, cfg, event) ==
    LET here == SelectSeq(Get(cfg, "finish_paths", <<>>), LAMBDA x : FinishRuleMatches(x, event))
        inOrder == SelectSeq(here, LAMBDA x : ~OptOn(x.a[2], "fallback")) \o
                   SelectSeq(here, LAMBDA x : OptOn(x.a[2], "fallback"))
        found == SelectSeq([i \in 1..Len(inOrder) |-> GetStringByPath(root, inOrder[i].a[1])],
                           LAMBDA s : s # <<>>)
    IN  IF found = <<>> THEN <<>> ELSE found[1]

\* ExtractFinishReasonObject
ExtractFinishReason(cfg, event, root) ==
    IF Custom(cfg, "finish_reason_extract") THEN FinishReasonByPaths(root, cfg, event) ELSE <<>>

\* extractFinishReasonFromSSE: the first event that says one.
FinishReasonFromSSE(cfg, events) ==
    LET Step(found, e) == IF found # <<>> THEN found ELSE ExtractFinishReason(cfg, e.name, e.root)
    IN  FoldLeft(Step, <<>>, events)

(***************************************************************************)
(* StreamMetricsAggregator.  Facts that read the usage root wait for the   *)
(* end of the stream and read what all events left in it.                  *)
(***************************************************************************)
\* usageFactMergeSignature, usageConfigInputIncludesCache
Signature(fact) == [k \in {"source", "event", "path", "count_path", "sum_path", "expr", "type", "status"} |->
                        OptText(fact.a[3], k)]
InputIncludesCache(cfg) ==
    LET facts == CompiledFacts(cfg)
        Of(d) == {Signature(facts[i]) : i \in {j \in 1..Len(facts) : KeyOf(facts[j]) = <<d, "token">>}}
    IN  Of("input") \cap (Of("cache_read") \cup Of("cache_write")) # {}

\* splitStreamUsageConfig
EventFacts(cfg) == SelectSeq(CompiledFacts(cfg), LAMBDA x : ~(HasRoots(cfg) /\ ReadsUsageRoot(x, TRUE)))
FinalFacts(cfg) == SelectSeq(CompiledFacts(cfg), LAMBDA x : HasRoots(cfg) /\ ReadsUsageRoot(x, TRUE))

NoUsage == [in |-> 0, out |-> 0, read |-> 0, write |-> 0, total |-> 0, flat |-> Empty]
IsZeroUsage(u) == /\ \A f \in {"in", "out", "read", "write", "total"} : u[f] = 0
                  /\ \A id \in DOMAIN u.flat : u.flat[id] \div Unit = 0

\* mergeUsagePreferNonZero: a total only from an event that has both sides, or neither.
MergeUsage(dst, src) ==
    LET Keep(f) == IF src[f] > 0 THEN src[f] ELSE dst[f]
        whole == src.total > 0 /\ (src.in > 0 <=> src.out > 0)
        Flat(id) == IF id \notin DOMAIN src.flat THEN dst.flat[id]
                    ELSE IF id \notin DOMAIN dst.flat THEN src.flat[id]
                    ELSE LET next == src.flat[id] \div Unit
                         IN IF next > 0 \/ dst.flat[id] \div Unit = 0 THEN next * Unit ELSE dst.flat[id]
        total == IF whole THEN src.total ELSE dst.total
    IN  [in |-> Keep("in"), out |-> Keep("out"), read |-> Keep("read"), write |-> Keep("write"),
         total |-> IF total = 0 THEN Keep("in") + Keep("out") ELSE total,
         flat |-> [id \in DOMAIN dst.flat \cup DOMAIN src.flat |-> Flat(id)]]

Aggregator == [usage |-> Missing, root |-> NoObject, fresh |-> 0, finish |-> <<>>]

\* recordFreshInputTokens, mergeUsagePreferNonZero and recomputeMergedInputTokens
Accumulate(a, u, withCache) ==
    LET fresh == IF withCache /\ u.in - u.read - u.write > a.fresh THEN u.in - u.read - u.write ELSE a.fresh
        Refreshed(m) == IF withCache /\ fresh + m.read + m.write > 0
                        THEN [m EXCEPT !.in = fresh + m.read + m.write] ELSE m
    IN  IF IsZeroUsage(u) THEN a
        ELSE [a EXCEPT !.fresh = fresh,
                       !.usage = Found(Refreshed(IF a.usage.ok THEN MergeUsage(a.usage.v, u) ELSE u))]

Recompute(cfg, u) == IF Literal(cfg, "total_tokens_expr") = <<>> THEN [u EXCEPT !.total = u.in + u.out] ELSE u
Recomputed(cfg, a) == IF a.usage.ok THEN [a EXCEPT !.usage.v = Recompute(cfg, @)] ELSE a

\* OnSSEEventDataJSON
OnEvent(meta, cfg, a, e) ==
    LET named == [a EXCEPT !.finish = IF @ = <<>> THEN ExtractFinishReason(cfg, e.name, e.root) ELSE @]
        rooted == [named EXCEPT !.root = MergeRoot(@, ExtractUsageRoot(e.name, e.root, Roots(cfg)), TRUE)]
    IN  IF ~Custom(cfg, "usage_extract") THEN named
        ELSE Recomputed(cfg, Accumulate(rooted, ExtractEventUsage(meta, cfg, EventFacts(cfg), e.name, e.root),
                                        InputIncludesCache(cfg)))

\* Result: applyFinalUsageFacts, then the totals.
Result(meta, cfg, a) ==
    LET u == ProjectUsage(EvaluateFacts("", Sources(meta, NoObject, a.root), TRUE, FinalFacts(cfg)))
        Totals(b) == [usage |-> IF b.usage.ok /\ ~IsZeroUsage(b.usage.v) THEN Found(Recompute(cfg, b.usage.v)) ELSE Missing,
                      finish |-> b.finish]
    IN  Totals(IF FinalFacts(cfg) = <<>> \/ a.root = NoObject THEN a ELSE Accumulate(a, u, InputIncludesCache(cfg)))

AggregateStream(meta, cfg, events) ==
    Result(meta, cfg, FoldLeft(LAMBDA a, e : OnEvent(meta, cfg, a, e), Aggregator, events))
=============================================================================
