------------------------------ MODULE JsonOps ------------------------------
(***************************************************************************)
(* What the rules of a provider file do to a request or a response:        *)
(* json_* operations (json_ops.go, sse_response_ops.go), header operations *)
(* (headers.go) and req_* rules (requestvalidate).  A rule is the record   *)
(* [d |-> operation, a |-> arguments] the parser collected.                *)
(*                                                                         *)
(* meta.vars, meta.body and meta.files feed the expressions (DslExpr),     *)
(* meta.headers holds the client's headers, name to sequence of values,    *)
(* and meta.prices the number variables that are configured.               *)
(***************************************************************************)
EXTENDS DslExpr, JsonValue

(***************************************************************************)
(* Patterns and header values.                                             *)
(***************************************************************************)
\* strings.Split on one atom.
SplitOn(text, atom) ==
    LET Step(st, a) == IF a = atom THEN Append(st, <<>>)
                       ELSE [st EXCEPT ![Len(st)] = Append(@, a)]
    IN  FoldLeft(Step, <<<<>>>>, text)

HasPrefix(text, p) == Len(p) <= Len(text) /\ SubSeq(text, 1, Len(p)) = p
HasSuffix(text, p) == Len(p) <= Len(text) /\ SubSeq(text, Len(text) - Len(p) + 1, Len(text)) = p

\* The first place at or behind from where part stands in text, 0 for none.
IndexFrom(text, part, from) ==
    LET S == {i \in from..Len(text) - Len(part) + 1 : SubSeq(text, i, i + Len(part) - 1) = part}
    IN  IF S = {} THEN 0 ELSE Min(S)

\* wildcardMatch: every part takes its leftmost place behind the part before it.
MatchParts(parts, pattern, value) ==
    LET n == Len(parts)
        Step(pos, part) == IF pos = 0 \/ part = <<>> THEN pos
                           ELSE LET i == IndexFrom(value, part, pos)
                                IN IF i = 0 THEN 0 ELSE i + Len(part)
        pos == FoldLeft(Step, 1 + Len(parts[1]), SubSeq(parts, 2, n - 1))
    IN  IF n = 1 THEN value = pattern
        ELSE /\ HasPrefix(value, parts[1])
             /\ pos # 0
             /\ HasSuffix(value, parts[n])
             /\ pos - 1 <= Len(value) - Len(parts[n])

WildcardMatch(pattern, value) == MatchParts(SplitOn(pattern, "*"), pattern, value)

MatchesAny(value, patterns) == \E i \in 1..Len(patterns) : WildcardMatch(patterns[i], value)

\* splitHeaderValues: blank items are dropped.
SplitHeaderValues(values, sep) ==
    SelectSeq(FlattenSeq([i \in 1..Len(values) |-> SplitOn(values[i], sep[1])]),
              LAMBDA item : item # <<>>)

JoinItems(items, sep) ==
    FlattenSeq([i \in 1..Len(items) |-> IF i = 1 THEN items[i] ELSE sep \o items[i]])

Separator(rule, i) == IF Len(rule.a) >= i THEN rule.a[i] ELSE <<",">>

SetHeader(hdr, name, values) == (name :> values) @@ hdr
DelHeader(hdr, name) == [k \in DOMAIN hdr \ {name} |-> hdr[k]]
HeaderValuesOf(hdr, name) == IF name \in DOMAIN hdr THEN hdr[name] ELSE <<>>

\* applyHeaderValueRule: keep or drop the items that match.
ApplyHeaderValueRule(hdr, name, patterns, sep, keep) ==
    LET values == HeaderValuesOf(hdr, name)
        kept == SelectSeq(SplitHeaderValues(values, sep),
                          LAMBDA item : MatchesAny(item, patterns) = keep)
    IN  IF values = <<>> THEN hdr
        ELSE IF kept = <<>> THEN DelHeader(hdr, name)
        ELSE SetHeader(hdr, name, <<JoinItems(kept, sep)>>)

\* ProviderHeaders.Apply, one operation on the upstream request's headers.
ApplyHeaderOp(meta, hdr, op) ==
    LET name == CASE op.d \in {"bearer_key", "bearer_oauth"} -> <<"Authorization">>
                  [] OTHER -> op.a[1]
        Bearer(v) == SetHeader(hdr, name, <<<<"Bearer ">> \o EvalVariable(v, meta)>>)
    IN  CASE op.d = "bearer_key" -> Bearer("channel.key")
          [] op.d = "bearer_oauth" -> Bearer("oauth.access_token")
          [] op.d = "header_key" -> SetHeader(hdr, name, <<EvalVariable("channel.key", meta)>>)
          [] op.d = "header_set" -> SetHeader(hdr, name, <<EvalStringExpr(op.a[2], meta, FALSE).v>>)
          [] op.d = "header_del" -> DelHeader(hdr, name)
          [] op.d = "header_pass" ->
                IF HeaderValuesOf(meta.headers, name) = <<>> THEN hdr
                ELSE SetHeader(hdr, name, meta.headers[name])
          [] op.d \in {"header_filter_values", "header_keep_values"} ->
                ApplyHeaderValueRule(hdr, name, op.a[2], Separator(op, 3), op.d = "header_keep_values")

(***************************************************************************)
(* JSON operations.  Each gives the new document, whether it reports a     *)
(* change (max_count counts those) and whether it failed.                  *)
(***************************************************************************)
Done(v, changed) == [v |-> v, changed |-> changed, err |-> FALSE]
OpFailed(v) == [v |-> v, changed |-> FALSE, err |-> TRUE]

\* The document with x at the path; objects are made on the way.
RECURSIVE PutAt(_, _, _)
PutAt(v, ks, x) ==
    IF Len(ks) = 1 THEN Obj((ks[1] :> x) @@ v.f)
    ELSE LET child == IF Has(v, ks[1]) /\ v.f[ks[1]].t = "obj" THEN v.f[ks[1]] ELSE Obj(NoFields)
         IN  Obj((ks[1] :> PutAt(child, Tail(ks), x)) @@ v.f)

RECURSIVE DropAt(_, _)
DropAt(v, ks) == IF Len(ks) = 1 THEN Obj([k \in DOMAIN v.f \ {ks[1]} |-> v.f[k]])
                 ELSE Obj([v.f EXCEPT ![ks[1]] = DropAt(@, Tail(ks))])

JsonSet(root, path, x) == LET r == PutAt(root, Tail(path), x) IN Done(r, r # root)

JsonReplace(root, path, x) ==
    IF JsonGet(root, path).ok THEN JsonSet(root, path, x) ELSE Done(root, FALSE)

JsonDel(root, path) == IF JsonGet(root, path).ok THEN Done(DropAt(root, Tail(path)), TRUE)
                       ELSE Done(root, FALSE)

\* jsonRename takes the value out before it looks for its new place.
JsonRename(root, from, to) ==
    LET r == JsonGet(root, from) IN
    IF ~r.ok THEN Done(root, FALSE)
    ELSE Done(PutAt(DropAt(root, Tail(from)), Tail(to), r.v), TRUE)

JsonWrapInputText(root, path) ==
    LET r == JsonGet(root, path) IN
    IF ~r.ok THEN Done(root, FALSE)
    ELSE IF r.v.t = "str"
         THEN JsonSet(root, path, Arr(<<Obj("role" :> Str(<<"user">>) @@ "content" :>
                  Arr(<<Obj("type" :> Str(<<"input_text">>) @@ "text" :> r.v)>>))>>))
    ELSE IF r.v.t \in {"arr", "strs"} THEN Done(root, FALSE)
    ELSE OpFailed(root)

\* stringSliceValue: an array of strings only.
IsStringSlice(v) == v.t = "strs" \/ (v.t = "arr" /\ \A i \in 1..Len(v.e) : v.e[i].t = "str")
StringSlice(v) == IF v.t = "strs" THEN v.l ELSE [i \in 1..Len(v.e) |-> v.e[i].s]

\* jsonApplyValueFilter: json_filter_values and json_keep_values both keep what matches.
JsonFilterValues(root, path, patterns) ==
    LET r == JsonGet(root, path) IN
    IF ~r.ok THEN Done(root, FALSE)
    ELSE IF ~IsStringSlice(r.v) THEN OpFailed(root)
    ELSE LET kept == SelectSeq(StringSlice(r.v), LAMBDA s : MatchesAny(s, patterns))
         IN  IF kept = <<>> THEN JsonDel(root, path)
             ELSE IF kept = StringSlice(r.v) THEN Done(root, FALSE)
             ELSE Done(PutAt(root, Tail(path), Strs(kept)), TRUE)

JsonObjectFieldMatches(v, field, patterns) ==
    Has(v, field) /\ v.f[field].t = "str" /\ MatchesAny(v.f[field].s, patterns)

JsonDelWithCondition(root, path, field, patterns) ==
    LET r == JsonGet(root, path)
        left == SelectSeq(r.v.e, LAMBDA x : ~JsonObjectFieldMatches(x, field, patterns))
    IN  IF ~r.ok THEN Done(root, FALSE)
        ELSE IF r.v.t = "obj"
             THEN IF JsonObjectFieldMatches(r.v, field, patterns) THEN JsonDel(root, path)
                  ELSE Done(root, FALSE)
        ELSE IF r.v.t # "arr" \/ Len(left) = Len(r.v.e) THEN Done(root, FALSE)
        ELSE IF left = <<>> THEN JsonDel(root, path)
        ELSE Done(PutAt(root, Tail(path), Arr(left)), TRUE)

JsonMapValue(root, path, from, x) ==
    IF JsonGet(root, path) = Found(Str(from)) THEN JsonSet(root, path, x) ELSE Done(root, FALSE)

JsonClamp(root, path, lo, hi) ==
    LET r == JsonGet(root, path)
        n == CoerceFloat(r.v)
    IN  IF ~r.ok \/ ~CoerceFloatOK(r.v) THEN Done(root, FALSE)
        ELSE JsonSet(root, path, Num(IF n < lo THEN lo ELSE IF n > hi THEN hi ELSE n))

\* evalJSONValueExpr
EvalJSONValueExpr(meta, e) ==
    IF e = <<>> THEN Found(Str(<<>>))
    ELSE IF Len(e) = 1 /\ e[1].k = "ident" /\ e[1].t \in {<<"true">>, <<"false">>}
         THEN Found(Bool(e[1].t = <<"true">>))
    ELSE IF Len(e) = 1 /\ e[1].k = "ident" /\ e[1].t = <<"null">> THEN Found(Null)
    ELSE IF IsQuoted(e) THEN Found(Str(Text(e)))
    ELSE IF IsNumberLiteral(e) THEN Found(IntVal(e[1].n))
    ELSE IF IsVariable(e, NumberVariables)
         THEN IF e[2].t[1] \in DOMAIN meta.prices THEN Found(Num(meta.prices[e[2].t[1]])) ELSE Missing
    ELSE Found(Str(EvalStringExpr(e, meta, FALSE).v))

\* The operations that put a value: x is the value, or Missing.
PutOps == {"json_set", "json_replace", "json_set_if_absent", "json_map_value"}
PutOp(root, op, x) ==
    IF op.d = "json_set_if_absent" /\ JsonGet(root, op.a[1]).ok THEN Done(root, FALSE)
    ELSE IF ~x.ok THEN OpFailed(root)
    ELSE CASE op.d \in {"json_set", "json_set_if_absent"} -> JsonSet(root, op.a[1], x.v)
           [] op.d = "json_replace"   -> JsonReplace(root, op.a[1], x.v)
           [] op.d = "json_map_value" -> JsonMapValue(root, op.a[1], op.a[2], x.v)

ApplyJSONOp(meta, root, op) ==
    LET a == op.a
        items == SplitHeaderValues(HeaderValuesOf(meta.headers, a[2]), Separator(op, 3))
    IN  CASE op.d \in PutOps ->
                PutOp(root, op, EvalJSONValueExpr(meta, IF op.d = "json_map_value" THEN a[3] ELSE a[2]))
          [] op.d = "json_del" -> JsonDel(root, a[1])
          [] op.d = "json_del_if_missing" ->
                IF JsonGet(root, a[2]).ok THEN Done(root, FALSE) ELSE JsonDel(root, a[1])
          [] op.d = "json_rename" -> JsonRename(root, a[1], a[2])
          [] op.d = "json_wrap_input_text" -> JsonWrapInputText(root, a[1])
          [] op.d = "json_set_header_values" ->
                IF items = <<>> THEN Done(root, FALSE) ELSE JsonSet(root, a[1], Strs(items))
          [] op.d \in {"json_filter_values", "json_keep_values"} -> JsonFilterValues(root, a[1], a[2])
          [] op.d = "json_del_with_condition" -> JsonDelWithCondition(root, a[1], a[2][1], a[3])
          [] op.d = "json_clamp" -> JsonClamp(root, a[1], a[2]["min"].n, a[2]["max"].n)

(***************************************************************************)
(* The operations in order.  opts are event=, event_optional= and          *)
(* max_count= of a response rule; counts says how often each rule changed  *)
(* a document so far, across the events of a stream.                       *)
(***************************************************************************)
OptsOf(op) ==
    CASE op.d \in {"json_set", "json_replace", "json_set_if_absent", "json_rename"} /\ Len(op.a) = 3 -> op.a[3]
      [] op.d = "json_del" /\ Len(op.a) = 2 -> op.a[2]
      [] OTHER -> NoFields

\* matchesUsageEvent; the text of the option is the names, "|" dropped.
MatchesUsageEvent(event, expected, optional) ==
    \/ expected = <<>>
    \/ event = "" /\ optional
    \/ \E i \in 1..Len(expected) : expected[i] = event

OptText(o, k) == IF k \in DOMAIN o THEN o[k].t ELSE <<>>
OptOn(o, k) == OptText(o, k) = <<"true">>

ShouldSkipJSONOp(event, op, count) ==
    LET o == OptsOf(op) IN
    \/ ~MatchesUsageEvent(event, OptText(o, "event"), OptOn(o, "event_optional"))
    \/ "max_count" \in DOMAIN o /\ o["max_count"].n > 0 /\ count >= o["max_count"].n

Noted(st, i, r) == [v |-> r.v, err |-> r.err,
                    counts |-> IF r.changed THEN [st.counts EXCEPT ![i] = @ + 1] ELSE st.counts]
ApplyOps(meta, root, ops, event, counts) ==
    LET Step(st, i) ==
            IF st.err \/ ShouldSkipJSONOp(event, ops[i], st.counts[i]) THEN st
            ELSE Noted(st, i, ApplyJSONOp(meta, st.v, ops[i]))
    IN  FoldLeft(Step, [v |-> root, err |-> FALSE, counts |-> counts],
                 [i \in 1..Len(ops) |-> i])

ApplyJSONOps(meta, root, ops) == ApplyOps(meta, root, ops, "", [i \in 1..Len(ops) |-> 0])

\* applySSEJSONDelIf, before the operations of every event.
ApplySSEJSONDelIf(root, rules) ==
    LET Step(v, r) == IF JsonGet(v, r.a[1]) = Found(Str(r.a[2])) THEN JsonDel(v, r.a[3]).v ELSE v
    IN  FoldLeft(Step, root, rules)

(***************************************************************************)
(* requestvalidate.Validate: the first rule that fails decides.  root is   *)
(* Missing when the body is not a JSON object.                             *)
(***************************************************************************)
LookupRule(rule, root, hdr, query) ==
    LET name == rule.a[2]
        First(m) == IF HeaderValuesOf(m, name) = <<>> THEN Missing ELSE Found(Str(m[name][1]))
    IN  CASE rule.a[1] = <<"body">> -> JsonGet(root.v, name)
          [] rule.a[1] = <<"header">> -> First(hdr)
          [] rule.a[1] = <<"query">> -> First(query)

JsonTypeMatches(v, type) ==
    CASE type \in {"number", "integer"} -> v.t = "num"
      [] type = "string" -> v.t = "str"
      [] type = "array" -> v.t = "arr"
      [] type = "object" -> v.t = "obj"
      [] type \in {"bool", "null"} -> v.t = type

InRange(n, o) == /\ "min" \in DOMAIN o => n >= o["min"].n
                 /\ "max" \in DOMAIN o => n <= o["max"].n

CheckLen(v, o) == \/ v.t = "str" /\ InRange(Len(v.s), o)
                  \/ v.t = "arr" /\ InRange(Len(v.e), o)

CheckRange(v, o) == v.t \in {"num", "str"} /\ CoerceFloatOK(v) /\ InRange(CoerceFloat(v), o)

\* compileReqRuleEnum and bodyEnumMatches: typed literals in a body, text elsewhere.
EnumMatches(rule, v) ==
    \E i \in 1..Len(rule.a[3]) :
        LET lit == rule.a[3][i] IN
        IF rule.a[1] # <<"body">> THEN v = Str(lit.t)
        ELSE IF lit.k = "string" THEN v = Str(lit.t)
        ELSE IF lit.k = "number" THEN v = Num(lit.n)
        ELSE IF lit.t = <<"null">> THEN v = Null
        ELSE v = Bool(lit.t = <<"true">>)

RulePasses(rule, root, hdr, query) ==
    LET r == LookupRule(rule, root, hdr, query)
        o == rule.a[3]
    IN  IF rule.a[1] = <<"body">> /\ ~root.ok THEN FALSE
        ELSE CASE rule.d = "required" ->
                    r.ok /\ (r.v = Null /\ rule.a[1] = <<"body">> => OptOn(o, "allow_null"))
               [] rule.d = "forbid" -> ~r.ok
               [] rule.d = "type" -> r.ok => JsonTypeMatches(r.v, o[1].t[1])
               [] rule.d = "range" -> r.ok => CheckRange(r.v, o)
               [] rule.d = "len" -> r.ok => CheckLen(r.v, o)
               [] rule.d = "enum" -> r.ok => EnumMatches(rule, r.v)

\* The number of the first rule that fails, 0 when all pass.
Validate(rules, root, hdr, query) ==
    SelectInSeq(rules, LAMBDA rule : ~RulePasses(rule, root, hdr, query))
=============================================================================
