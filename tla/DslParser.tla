----------------------------- MODULE DslParser -----------------------------
(***************************************************************************)
(* The recursive-descent parser of a provider file (dslconfig/parse_*.go). *)
(* The scanner's tokens are the input, white space and comments dropped.   *)
(* The Go call stack is the variable stack, one frame per open block, and  *)
(* every step handles one statement of the innermost block.                *)
(*                                                                         *)
(* Each statement handler of the Go code is one definition below: a record *)
(* that names the form of the statement (how its tokens are consumed) and  *)
(* what it does to the configuration of the block it stands in.  A scope's *)
(* configuration is a function from field names to values: "set" fields    *)
(* keep the last value, "add" fields collect a sequence, "put" fields map  *)
(* a name to a value, "once" fields refuse a second value.                 *)
(***************************************************************************)
EXTENDS DslExpr, JsonValue, FiniteSets

CONSTANTS Files    \* the token sequences to parse

VARIABLES toks,    \* the file
          pos,     \* scanner position
          stack,   \* open blocks, innermost last
          scopes,  \* configurations: defaults, balance, models, observability, then
                   \* one per match block
          header,  \* api and stream of each match block
          modes,   \* <<kind, name>> to configuration: the presets of the file
          outcome  \* "parsing", "parsed" or "rejected"

pvars == <<toks, pos, stack, scopes, header, modes, outcome>>

At(p, k) == p <= Len(toks) /\ toks[p].k = k
IsWord(p) == At(p, "ident") \/ At(p, "string")
Eq(p) == p <= Len(toks) /\ IsPunct(toks[p], "=")
Word(p) == toks[p].t
\* The first token of the kind at p or later, 0 when there is none.
NextOf(p, k) == LET S == {i \in p..Len(toks) : toks[i].k = k} IN IF S = {} THEN 0 ELSE Min(S)

Ok(p, a) == [ok |-> TRUE, p |-> p, a |-> a]
Bad == [ok |-> FALSE, p |-> 0, a |-> <<>>]

(***************************************************************************)
(* The statement forms.  Each takes the position behind the directive and  *)
(* gives the position behind the statement and its arguments.              *)
(***************************************************************************)
\* consumeSemicolon
NoArgs(p) == IF At(p, ";") THEN Ok(p + 1, <<>>) ELSE Bad

\* parseModeArgStmt
ModeArg(p) == IF IsWord(p) /\ At(p + 1, ";") /\ Word(p) # <<>> THEN Ok(p + 2, <<Word(p)>>) ELSE Bad

\* consumeExprUntilSemicolon: whatever stands before the semicolon.
Expr(p) == IF NextOf(p, ";") = 0 THEN Bad
           ELSE Ok(NextOf(p, ";") + 1, <<SubSeq(toks, p, NextOf(p, ";") - 1)>>)

\* consumeExprUntilSemicolonWithFirst: the first token is taken unseen.
ExprWithFirst(p) == IF p > Len(toks) \/ NextOf(p + 1, ";") = 0 THEN Bad
                    ELSE Ok(NextOf(p + 1, ";") + 1, <<SubSeq(toks, p, NextOf(p + 1, ";") - 1)>>)

\* parseBalanceFieldStmt and its kin: no '=' between name and value.
Field(p) == IF Eq(p) THEN Bad ELSE ExprWithFirst(p)

Assign(p) == IF Eq(p) THEN Expr(p + 1) ELSE Bad

Names(n, p) == IF (\A i \in 0..n - 1 : IsWord(p + i)) /\ At(p + n, ";")
               THEN Ok(p + n + 1, [i \in 1..n |-> Word(p + i - 1)]) ELSE Bad

NameExpr(p) == IF IsWord(p) /\ Expr(p + 1).ok
               THEN Ok(Expr(p + 1).p, <<Word(p)>> \o Expr(p + 1).a) ELSE Bad

\* Names followed by patterns, and (sep) by an optional separator="...".
Patterns(n, sep, p) ==
    LET s == NextOf(p + n, ";")
        tail == sep /\ s - 3 >= p + n /\ At(s - 3, "ident") /\ Word(s - 3) = <<"separator">>
        last == IF tail THEN s - 4 ELSE s - 1
    IN  IF /\ s # 0
           /\ \A i \in p..last : IsWord(i)
           /\ last >= p + n
           /\ tail => Eq(s - 2) /\ At(s - 1, "string")
        THEN Ok(s + 1, [i \in 1..n |-> Word(p + i - 1)] \o
                       <<[i \in 1..last - p - n + 1 |-> Word(p + n + i - 1)]>> \o
                       (IF tail THEN <<Word(s - 1)>> ELSE <<>>))
        ELSE Bad

\* consumeDirectiveOptions: key=value pairs until the semicolon; n leading names.
OptionsAt(p, s) == {i \in p..s - 1 : (i - p) % 3 = 0}
Options(n, keys, p) ==
    LET s == NextOf(p + n, ";")
        q == p + n
    IN  IF /\ s # 0
           /\ \A i \in p..q - 1 : IsWord(i) /\ Word(i) # <<>>
           /\ (s - q) % 3 = 0
           /\ \A i \in OptionsAt(q, s) :
                 /\ At(i, "ident") /\ Word(i)[1] \in keys
                 /\ Eq(i + 1)
                 /\ IsWord(i + 2) \/ At(i + 2, "number")
        THEN Ok(s + 1, [i \in 1..n |-> Word(p + i - 1)] \o
                       <<[k \in {Word(i)[1] : i \in OptionsAt(q, s)} |->
                            toks[Max({i \in OptionsAt(q, s) : Word(i)[1] = k}) + 2]]>>)
        ELSE Bad

\* The value of an option, the empty text when it was not given.
Opt(o, k) == IF k \in DOMAIN o THEN o[k].t ELSE <<>>

(***************************************************************************)
(* The handlers.  f is the field of the scope, how the effect on it, d the *)
(* operation an "add" field records.                                       *)
(***************************************************************************)
Handler(form, how, f, d) == [form |-> form, how |-> how, f |-> f, d |-> d]

ParseAuthBearerStmt == Handler("none", "add", "auth", "bearer_key")
ParseAuthOAuthBearerStmt == Handler("none", "add", "auth", "bearer_oauth")
ParseAuthHeaderKeyStmt == Handler("name", "add", "auth", "header_key")
ParseAuthSigV4BedrockStmt == Handler("none", "set", "aws_sigv4", "sigv4")
OAuthMode == Handler("mode", "set", "oauth_mode", "")
ParseOAuthExprStmt(f) == Handler("expr", "set", f, "")
ParseOAuthLiteralStmt(f) == Handler("field", "set", f, "")
ParseOAuthMethodStmt == Handler("value", "set", "oauth_method", "")
ParseOAuthContentTypeStmt == Handler("value", "set", "oauth_content_type", "")
ParseOAuthIntStmt(f) == Handler("int", "set", f, "")
ParseOAuthFormStmt == Handler("named_expr", "add", "oauth_form", "form")

OAuthExprFields == {"oauth_token_url", "oauth_client_id", "oauth_client_secret",
                    "oauth_refresh_token", "oauth_scope", "oauth_audience"}
OAuthLiteralFields == {"oauth_token_path", "oauth_expires_in_path", "oauth_token_type_path"}
OAuthIntFields == {"oauth_timeout_ms", "oauth_refresh_skew_sec", "oauth_fallback_ttl_sec"}

AuthPhase ==
    "auth_bearer" :> ParseAuthBearerStmt @@ "auth_oauth_bearer" :> ParseAuthOAuthBearerStmt @@
    "auth_header_key" :> ParseAuthHeaderKeyStmt @@ "auth_sigv4_bedrock" :> ParseAuthSigV4BedrockStmt @@
    "oauth_mode" :> OAuthMode @@ "oauth_form" :> ParseOAuthFormStmt @@
    "oauth_method" :> ParseOAuthMethodStmt @@ "oauth_content_type" :> ParseOAuthContentTypeStmt @@
    [f \in OAuthExprFields |-> ParseOAuthExprStmt(f)] @@
    [f \in OAuthLiteralFields |-> ParseOAuthLiteralStmt(f)] @@
    [f \in OAuthIntFields |-> ParseOAuthIntStmt(f)]

ParseSetHeaderStmt == Handler("name_expr", "add", "request", "header_set")
ParseDelHeaderStmt == Handler("name", "add", "request", "header_del")
ParsePassHeaderStmt == Handler("name", "add", "request", "header_pass")
ParseFilterHeaderValuesStmt == Handler("patterns_sep", "add", "request", "header_filter_values")
ParseKeepHeaderValuesStmt == Handler("patterns_sep", "add", "request", "header_keep_values")
ParseModelMapStmt == Handler("name_expr", "put", "model_map", "")
ParseModelMapDefaultStmt == Handler("expr", "set", "model_map_default", "")
ParseJSONSetStmt(d) == Handler("name_expr", "add", "ops", d)
ParseJSONDelStmt == Handler("name", "add", "ops", "json_del")
ParseJSONDelIfMissingStmt == Handler("name2", "add", "ops", "json_del_if_missing")
ParseJSONRenameStmt == Handler("name2", "add", "ops", "json_rename")
ParseJSONWrapInputTextStmt == Handler("name", "add", "ops", "json_wrap_input_text")
ParseJSONSetHeaderValuesStmt == Handler("header_values", "add", "ops", "json_set_header_values")
ParseJSONFilterValuesStmt == Handler("patterns", "add", "ops", "json_filter_values")
ParseJSONKeepValuesStmt == Handler("patterns", "add", "ops", "json_keep_values")
ParseJSONDelWithConditionStmt == Handler("patterns2", "add", "ops", "json_del_with_condition")
ParseJSONMapValueStmt == Handler("map_value", "addall", "ops", "json_map_value")
ParseJSONClampStmt == Handler("clamp", "add", "ops", "json_clamp")
ParseReqInlineFileStmt == Handler("inline_file", "add", "inline_files", "req_inline_file")
ParseRequestMapStmt == Handler("mode", "set", "req_map", "")
ParseReqRequiredStmt == Handler("rule_required", "add", "rules", "required")
ParseReqForbidStmt == Handler("rule_forbid", "add", "rules", "forbid")
ParseReqTypeStmt == Handler("rule_type", "add", "rules", "type")
ParseReqRangeStmt == Handler("rule_range", "add", "rules", "range")
ParseReqLenStmt == Handler("rule_range", "add", "rules", "len")
ParseReqEnumStmt == Handler("rule_enum", "add", "rules", "enum")

\* parseRequestJSONOpsOnlyBlock: the statements of after_req_map.
JSONOpsOnly ==
    [d \in {"json_set", "json_replace", "json_set_if_absent"} |-> ParseJSONSetStmt(d)] @@
    "json_del" :> ParseJSONDelStmt @@ "json_del_if_missing" :> ParseJSONDelIfMissingStmt @@
    "json_rename" :> ParseJSONRenameStmt @@ "json_wrap_input_text" :> ParseJSONWrapInputTextStmt @@
    "json_set_header_values" :> ParseJSONSetHeaderValuesStmt @@
    "json_filter_values" :> ParseJSONFilterValuesStmt @@ "json_keep_values" :> ParseJSONKeepValuesStmt @@
    "json_del_with_condition" :> ParseJSONDelWithConditionStmt

RequestPhaseHandlers ==
    "set_header" :> ParseSetHeaderStmt @@ "del_header" :> ParseDelHeaderStmt @@
    "pass_header" :> ParsePassHeaderStmt @@
    "filter_header_values" :> ParseFilterHeaderValuesStmt @@
    "keep_header_values" :> ParseKeepHeaderValuesStmt @@
    "model_map" :> ParseModelMapStmt @@ "model_map_default" :> ParseModelMapDefaultStmt @@
    JSONOpsOnly @@
    "json_map_value" :> ParseJSONMapValueStmt @@ "json_clamp" :> ParseJSONClampStmt @@
    "req_inline_file" :> ParseReqInlineFileStmt @@ "req_map" :> ParseRequestMapStmt @@
    "req_required" :> ParseReqRequiredStmt @@ "req_forbid" :> ParseReqForbidStmt @@
    "req_type" :> ParseReqTypeStmt @@ "req_range" :> ParseReqRangeStmt @@
    "req_len" :> ParseReqLenStmt @@ "req_enum" :> ParseReqEnumStmt

ParseRespPassthrough == Handler("none", "resp_op", "resp", "resp_passthrough")
ParseRespMap == Handler("mode", "resp_op", "resp", "resp_map")
ParseSSEParse == Handler("mode", "resp_op", "resp", "sse_parse")
ParseSSECollect == Handler("mode", "set", "sse_collect", "")
ParseRespJSONSetStmt(d) == Handler("name_expr_opts", "add", "resp_ops", d)
ParseRespJSONDelStmt == Handler("name_opts", "add", "resp_ops", "json_del")
ParseRespJSONRenameStmt == Handler("name2_opts", "add", "resp_ops", "json_rename")
ParseSSEJSONDelIfStmt == Handler("del_if", "add", "sse_del_if", "sse_json_del_if")
ParseRespBodyExtractStmt == Handler("body_extract", "set", "body_extract", "")
ParseRespContentTypeStmt == Handler("content_type", "set", "content_type", "")
ParseSSEBinaryExtractStmt == Handler("binary_extract", "set", "binary_extract", "")
ParseRespInlineURLStmt == Handler("inline_url", "set", "inline_url", "")

ResponsePhase ==
    "resp_passthrough" :> ParseRespPassthrough @@ "resp_map" :> ParseRespMap @@
    "sse_parse" :> ParseSSEParse @@ "sse_collect" :> ParseSSECollect @@
    [d \in {"json_set", "json_replace", "json_set_if_absent"} |-> ParseRespJSONSetStmt(d)] @@
    "json_del" :> ParseRespJSONDelStmt @@ "json_rename" :> ParseRespJSONRenameStmt @@
    "sse_json_del_if" :> ParseSSEJSONDelIfStmt @@ "resp_body_extract" :> ParseRespBodyExtractStmt @@
    "resp_content_type" :> ParseRespContentTypeStmt @@
    "sse_binary_extract" :> ParseSSEBinaryExtractStmt @@ "resp_inline_url" :> ParseRespInlineURLStmt

ErrorMap == Handler("error_mode", "set", "error_map", "")
ParseErrorWhenStmt == Handler("error_when", "add", "error_when", "error_when")
ErrorPhase == "error_map" :> ErrorMap @@ "error_when" :> ParseErrorWhenStmt

ParseUsageExtractStmt == Handler("mode", "once", "usage_extract", "")
ParseFinishReasonExtractStmt == Handler("mode", "once", "finish_reason_extract", "")
ParseUsageFactStmt == Handler("fact", "add", "facts", "usage_fact")
ParseUsageRootStmt == Handler("root", "add", "roots", "usage_root")
ParseUsageExtractAssignStmt(f) == Handler("usage_expr", "set", f, "")
ParseUsageExtractFieldStmt(f) == Handler("field", "set", f, "")
ParseFinishReasonPathStmt == Handler("finish_path", "add", "finish_paths", "finish_reason_path")

TokenExprs == {"input_tokens_expr", "output_tokens_expr", "cache_read_tokens_expr",
               "cache_write_tokens_expr", "total_tokens_expr"}
TokenPaths == {"input_tokens_path", "output_tokens_path", "cache_read_tokens_path",
               "cache_write_tokens_path"}

MetricsPhase ==
    "usage_extract" :> ParseUsageExtractStmt @@ "usage_fact" :> ParseUsageFactStmt @@
    "usage_root" :> ParseUsageRootStmt @@
    [f \in TokenExprs |-> ParseUsageExtractAssignStmt(f)] @@
    [f \in TokenPaths |-> ParseUsageExtractFieldStmt(f)] @@
    "finish_reason_extract" :> ParseFinishReasonExtractStmt @@
    "finish_reason_path" :> ParseFinishReasonPathStmt

ParseBalanceFieldStmt(f) == Handler("field", "set", f, "")
BalancePhase ==
    "balance_mode" :> Handler("mode", "set", "balance_mode", "") @@
    [f \in {"method", "path", "balance_path", "used_path", "balance_unit",
            "subscription_path", "usage_path"} |-> ParseBalanceFieldStmt(f)] @@
    [f \in {"balance_expr", "used_expr"} |-> Handler("assign", "set", f, "")] @@
    "set_header" :> ParseSetHeaderStmt @@ "del_header" :> ParseDelHeaderStmt

ModelsPhase ==
    "models_mode" :> Handler("mode", "set", "models_mode", "") @@
    [f \in {"method", "path", "id_regex", "id_allow_regex"} |-> ParseBalanceFieldStmt(f)] @@
    "id_path" :> Handler("field", "add", "id_paths", "id_path") @@
    "set_header" :> ParseSetHeaderStmt @@ "del_header" :> ParseDelHeaderStmt

ParseDirectiveSetPathStmt == Handler("set_path", "set", "set_path", "")
ParseDirectiveSetQueryStmt == Handler("name_expr", "put", "query", "")
ParseDirectiveDelQueryStmt == Handler("name", "add", "query_dels", "del_query")
UpstreamPhase == "set_path" :> ParseDirectiveSetPathStmt @@ "set_query" :> ParseDirectiveSetQueryStmt @@
                 "del_query" :> ParseDirectiveDelQueryStmt

UpstreamConfigBlock == "base_url" :> Handler("assign", "set", "base_url", "") @@
                       "transport" :> Handler("mode", "set", "transport", "")

ParseUpstreamRequestIDHeaders == Handler("strings", "once", "request_id", "")
ParseUpstreamRequestIDJSONPath == Handler("string", "once", "request_id_json", "")
ObservabilityBlock == "upstream_request_id" :> ParseUpstreamRequestIDHeaders @@
                      "upstream_request_id_json" :> ParseUpstreamRequestIDJSONPath

\* The blocks of the presets know the statements of the phase they stand for.
FinishReasonModeBlock == Restrict(MetricsPhase, {"finish_reason_extract", "finish_reason_path"})
UsageModeBlock == Restrict(MetricsPhase, DOMAIN MetricsPhase \ DOMAIN FinishReasonModeBlock)
BalanceModeBlock == BalancePhase
ModelsModeBlock == ModelsPhase

Statements == [upstream_config |-> UpstreamConfigBlock, upstream |-> UpstreamPhase,
               auth |-> AuthPhase, request |-> RequestPhaseHandlers, after_req_map |-> JSONOpsOnly,
               response |-> ResponsePhase, error |-> ErrorPhase, metrics |-> MetricsPhase,
               balance |-> BalancePhase, models |-> ModelsPhase,
               observability |-> ObservabilityBlock,
               usage_mode |-> UsageModeBlock, finish_reason_mode |-> FinishReasonModeBlock,
               balance_mode |-> BalanceModeBlock, models_mode |-> ModelsModeBlock]

\* Directives that were removed from the language end the parse.
Removed == [request |-> {"header_set", "header_del", "proxy_set_header"},
            upstream |-> {"query_set"}, balance |-> {"used"},
            metrics |-> {"input_tokens", "output_tokens", "cache_read_tokens",
                         "cache_write_tokens", "total_tokens"}]

\* buildPhaseDispatch: the blocks that may stand in a block.
Blocks == [provider |-> {"defaults", "match", "observability"},
           defaults |-> {"upstream_config", "auth", "request", "response", "error", "metrics",
                         "balance", "models"},
           match |-> {"upstream", "auth", "request", "response", "error", "metrics"},
           request |-> {"after_req_map"}]

(***************************************************************************)
(* The forms that check their arguments while they parse.                  *)
(***************************************************************************)
Checked(r, good) == IF r.ok /\ good THEN r ELSE Bad

Number(o, k, default) == IF k \in DOMAIN o THEN o[k].n ELSE default
IsNumber(o, k) == k \in DOMAIN o => o[k].k = "number"
InBounds(o, k, hi) == k \in DOMAIN o => o[k].k = "number" /\ o[k].n \in 1..hi

\* json_clamp: both bounds, in order.
Clamp(p) == LET r == Options(1, {"min", "max"}, p) IN
    Checked(r, /\ {"min", "max"} \subseteq DOMAIN r.a[2]
               /\ IsNumber(r.a[2], "min") /\ IsNumber(r.a[2], "max")
               /\ r.a[2]["min"].n <= r.a[2]["max"].n)

\* json_map_value <path> "<from>" <to>;  or  json_map_value <path> { "<from>" <to>; ... }
MapEntry(p) == IF At(p, "string") THEN Checked(Expr(p + 1), Expr(p + 1).a # <<<<>>>>) ELSE Bad
MapValue(p) ==
    LET Entries[q \in p..Len(toks) + 1] ==
            IF At(q, "}") THEN Ok(q + 1, <<>>)
            ELSE IF ~MapEntry(q).ok THEN Bad
            ELSE LET rest == Entries[MapEntry(q).p]
                 IN Checked(Ok(rest.p, <<<<Word(p), Word(q), MapEntry(q).a[1]>>>> \o rest.a), rest.ok)
    IN  IF ~IsWord(p) THEN Bad
        ELSE IF At(p + 1, "{") THEN Checked(Entries[p + 2], Entries[p + 2].a # <<>>)
        ELSE IF ~MapEntry(p + 1).ok THEN Bad
        ELSE Ok(MapEntry(p + 1).p, <<<<Word(p), Word(p + 1), MapEntry(p + 1).a[1]>>>>)

\* json_set_header_values <path> <header> [separator="..."];
HeaderValues(p) ==
    IF Names(2, p).ok THEN Names(2, p)
    ELSE IF /\ IsWord(p) /\ IsWord(p + 1)
            /\ At(p + 2, "ident") /\ Word(p + 2) = <<"separator">>
            /\ Eq(p + 3) /\ At(p + 4, "string") /\ At(p + 5, ";")
         THEN Ok(p + 6, <<Word(p), Word(p + 1), Word(p + 4)>>)
    ELSE Bad

\* sse_json_del_if <cond-path> "<equals>" <del-path>;
DelIf(p) == Checked(Names(3, p), At(p + 1, "string"))

\* firstRespJSONOptionIndex: event=, event_optional= or max_count= ends the expression.
RespOptionKeys == {"event", "event_optional", "max_count"}
RespOptionStart(p, s) ==
    LET S == {i \in p..s - 2 : At(i, "ident") /\ Word(i)[1] \in RespOptionKeys /\ Eq(i + 1)}
    IN  IF S = {} THEN s ELSE Min(S)
RespOptions(p) == LET r == Options(0, RespOptionKeys, p) IN
    Checked(r, /\ IsNumber(r.a[1], "max_count")
               /\ "event_optional" \in DOMAIN r.a[1] =>
                      r.a[1]["event_optional"].t \in {<<"true">>, <<"false">>})
NameExprOptions(p) ==
    LET s == NextOf(p + 1, ";")
        o == RespOptionStart(p + 1, s)
    IN  IF IsWord(p) /\ s # 0 /\ o > p + 1 /\ RespOptions(o).ok
        THEN Ok(s + 1, <<Word(p), SubSeq(toks, p + 1, o - 1), RespOptions(o).a[1]>>) ELSE Bad
NamesOptions(n, p) ==
    IF (\A i \in 0..n - 1 : IsWord(p + i)) /\ RespOptions(p + n).ok
    THEN Ok(RespOptions(p + n).p, [i \in 1..n |-> Word(p + i - 1)] \o RespOptions(p + n).a) ELSE Bad

DecodeModes == {<<"hex">>, <<"base64">>}
BodyExtract(p) == LET r == Options(0, {"path", "decode"}, p) IN
    Checked(r, Opt(r.a[1], "path") # <<>> /\ Opt(r.a[1], "decode") \in DecodeModes)
ContentType(p) == LET r == Options(0, {"from_path", "kind", "default"}, p) IN
    Checked(r, /\ Opt(r.a[1], "from_path") # <<>> \/ Opt(r.a[1], "default") # <<>>
               /\ Opt(r.a[1], "kind") = <<"audio">>)
BinaryExtract(p) == LET r == Options(0, {"path", "decode", "stop_path", "stop_eq"}, p) IN
    Checked(r, /\ Opt(r.a[1], "path") # <<>>
               /\ Opt(r.a[1], "decode") \in DecodeModes
               /\ Opt(r.a[1], "stop_path") = <<>> <=> Opt(r.a[1], "stop_eq") = <<>>)
ErrorWhen(p) == LET r == Options(0, {"path", "eq", "ne", "status"}, p) IN
    Checked(r, /\ Opt(r.a[1], "path") # <<>>
               /\ Cardinality(DOMAIN r.a[1] \cap {"eq", "ne"}) = 1
               /\ IsNumber(r.a[1], "status")
               /\ Number(r.a[1], "status", 400) \in 400..599)

InlineMaxBytes == 67108864
InlineURLForm(p) ==
    LET r == Options(0, {"path", "set", "when_request", "when_eq", "max_bytes", "timeout_ms",
                         "concurrency"}, p)
    IN  Checked(r, /\ InBounds(r.a[1], "max_bytes", InlineMaxBytes)
                   /\ InBounds(r.a[1], "timeout_ms", 120000)
                   /\ InBounds(r.a[1], "concurrency", 16)
                   /\ Opt(r.a[1], "path") # <<>> /\ Opt(r.a[1], "set") # <<>>
                   /\ Opt(r.a[1], "when_eq") # <<>> => Opt(r.a[1], "when_request") # <<>>)
InlineFileForm(p) == LET r == Options(0, {"field", "max_bytes", "max_count"}, p) IN
    Checked(r, /\ InBounds(r.a[1], "max_bytes", InlineMaxBytes)
               /\ InBounds(r.a[1], "max_count", 16)
               /\ Opt(r.a[1], "field") # <<>>)

Primitives == {"path", "count_path", "sum_path", "len_path", "expr"}
FactOptions == Primitives \cup {"type", "status", "event", "event_optional", "source", "fallback",
                                "scale", "when_path", "when_eq", "attr.ttl"}
\* defaultUsageDimensionRegistry
UsageDimensions ==
    ({"input", "output", "input.image", "input.video", "input.audio", "output.image", "output.audio",
      "output.video", "cache_read", "cache_write"} \X {"token"}) \cup
    ({"server_tool.web_search", "server_tool.file_search"} \X {"call"}) \cup
    ({"image.generate", "image.edit", "image.variation"} \X {"image"}) \cup
    ({"audio.tts", "audio.stt", "audio.translate"} \X {"second"}) \cup
    ({"input", "output"} \X {"character"})

PrimitiveOption(p, s) == Cardinality({i \in OptionsAt(p, s) : Word(i)[1] \in Primitives}) = 1
MetaOptions(o) ==
    /\ \A k \in {"fallback", "event_optional"} \cap DOMAIN o : o[k].t \in {<<"true">>, <<"false">>}
    /\ "scale" \in DOMAIN o => o["scale"].k = "number" /\ o["scale"].n > 0
    /\ "expr" \in DOMAIN o => ParseUsageExpr(o["expr"].t)
\* usage_fact <dimension> <unit> key=value...; exactly one primitive.
FactForm(p) == LET r == Options(2, FactOptions, p) IN
    Checked(r, /\ PrimitiveOption(p + 2, r.p - 1)
               /\ MetaOptions(r.a[3])
               /\ <<r.a[1][1], r.a[2][1]>> \in UsageDimensions)
RootForm(p) == LET r == Options(0, {"path", "event", "event_optional", "exclude"}, p) IN
    Checked(r, /\ Opt(r.a[1], "path") # <<>>
               /\ "event_optional" \in DOMAIN r.a[1] =>
                      r.a[1]["event_optional"].t \in {<<"true">>, <<"false">>})
FinishPathForm(p) == IF Eq(p) THEN Bad ELSE Options(1, {"fallback", "event", "event_optional"}, p)

\* req_*: words, no braces; a source, a target and then the rule's own arguments.
RuleWords(p) ==
    LET s == NextOf(p, ";") IN
    IF /\ s >= p + 2
       /\ \A i \in p..s - 1 : toks[i].k \notin {"{", "}"}
       /\ Word(p + 1) # <<>>
    THEN Ok(s + 1, <<Word(p), Word(p + 1), SubSeq(toks, p + 2, s - 1)>>) ELSE Bad
RuleKV(p, keys) ==
    LET r == RuleWords(p)
        o == Options(0, keys, p + 2)
    IN  IF r.ok /\ o.ok THEN Ok(r.p, <<r.a[1], r.a[2]>> \o o.a) ELSE Bad
RequiredForm(p) == LET r == RuleKV(p, {"allow_null"}) IN
    Checked(r, \A k \in DOMAIN r.a[3] : /\ r.a[3][k].k = "ident"
                                         /\ r.a[3][k].t \in {<<"true">>, <<"false">>})
RangeForm(p) == LET r == RuleKV(p, {"min", "max"}) IN
    Checked(r, \A k \in DOMAIN r.a[3] : r.a[3][k].k = "number")

(***************************************************************************)
(* A statement of the given form.                                          *)
(***************************************************************************)
ParseForm(form, p) ==
    CASE form = "none" -> NoArgs(p)
      [] form = "mode" -> ModeArg(p)
      [] form = "error_mode" ->
            Checked(ModeArg(p), ModeArg(p).a[1] \in {<<"openai">>, <<"common">>, <<"passthrough">>})
      [] form = "expr" -> Expr(p)
      [] form = "field" -> Field(p)
      [] form = "value" -> Checked(Field(p), Text(Field(p).a[1]) # <<>>)
      [] form = "int" -> Checked(Field(p), IsNumberLiteral(Field(p).a[1]))
      [] form = "assign" -> Assign(p)
      [] form = "usage_expr" -> Checked(Assign(p), ParseUsageExpr(Text(Assign(p).a[1])))
      [] form = "set_path" -> IF At(p, "{") THEN Bad ELSE ExprWithFirst(p)
      [] form = "name" -> Names(1, p)
      [] form = "name2" -> Names(2, p)
      [] form = "name_expr" -> NameExpr(p)
      [] form = "named_expr" -> Checked(NameExpr(p), NameExpr(p).a[1] # <<>>)
      [] form = "patterns" -> Patterns(1, FALSE, p)
      [] form = "patterns2" -> Patterns(2, FALSE, p)
      [] form = "patterns_sep" -> Patterns(1, TRUE, p)
      [] form = "header_values" -> HeaderValues(p)
      [] form = "map_value" -> MapValue(p)
      [] form = "clamp" -> Clamp(p)
      [] form = "inline_file" -> InlineFileForm(p)
      [] form = "rule_required" -> RequiredForm(p)
      [] form = "rule_range" -> RangeForm(p)
      [] form = "rule_forbid" -> Checked(RuleWords(p), RuleWords(p).a[3] = <<>>)
      [] form = "rule_type" -> Checked(RuleWords(p), Len(RuleWords(p).a[3]) = 1)
      [] form = "rule_enum" -> RuleWords(p)
      [] form = "name_expr_opts" -> NameExprOptions(p)
      [] form = "name_opts" -> NamesOptions(1, p)
      [] form = "name2_opts" -> NamesOptions(2, p)
      [] form = "del_if" -> DelIf(p)
      [] form = "body_extract" -> BodyExtract(p)
      [] form = "content_type" -> ContentType(p)
      [] form = "binary_extract" -> BinaryExtract(p)
      [] form = "inline_url" -> InlineURLForm(p)
      [] form = "error_when" -> ErrorWhen(p)
      [] form = "fact" -> FactForm(p)
      [] form = "root" -> RootForm(p)
      [] form = "finish_path" -> FinishPathForm(p)
      [] form = "strings" ->
            LET s == NextOf(p, ";") IN
            IF /\ s > p
               /\ \A i \in p..s - 1 : At(i, "string") /\ Word(i) # <<>>
               /\ \A i, j \in p..s - 1 : Word(i) = Word(j) => i = j
            THEN Ok(s + 1, <<[i \in 1..s - p |-> Word(p + i - 1)]>>) ELSE Bad
      [] form = "string" -> Checked(Names(1, p), At(p, "string") /\ StartsWith(Word(p), "$"))

(***************************************************************************)
(* What an accepted statement does to its scope.                           *)
(***************************************************************************)
Get(sc, f, default) == IF f \in DOMAIN sc THEN sc[f] ELSE default

Effect(h, f, a, sc) ==
    CASE h.how \in {"set", "once"} -> (f :> IF a = <<>> THEN h.d ELSE a[1]) @@ sc
      [] h.how = "resp_op" -> (f :> [op |-> h.d, mode |-> IF a = <<>> THEN <<>> ELSE a[1]]) @@ sc
      [] h.how = "add" -> (f :> Append(Get(sc, f, <<>>), [d |-> h.d, a |-> a])) @@ sc
      [] h.how = "addall" ->
            (f :> Get(sc, f, <<>>) \o [i \in 1..Len(a) |-> [d |-> h.d, a |-> a[i]]]) @@ sc
      [] h.how = "put" -> IF a[1] = <<>> THEN sc
                          ELSE (f :> ((a[1] :> a[2]) @@ Get(sc, f, [x \in {} |-> <<>>]))) @@ sc

(***************************************************************************)
(* The steps.                                                              *)
(***************************************************************************)
ModeBlocks == {"usage_mode", "finish_reason_mode", "balance_mode", "models_mode"}
Top == stack[Len(stack)]
Pop == SubSeq(stack, 1, Len(stack) - 1)
InMatch == Len(stack) >= 2 /\ stack[2] = "match"
Cur == CASE Top = "balance" -> 2
         [] Top = "models" -> 3
         [] Top = "observability" -> 4
         [] InMatch -> Len(scopes)
         [] Top \in ModeBlocks -> Len(scopes)
         [] OTHER -> 1

NoScopes == [i \in 1..4 |-> [x \in {} |-> <<>>]]

PInit == /\ toks \in Files
         /\ pos = 1
         /\ stack = <<>>
         /\ scopes = NoScopes
         /\ header = <<>>
         /\ modes = [m \in {} |-> <<>>]
         /\ outcome = "parsing"

Reject == outcome' = "rejected" /\ UNCHANGED <<toks, pos, stack, scopes, header, modes>>
Advance(p) == pos' = p /\ UNCHANGED <<toks, modes, outcome>>
Ident == At(pos, "ident")
Name == Word(pos)[1]

\* parseProviderConfig: the last provider block of the file counts.
OpenProvider == /\ outcome = "parsing" /\ stack = <<>> /\ Ident /\ Name = "provider"
                /\ \/ /\ At(pos + 1, "string") /\ At(pos + 2, "{")
                      /\ stack' = <<"provider">> /\ scopes' = NoScopes /\ header' = <<>>
                      /\ Advance(pos + 3)
                   \/ ~(At(pos + 1, "string") /\ At(pos + 2, "{")) /\ Reject

(***************************************************************************)
(* The presets.  The Go code reads the file once per kind of preset and    *)
(* once for the provider, each pass skipping what the others read; here    *)
(* the passes are one.  A preset is read into a scope of its own and filed *)
(* under its name when its block closes.                                   *)
(***************************************************************************)
OpenMode == /\ outcome = "parsing" /\ stack = <<>> /\ Ident /\ Name \in ModeBlocks
            /\ \/ /\ IsWord(pos + 1) /\ Word(pos + 1) # <<>> /\ At(pos + 2, "{")
                  /\ stack' = <<Name>>
                  /\ scopes' = Append(scopes, "name" :> Word(pos + 1)[1])
                  /\ Advance(pos + 3) /\ UNCHANGED header
               \/ ~(IsWord(pos + 1) /\ Word(pos + 1) # <<>> /\ At(pos + 2, "{")) /\ Reject

CloseMode == /\ outcome = "parsing" /\ stack # <<>> /\ Top \in ModeBlocks /\ At(pos, "}")
             /\ LET cfg == scopes[Len(scopes)]
                    key == <<Top, cfg["name"]>>
                IN  \/ /\ key \notin DOMAIN modes
                       /\ modes' = (key :> Restrict(cfg, DOMAIN cfg \ {"name"})) @@ modes
                       /\ stack' = <<>> /\ pos' = pos + 1
                       /\ scopes' = SubSeq(scopes, 1, Len(scopes) - 1)
                       /\ UNCHANGED <<toks, header, outcome>>
                    \/ key \in DOMAIN modes /\ Reject

EndOfFile == /\ outcome = "parsing" /\ pos > Len(toks)
             /\ outcome' = IF stack = <<>> THEN "parsed" ELSE "rejected"
             /\ UNCHANGED <<toks, pos, stack, scopes, header, modes>>

CloseBlock == /\ outcome = "parsing" /\ stack # <<>> /\ Top \notin ModeBlocks \cup {"match_header"}
              /\ At(pos, "}")
              /\ stack' = Pop
              /\ Advance(pos + 1) /\ UNCHANGED <<scopes, header>>

IsBlock == Top \in DOMAIN Blocks /\ Name \in Blocks[Top]

OpenBlock == /\ outcome = "parsing" /\ stack # <<>> /\ Top # "match_header"
             /\ Ident /\ IsBlock /\ Name # "match"
             /\ \/ /\ At(pos + 1, "{")
                   /\ stack' = Append(stack, Name)
                   /\ scopes' = IF Name = "observability" THEN [scopes EXCEPT ![4] = NoScopes[4]]
                                ELSE scopes
                   /\ Advance(pos + 2) /\ UNCHANGED header
                \/ ~At(pos + 1, "{") /\ Reject

\* parseMatchBlock: the header runs to the first brace; an option without '=' is dropped
\* with the token behind it.
OpenMatch == /\ outcome = "parsing" /\ stack # <<>> /\ Top = "provider"
             /\ Ident /\ Name = "match"
             /\ stack' = Append(stack, "match_header")
             /\ scopes' = Append(scopes, [x \in {} |-> <<>>])
             /\ header' = Append(header, [api |-> <<>>, stream |-> "any"])
             /\ Advance(pos + 1)

MatchHeader ==
    /\ outcome = "parsing" /\ stack # <<>> /\ Top = "match_header" /\ pos <= Len(toks)
    /\ LET n == Len(header) IN
       CASE At(pos, "{") -> /\ stack' = Append(Pop, "match")
                            /\ Advance(pos + 1) /\ UNCHANGED <<scopes, header>>
         [] Ident /\ Eq(pos + 1) /\ Name = "api" ->
              IF At(pos + 2, "string")
              THEN /\ header' = [header EXCEPT ![n].api = Word(pos + 2)]
                   /\ Advance(pos + 3) /\ UNCHANGED <<stack, scopes>>
              ELSE Reject
         [] Ident /\ Eq(pos + 1) /\ Name = "stream" ->
              IF At(pos + 2, "ident") /\ Word(pos + 2)[1] \in {"true", "false"}
              THEN /\ header' = [header EXCEPT ![n].stream = Word(pos + 2)[1]]
                   /\ Advance(pos + 3) /\ UNCHANGED <<stack, scopes>>
              ELSE Reject
         [] OTHER -> /\ Advance(IF ~Ident THEN pos + 1 ELSE IF Eq(pos + 1) THEN pos + 3 ELSE pos + 2)
                     /\ UNCHANGED <<stack, scopes, header>>

IsStatement == Top \in DOMAIN Statements /\ Name \in DOMAIN Statements[Top]
IsRemoved == Top \in DOMAIN Removed /\ Name \in Removed[Top]

Statement ==
    /\ outcome = "parsing" /\ stack # <<>> /\ Top # "match_header"
    /\ Ident /\ IsStatement /\ ~IsBlock
    /\ LET h == Statements[Top][Name]
           f == IF Top = "after_req_map" THEN "after_ops" ELSE h.f
       IN  \E r \in {ParseForm(h.form, pos + 1)} :
              IF r.ok /\ (h.how = "once" => f \notin DOMAIN scopes[Cur])
              THEN /\ scopes' = [scopes EXCEPT ![Cur] = Effect(h, f, r.a, @)]
                   /\ Advance(r.p) /\ UNCHANGED <<stack, header>>
              ELSE Reject

RemovedStatement == /\ outcome = "parsing" /\ stack # <<>> /\ Top # "match_header"
                    /\ Ident /\ IsRemoved
                    /\ Reject

\* skipBalancedBraces, from behind the opening brace; 0 when the file ends first.
SkipBalancedBraces(p) ==
    LET Count(k, q) == Cardinality({i \in p..q : toks[i].k = k})
        S == {q \in p..Len(toks) : Count("}", q) = Count("{", q) + 1}
    IN  IF S = {} THEN 0 ELSE Min(S) + 1

SkipStmtOrBlock(p) ==
    LET semi == NextOf(p, ";")
        brace == NextOf(p, "{")
    IN  IF brace # 0 /\ (semi = 0 \/ brace < semi) THEN SkipBalancedBraces(brace + 1)
        ELSE IF semi = 0 THEN 0 ELSE semi + 1

SkipUnknown == /\ outcome = "parsing" /\ stack # <<>> /\ Top \notin {"match_header", "observability"}
               /\ Ident /\ ~IsBlock /\ ~IsStatement /\ ~IsRemoved
               /\ IF SkipStmtOrBlock(pos + 1) = 0 THEN Reject
                  ELSE Advance(SkipStmtOrBlock(pos + 1)) /\ UNCHANGED <<stack, scopes, header>>

\* Stray tokens are dropped, but not in an observability block.
StrayToken == /\ outcome = "parsing" /\ pos <= Len(toks)
              /\ IF stack = <<>> THEN ~(Ident /\ Name \in ModeBlocks \cup {"provider"})
                 ELSE /\ Top # "match_header" /\ ~At(pos, "}")
                      /\ Ident => Top = "observability" /\ ~IsStatement
              /\ IF stack # <<>> /\ Top = "observability" THEN Reject
                 ELSE Advance(pos + 1) /\ UNCHANGED <<stack, scopes, header>>

PNext == \/ OpenProvider \/ OpenMode \/ CloseMode \/ EndOfFile \/ CloseBlock \/ OpenBlock \/ OpenMatch \/ MatchHeader
         \/ Statement \/ RemovedStatement \/ SkipUnknown \/ StrayToken
=============================================================================
