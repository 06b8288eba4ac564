---------------------------- MODULE DslValidate ----------------------------
(***************************************************************************)
(* The checks a parsed provider file must pass before it is served         *)
(* (validateAndBuildProviderFile), and the resolution of presets: a        *)
(* usage_extract, finish_reason_extract, balance_mode or models_mode may   *)
(* name a preset of the file, which may name another.                      *)
(***************************************************************************)
EXTENDS DslSelect

(***************************************************************************)
(* Routing.                                                                *)
(***************************************************************************)
SupportedMatchAPIs ==
    {"completions", "chat.completions", "responses", "claude.messages", "embeddings",
     "images.generations", "images.edits", "audio.speech", "audio.transcriptions",
     "audio.translations", "videos.generations", "videos.remix", "videos.list", "videos.get",
     "videos.content", "videos.delete", "gemini.generateContent", "gemini.streamGenerateContent",
     "gemini.predictLongRunning", "gemini.getOperation", "gemini.videoContent"}

UsesAWS(d) == ModeOf(d, "transport") = <<"aws_sdk">>

ValidateProviderBaseURL(d) ==
    LET e == Get(d, "base_url", <<>>) IN
    IF e = <<>> \/ (IsQuoted(e) /\ Text(e) = <<>>) THEN UsesAWS(d)
    ELSE /\ IsQuoted(e)
         /\ Len(Text(e)) >= 2 /\ Text(e)[1] \in {"http://", "https://"}

ValidateProviderMatchAPIs(hs) ==
    \A i \in 1..Len(hs) : hs[i].api = <<>> \/ hs[i].api[1] \in SupportedMatchAPIs

KindFits(kind, h) == /\ kind # "error"
                     /\ kind = "stream" => h.stream = "true"
                     /\ kind = "invoke" => h.stream # "true"
ValidateRoutingMatch(d, h, m) ==
    LET queries == Get(m, "query", Empty)
    IN  /\ Given(m, "set_path") => ValidateSetPathExpr(m["set_path"])
        /\ UsesAWS(d) => /\ DOMAIN queries = {} /\ ~Given(m, "query_dels")
                         /\ Given(m, "set_path")
                         /\ KindFits(BedrockPathKind(m["set_path"]), h)
        /\ \A k \in DOMAIN queries : ValidateStringExpr(queries[k])

ValidateProviderRouting(p) ==
    /\ ModeOf(p.defaults, "transport") \in {<<>>, <<"http">>, <<"aws_sdk">>}
    /\ \A i \in 1..Len(p.matches) : ValidateRoutingMatch(p.defaults, p.headers[i], p.matches[i])

(***************************************************************************)
(* Request phase.                                                          *)
(***************************************************************************)
ValidateModelMapConfig(t) ==
    /\ \A k \in DOMAIN Get(t, "model_map", Empty) : ValidateStringExpr(t["model_map"][k])
    /\ Given(t, "model_map_default") => ValidateStringExpr(t["model_map_default"])

ValidateJSONOp(op) ==
    LET a == op.a IN
    /\ ParseObjectPath(a[1])
    /\ op.d \in {"json_set", "json_replace", "json_set_if_absent"} =>
           a[2] # <<>> /\ ValidateJSONValueExpr(a[2])
    /\ op.d \in {"json_del_if_missing", "json_rename"} => ParseObjectPath(a[2])
    /\ op.d = "json_set_header_values" => a[2] # <<>>
    /\ op.d = "json_del_with_condition" => a[2] # <<>>
    /\ op.d = "json_map_value" => ValidateJSONValueExpr(a[3])

ValidateRequestJSONOps(ops) == \A i \in 1..Len(ops) : ValidateJSONOp(ops[i])

ReqTypes == {"null", "bool", "number", "integer", "string", "array", "object"}

\* compileReqRuleSource, validateReqRuleOp
ValidateReqRule(r) ==
    LET body == r.a[1] = <<"body">>
        o == r.a[3]
    IN  /\ r.a[1] \in {<<"body">>, <<"header">>, <<"query">>}
        /\ body => ParseObjectPath(r.a[2])
        /\ r.d = "required" => ~OptOn(o, "allow_null") \/ body
        /\ r.d = "type" => body /\ o[1].t[1] \in ReqTypes
        /\ r.d \in {"range", "len"} =>
               /\ DOMAIN o # {}
               /\ {"min", "max"} \subseteq DOMAIN o => o["min"].n <= o["max"].n
               /\ r.d = "len" => \A k \in DOMAIN o : o[k].n >= 0
        /\ r.d = "enum" =>
               /\ o # <<>>
               /\ body => \A i \in 1..Len(o) :
                              \/ o[i].k \in {"string", "number"}
                              \/ o[i].t \in {<<"true">>, <<"false">>, <<"null">>}

ReqMapModes ==
    {"openai_chat_to_openai_responses", "openai_chat_to_anthropic_messages",
     "openai_chat_to_gemini_generate_content", "openai_images_to_gemini_generate_content",
     "openai_images_edits_to_gemini_generate_content", "openai_images_to_minimax_image",
     "openai_images_to_qwen_image", "openai_videos_to_ppio", "anthropic_to_openai_chat",
     "gemini_to_openai_chat"}

ValidateRequestTransform(t) ==
    /\ ValidateModelMapConfig(t)
    /\ \A i \in 1..Len(Get(t, "rules", <<>>)) : ValidateReqRule(t["rules"][i])
    /\ ValidateRequestJSONOps(Get(t, "ops", <<>>))
    /\ ValidateRequestJSONOps(Get(t, "after_ops", <<>>))
    /\ Given(t, "req_map") => t["req_map"][1] \in ReqMapModes

(***************************************************************************)
(* Headers and OAuth.                                                      *)
(***************************************************************************)
ValidateHeaderOps(ops) ==
    \A i \in 1..Len(ops) :
        LET a == ops[i].a IN
        /\ ops[i].d \in {"header_key", "header_set", "header_del", "header_pass",
                         "header_filter_values", "header_keep_values"} => a[1] # <<>>
        /\ ops[i].d = "header_set" => a[2] # <<>> /\ ValidateStringExpr(a[2])
        /\ ops[i].d \in {"header_filter_values", "header_keep_values"} =>
               /\ \A j \in 1..Len(a[2]) : a[2][j] # <<>>
               /\ Separator(ops[i], 3) # <<>>

OAuthIsEmpty(c) == \A f \in OAuthScalars \cup {"oauth_form"} : ~Given(c, f)

ValidateOAuthConfig(c) ==
    LET mode == ModeOf(c, "oauth_mode")
        form == Get(c, "oauth_form", <<>>)
        Positive(f, lo) == Given(c, f) => c[f][1].n >= lo
    IN  IF mode = <<>> THEN OAuthIsEmpty(c)
        ELSE /\ mode[1] \in DOMAIN OAuthBuiltinTemplates
             /\ Literal(c, "oauth_method") \in {<<>>, <<"GET">>, <<"POST">>}
             /\ Literal(c, "oauth_content_type") \in {<<>>, <<"form">>, <<"json">>}
             /\ Positive("oauth_timeout_ms", 1) /\ Positive("oauth_fallback_ttl_sec", 1)
             /\ Positive("oauth_refresh_skew_sec", 0)
             /\ mode = <<"custom">> => Given(c, "oauth_token_url") /\ form # <<>>
             /\ mode = <<"google_service_account_file">> => Given(c, "oauth_scope")
             /\ \A f \in OAuthExprFields : Given(c, f) => ValidateStringExpr(c[f])
             /\ \A i \in 1..Len(form) : ValidateStringExpr(form[i].a[2])
             /\ \A f \in OAuthLiteralFields : Literal(c, f) # <<>> => ValidPath(Literal(c, f))

\* Each scope on its own; what they merge into is not looked at.
ValidatePhaseHeaders(c) ==
    /\ ValidateHeaderOps(Get(c, "auth", <<>>) \o Get(c, "request", <<>>))
    /\ "aws_sigv4" \in DOMAIN c => ~Given(c, "auth") /\ OAuthIsEmpty(c)
    /\ ValidateOAuthConfig(c)

(***************************************************************************)
(* Response phase; the merged directive is checked as well.                *)
(***************************************************************************)
SSECollectModes == {<<"openai_responses">>, <<"anthropic_messages">>, <<"gemini_generate_content">>}

ValidateEventOptions(o) == OptOn(o, "event_optional") => OptText(o, "event") # <<>>

ValidateResponseDirective(c) ==
    LET ops == Get(c, "resp_ops", <<>>)
        dels == Get(c, "sse_del_if", <<>>)
        op == Get(c, "resp", [op |-> "", mode |-> <<>>]).op
    IN  /\ Given(c, "sse_collect") => /\ c["sse_collect"] \in SSECollectModes
                                      /\ op \notin {"sse_parse", "resp_passthrough"}
        /\ \A i \in 1..Len(dels) : /\ dels[i].a[2] # <<>>
                                   /\ ParseObjectPath(dels[i].a[1]) /\ ParseObjectPath(dels[i].a[3])
        /\ \A i \in 1..Len(ops) : /\ ValidateJSONOp(ops[i])
                                  /\ Number(OptsOf(ops[i]), "max_count", 0) >= 0
                                  /\ ValidateEventOptions(OptsOf(ops[i]))

ValidateProviderResponse(p) ==
    /\ ValidateResponseDirective(p.defaults)
    /\ ~Given(p.defaults, "sse_collect")
    /\ \A i \in 1..Len(p.matches) :
          /\ ValidateResponseDirective(p.matches[i])
          /\ p.headers[i].stream = "true" => ~Given(p.matches[i], "sse_collect")
          /\ ValidateResponseDirective(MergeResponseDirective(p.defaults, p.matches[i]))

(***************************************************************************)
(* Presets.  The four kinds share one scheme and differ in the field that  *)
(* names the mode, the merge, and the presets the program knows by itself. *)
(***************************************************************************)
ModeField == [usage_mode |-> "usage_extract", finish_reason_mode |-> "finish_reason_extract",
              balance_mode |-> "balance_mode", models_mode |-> "models_mode"]
BuiltinPresets == [usage_mode |-> {}, finish_reason_mode |-> {}, balance_mode |-> {"openai"},
                   models_mode |-> {"openai", "gemini"}]

\* hasAny...Rule: the fields that make a configuration say something.
UsageRuleFields == TokenExprs \cup TokenPaths \cup {"facts"}
BalanceRuleFields == BalanceScalars \ {"balance_mode", "method"}
ModelsRuleFields == ModelsScalars \ {"models_mode", "method"}
RuleFields == [usage_mode |-> UsageRuleFields, finish_reason_mode |-> {"finish_paths"},
               balance_mode |-> BalanceRuleFields, models_mode |-> ModelsRuleFields]
HasAnyRule(kind, cfg) == \E f \in RuleFields[kind] : Given(cfg, f)

MergePreset(kind, base, over) ==
    CASE kind = "usage_mode" -> MergeUsageConfig(base, over)
      [] kind = "finish_reason_mode" -> MergeFinishReasonConfig(base, over)
      [] kind = "balance_mode" -> MergeBalanceConfig(base, over)
      [] kind = "models_mode" -> MergeModelsQueryConfig(base, over)

\* A configuration with rules and no mode is a custom one.
InferCustom(kind, cfg) ==
    IF ModeOf(cfg, ModeField[kind]) = <<>> /\ HasAnyRule(kind, cfg)
    THEN (ModeField[kind] :> <<"custom">>) @@ cfg ELSE cfg

StringToken(t) == [k |-> "string", t |-> t]
\* normalizeModelsQueryConfig: what the two built-in kinds of listing leave out.
NormalizeModels(cfg) ==
    LET IdPath(t) == <<[d |-> "id_path", a |-> <<<<StringToken(t)>>>>]>>
        preset == CASE ModeOf(cfg, "models_mode") = <<"openai">> ->
                         "path" :> <<StringToken(<<"/", "v1", "models">>)>> @@
                         "id_paths" :> IdPath(<<"$", "data", "[*]", "id">>)
                    [] ModeOf(cfg, "models_mode") = <<"gemini">> ->
                         "path" :> <<StringToken(<<"/", "v1beta", "models">>)>> @@
                         "id_paths" :> IdPath(<<"$", "models", "[*]", "name">>) @@
                         "id_regex" :> <<StringToken(<<"^models/(.+)$">>)>>
                    [] OTHER -> Empty
    IN  Overrides(ModelsScalars, preset, cfg)

Normalize(kind, cfg) == IF kind = "models_mode" THEN NormalizeModels(cfg) ELSE cfg

\* chain holds the presets on the way; registry says that a preset itself is resolved.
RECURSIVE ResolvePreset(_, _, _, _, _)
ResolvePreset(kind, cfg, reg, chain, registry) ==
    LET f == ModeField[kind]
        mode == ModeOf(cfg, f)
        builtin == mode[1] \in BuiltinPresets[kind]
        over == Restrict(cfg, DOMAIN cfg \ {f})
        base == ResolvePreset(kind, reg[mode[1]], reg, Append(chain, mode[1]), registry)
        named == IF kind = "models_mode" /\ builtin THEN (f :> mode) @@ base.v ELSE base.v
    IN  IF mode \in {<<>>, <<"custom">>} THEN Found(Normalize(kind, InferCustom(kind, cfg)))
        ELSE IF builtin /\ chain # <<>> /\ chain[Len(chain)] = mode[1] THEN Found(Normalize(kind, cfg))
        ELSE IF mode[1] \in DOMAIN reg
             THEN IF Contains(chain, mode[1]) \/ ~base.ok THEN Missing
                  ELSE Found(Normalize(kind, MergePreset(kind, named, over)))
        ELSE IF builtin /\ (registry \/ chain # <<>>) THEN Found(Normalize(kind, cfg))
        ELSE Missing

\* The presets of the file; one without a mode gets the built-in of its name, or custom.
Registry(kind) ==
    [n \in {k[2] : k \in {j \in DOMAIN modes : j[1] = kind}} |->
        LET cfg == modes[<<kind, n>>] IN
        IF ModeOf(cfg, ModeField[kind]) = <<>> /\ n \in BuiltinPresets[kind]
        THEN (ModeField[kind] :> <<n>>) @@ cfg ELSE InferCustom(kind, cfg)]

(***************************************************************************)
(* What a resolved configuration must look like.                           *)
(***************************************************************************)
ValidateUsageFactConfig(cfg, fact) ==
    LET o == fact.a[3]
        Path(k) == OptText(o, k) # <<>> => ValidPath(OptText(o, k))
    IN  /\ OptText(o, "source") \in {<<>>, <<"usage">>, <<"response">>, <<"request">>, <<"derived">>}
        /\ \A k \in {"path", "count_path", "sum_path", "len_path", "when_path"} : Path(k)
        /\ OptText(o, "type") # <<>> \/ OptText(o, "status") # <<>> => OptText(o, "count_path") # <<>>
        /\ OptText(o, "when_path") = <<>> <=> OptText(o, "when_eq") = <<>>
        /\ ValidateEventOptions(o)
        /\ "attr.ttl" \in DOMAIN o => OptText(o, "attr.ttl") # <<>>
        /\ OptText(o, "source") = <<"usage">> => Given(cfg, "roots")

ValidateUsageRootConfig(root) ==
    /\ ValidPath(OptText(root.a[1], "path"))
    /\ ValidateEventOptions(root.a[1])
    /\ \A i \in 1..Len(OptText(root.a[1], "exclude")) :
           OptText(root.a[1], "exclude")[i] \notin {"$", "."} \cup Brackets

ValidateUsage(cfg) ==
    LET facts == Get(cfg, "facts", <<>>)
        roots == Get(cfg, "roots", <<>>)
        mode == ModeOf(cfg, "usage_extract")
    IN  /\ \A i \in 1..Len(roots) : ValidateUsageRootConfig(roots[i])
        /\ IF mode = <<>> THEN facts = <<>>
           ELSE /\ mode = <<"custom">>
                /\ HasAnyRule("usage_mode", cfg)
                /\ \A f \in TokenPaths : Literal(cfg, f) # <<>> => ValidPath(Literal(cfg, f))
                /\ \A i \in 1..Len(facts) : ValidateUsageFactConfig(cfg, facts[i])

ValidateFinish(cfg) ==
    LET paths == Get(cfg, "finish_paths", <<>>) IN
    /\ ModeOf(cfg, "finish_reason_extract") \in {<<>>, <<"custom">>}
    /\ ModeOf(cfg, "finish_reason_extract") = <<"custom">> => paths # <<>>
    /\ \A i \in 1..Len(paths) : ValidPath(paths[i].a[1]) /\ ValidateEventOptions(paths[i].a[2])

ValidateURLPath(cfg, f) == Literal(cfg, f) # <<>> => ValidatePathOrURLExpr(cfg[f])
ValidMethod(cfg) == Literal(cfg, "method") \in {<<>>, <<"GET">>, <<"POST">>}

ValidateBalance(c) ==
    LET cfg == InferCustom("balance_mode", c)
        mode == ModeOf(cfg, "balance_mode")
    IN  mode # <<>> =>
        /\ mode \in {<<"openai">>, <<"custom">>}
        /\ ValidMethod(cfg)
        /\ \A f \in {"balance_path", "used_path"} : Literal(cfg, f) # <<>> => ValidPath(Literal(cfg, f))
        /\ \A f \in {"balance_expr", "used_expr"} : Literal(cfg, f) # <<>> => ParseUsageExpr(Literal(cfg, f))
        /\ \A f \in {"path", "subscription_path", "usage_path"} : ValidateURLPath(cfg, f)
        /\ mode = <<"custom">> => /\ Literal(cfg, "path") # <<>>
                                  /\ Literal(cfg, "balance_expr") # <<>> \/ Literal(cfg, "balance_path") # <<>>
        /\ Literal(cfg, "balance_unit") \in {<<>>, <<"USD">>, <<"CNY">>}
        /\ ValidateHeaderOps(Get(cfg, "request", <<>>))

ValidateModels(c) ==
    LET cfg == InferCustom("models_mode", c)
        mode == ModeOf(cfg, "models_mode")
        ids == Get(cfg, "id_paths", <<>>)
    IN  mode # <<>> =>
        /\ mode \in {<<"openai">>, <<"gemini">>, <<"custom">>}
        /\ ValidMethod(cfg)
        /\ mode = <<"custom">> => Literal(cfg, "path") # <<>> /\ ids # <<>>
        /\ ValidateURLPath(cfg, "path")
        /\ \A i \in 1..Len(ids) : ValidPath(Text(ids[i].a[1]))
        /\ Literal(cfg, "id_regex") \in {<<>>} \cup DOMAIN Rewrites
        /\ Literal(cfg, "id_allow_regex") \in {<<>>} \cup DOMAIN Allows
        /\ ValidateHeaderOps(Get(cfg, "request", <<>>))

\* The four kinds: the configuration a scope writes, resolved against reg and valid.
Valid(r, good) == IF r.ok /\ good THEN r ELSE Missing

ResolveUsageExtractConfig(cfg, reg, registry) ==
    LET r == ResolvePreset("usage_mode", cfg, reg, <<>>, registry) IN Valid(r, ValidateUsage(r.v))
ResolveFinishReasonExtractConfig(cfg, reg, registry) ==
    LET r == ResolvePreset("finish_reason_mode", cfg, reg, <<>>, registry) IN Valid(r, ValidateFinish(r.v))
ResolveBalanceQueryConfig(cfg, reg, registry) ==
    LET r == ResolvePreset("balance_mode", cfg, reg, <<>>, registry) IN Valid(r, ValidateBalance(r.v))
ResolveModelsQueryConfig(cfg, reg, registry) ==
    LET r == ResolvePreset("models_mode", cfg, reg, <<>>, registry) IN Valid(r, ValidateModels(r.v))

\* resolve...ModeRegistry: every preset must resolve and be valid, used or not.
ResolveUsageModeRegistry ==
    LET reg == Registry("usage_mode")
    IN  [n \in DOMAIN reg |-> ResolveUsageExtractConfig(reg[n], reg, TRUE)]
ResolveFinishReasonModeRegistry ==
    LET reg == Registry("finish_reason_mode")
    IN  [n \in DOMAIN reg |-> ResolveFinishReasonExtractConfig(reg[n], reg, TRUE)]
ResolveBalanceModeRegistry ==
    LET reg == Registry("balance_mode")
    IN  [n \in DOMAIN reg |-> ResolveBalanceQueryConfig(reg[n], reg, TRUE)]
ResolveModelsModeRegistry ==
    LET reg == Registry("models_mode")
    IN  [n \in DOMAIN reg |-> ResolveModelsQueryConfig(reg[n], reg, TRUE)]

\* modeRegistryState.resolve
ResolvedModes == [usage_mode |-> ResolveUsageModeRegistry,
                  finish_reason_mode |-> ResolveFinishReasonModeRegistry,
                  balance_mode |-> ResolveBalanceModeRegistry,
                  models_mode |-> ResolveModelsModeRegistry]

(***************************************************************************)
(* validateAndBuildProviderFile: the provider that is served, or Missing.  *)
(***************************************************************************)
Parsed == [defaults |-> scopes[1], balance |-> scopes[2], models |-> scopes[3],
           matches |-> SubSeq(scopes, 5, Len(scopes)), headers |-> header]

ValidateForms(p) ==
    LET all == <<p.defaults>> \o p.matches IN
    /\ ValidateProviderBaseURL(p.defaults)
    /\ ValidateProviderMatchAPIs(p.headers)
    /\ ValidateProviderRouting(p)
    /\ \A i \in 1..Len(all) : ValidateRequestTransform(all[i])
    /\ \A i \in 1..Len(all) : ValidatePhaseHeaders(all[i])
    /\ ValidateProviderResponse(p)

NotServed(p) == [p EXCEPT !.matches = <<>>] @@ [ok |-> FALSE]
MeteredFields == RuleFields["usage_mode"] \cup FinishFields \cup {"usage_extract", "roots"}
Metered(cfg, u, f) ==
    IF u.ok /\ f.ok
    THEN Found(Restrict(cfg, DOMAIN cfg \ MeteredFields) @@ MergeUsageConfig(Empty, u.v) @@
               MergeFinishReasonConfig(Empty, f.v))
    ELSE Missing
ResolveScope(cfg, known) ==
    Metered(cfg, ResolveUsageExtractConfig(cfg, known["usage_mode"], FALSE),
            ResolveFinishReasonExtractConfig(cfg, known["finish_reason_mode"], FALSE))
\* all is the scopes of the file that are metered, the defaults first.
Served(p, all, b, m) ==
    IF b.ok /\ m.ok /\ \A i \in 1..Len(all) : all[i].ok
    THEN [ok |-> TRUE, defaults |-> all[1].v, balance |-> InferCustom("balance_mode", b.v),
          models |-> InferCustom("models_mode", m.v),
          matches |-> [i \in 1..Len(p.matches) |-> all[i + 1].v], headers |-> p.headers]
    ELSE NotServed(p)
ServedWith(p, known) ==
    LET all == <<p.defaults>> \o p.matches
    IN  Served(p, [i \in 1..Len(all) |-> ResolveScope(all[i], known)],
               ResolveBalanceQueryConfig(p.balance, known["balance_mode"], FALSE),
               ResolveModelsQueryConfig(p.models, known["models_mode"], FALSE))
ServedIf(p, regs) ==
    IF (\A k \in ModeBlocks : \A n \in DOMAIN regs[k] : regs[k][n].ok) /\ ValidateForms(p)
    THEN ServedWith(p, [k \in ModeBlocks |-> [n \in DOMAIN regs[k] |-> regs[k][n].v]])
    ELSE NotServed(p)
BuildProviderFile(p) == ServedIf(p, ResolvedModes)
=============================================================================
