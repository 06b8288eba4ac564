----------------------------- MODULE DslSelect -----------------------------
(***************************************************************************)
(* What a request gets from a provider file: the match block that answers  *)
(* it, the configuration merged from defaults and that block, and what     *)
(* routing, model mapping, headers and OAuth make of it (the Select, merge *)
(* and Apply functions of dslconfig).  A configuration is the function     *)
(* from field names to values that DslParser builds; in Go it is spread    *)
(* over one struct per phase.                                              *)
(***************************************************************************)
EXTENDS DslParser, JsonOps

Empty == [x \in {} |-> <<>>]

\* The text of a literal field, <<>> when it is absent.
Literal(sc, f) == IF f \in DOMAIN sc THEN Text(sc[f]) ELSE <<>>
ModeOf(sc, f) == Get(sc, f, <<>>)
Given(sc, f) == f \in DOMAIN sc /\ sc[f] # <<>>

(***************************************************************************)
(* selectMatch, the same in every phase: the first block in file order.    *)
(***************************************************************************)
Matches(h, api, stream) == /\ h.api = <<>> \/ h.api = api
                           /\ h.stream \in {"any", stream}

SelectMatch(hs, api, stream) == SelectInSeq(hs, LAMBDA h : Matches(h, api, stream))

\* HasMatchAPI looks at the api alone.
HasMatchAPI(hs, api) == \E i \in 1..Len(hs) : hs[i].api \in {<<>>, api}

(***************************************************************************)
(* The merges.  Fields of the match block override, append or join.        *)
(***************************************************************************)
Overrides(fields, base, over) ==
    [f \in {g \in fields : Given(over, g)} |-> over[f]] @@ base

Appends(fields, base, over) ==
    [f \in fields \cap (DOMAIN base \cup DOMAIN over) |-> Get(base, f, <<>>) \o Get(over, f, <<>>)]

MergeRequestTransform(base, over) ==
    LET maps == IF "model_map" \in DOMAIN base \cup DOMAIN over
                THEN "model_map" :> (Get(over, "model_map", Empty) @@ Get(base, "model_map", Empty))
                ELSE Empty
    IN  Appends({"ops", "after_ops", "rules", "inline_files"}, base, over) @@ maps @@
        Overrides({"model_map_default", "req_map"}, Restrict(base, DOMAIN base \cap
                  {"model_map_default", "req_map"}), over)

ResponseRules == {"body_extract", "content_type", "binary_extract", "inline_url", "sse_collect"}

\* A collecting match switches the defaults' passthrough off.
MergeResponseDirective(base, over) ==
    LET op == IF "resp" \in DOMAIN over THEN over["resp"]
              ELSE Get(base, "resp", [op |-> "", mode |-> <<>>])
        dropped == Given(over, "sse_collect") /\ op.op = "resp_passthrough"
    IN  (IF op.op = "" \/ dropped THEN Empty ELSE "resp" :> op) @@
        Appends({"resp_ops", "sse_del_if", "error_when"}, base, over) @@
        Overrides(ResponseRules, Restrict(base, DOMAIN base \cap ResponseRules), over)

MergeError(base, over) ==
    Appends({"error_when"}, base, over) @@
    Overrides({"error_map"}, Restrict(base, DOMAIN base \cap {"error_map"}), over)

OAuthScalars == OAuthExprFields \cup OAuthLiteralFields \cup OAuthIntFields \cup
                {"oauth_mode", "oauth_method", "oauth_content_type"}

\* OAuthConfig.Merge
MergeOAuth(base, over) ==
    Appends({"oauth_form"}, base, over) @@
    Overrides(OAuthScalars, Restrict(base, DOMAIN base \cap OAuthScalars), over)

\* ProviderHeaders.Effective
EffectiveHeaders(base, over) ==
    Appends({"auth", "request"}, base, over) @@ MergeOAuth(base, over) @@
    (IF "aws_sigv4" \in DOMAIN base \cup DOMAIN over THEN "aws_sigv4" :> "sigv4" ELSE Empty)

UsageScalars == TokenExprs \cup TokenPaths \cup {"usage_extract"}
MergeUsageConfig(base, over) ==
    Appends({"facts", "roots"}, base, over) @@
    Overrides(UsageScalars, Restrict(base, DOMAIN base \cap UsageScalars), over)

\* mergeFinishReasonConfig: the paths of the match replace those of defaults.
FinishFields == {"finish_reason_extract", "finish_paths"}
MergeFinishReasonConfig(base, over) ==
    Overrides(FinishFields, Restrict(base, DOMAIN base \cap FinishFields), over)

BalanceScalars == {"balance_mode", "method", "path", "balance_path", "balance_expr", "used_path",
                   "used_expr", "balance_unit", "subscription_path", "usage_path", "request"}
MergeBalanceConfig(base, over) ==
    Overrides(BalanceScalars, Restrict(base, DOMAIN base \cap BalanceScalars), over)

ModelsScalars == {"models_mode", "method", "path", "id_paths", "id_regex", "id_allow_regex", "request"}
MergeModelsQueryConfig(base, over) ==
    Overrides(ModelsScalars, Restrict(base, DOMAIN base \cap ModelsScalars), over)

(***************************************************************************)
(* A provider is [defaults, balance, models, matches, headers]; matches    *)
(* and headers run in parallel.  Selected gives the merged configuration   *)
(* of every phase for a request.                                           *)
(***************************************************************************)
Over(p, api, stream) ==
    LET i == SelectMatch(p.headers, api, stream) IN IF i = 0 THEN Empty ELSE p.matches[i]

SelectedRequest(p, api, stream) == MergeRequestTransform(p.defaults, Over(p, api, stream))
SelectedResponse(p, api, stream) == MergeResponseDirective(p.defaults, Over(p, api, stream))
SelectedError(p, api, stream) == MergeError(p.defaults, Over(p, api, stream))
SelectedHeaders(p, api, stream) == EffectiveHeaders(p.defaults, Over(p, api, stream))
SelectedUsage(p, api, stream) == MergeUsageConfig(p.defaults, Over(p, api, stream))
SelectedFinish(p, api, stream) == MergeFinishReasonConfig(p.defaults, Over(p, api, stream))

(***************************************************************************)
(* RequestTransform.Apply: the mapped model, the client's own by default.  *)
(***************************************************************************)
MapModel(t, meta) ==
    LET key == meta.vars["request.model"]
        own == EvalVariable("request.model_mapped", meta)
        m == Get(t, "model_map", Empty)
        listed == key \in DOMAIN m /\ m[key] # <<>>
    IN  IF key # <<>> /\ (listed \/ Given(t, "model_map_default"))
        THEN EvalStringExpr(IF listed THEN m[key] ELSE t["model_map_default"], meta, FALSE).v ELSE own

(***************************************************************************)
(* ProviderRouting.Apply.  The query maps names to one text; removals come *)
(* before additions.  A channel's own base URL wins over the file's.       *)
(***************************************************************************)
ApplyRouting(p, api, stream, meta, path, query) ==
    LET m == Over(p, api, stream)
        sets == Get(m, "query", Empty)
        dels == {Get(m, "query_dels", <<>>)[i].a[1] : i \in 1..Len(Get(m, "query_dels", <<>>))}
        Routed(base, newPath, values) ==
            LET bad == {r \in {base, newPath} \cup {values[k] : k \in DOMAIN values} : ~r.ok}
            IN  [ok |-> bad = {}, base |-> base.v, path |-> newPath.v, why |-> {r.why : r \in bad},
                 query |-> [k \in DOMAIN values |-> values[k].v] @@ [k \in DOMAIN query \ dels |-> query[k]]]
        Based(base, here) ==
            Routed(base, IF Given(m, "set_path") THEN EvalStringExpr(m["set_path"], here, TRUE) ELSE Fine(path),
                   [k \in DOMAIN sets |-> EvalStringExpr(sets[k], here, TRUE)])
        From(base) == Based(base, [meta EXCEPT !.vars["channel.base_url"] = base.v])
    IN  IF SelectMatch(p.headers, api, stream) = 0
        THEN [ok |-> TRUE, base |-> meta.vars["channel.base_url"], path |-> path, query |-> query, why |-> {}]
        ELSE From(IF meta.vars["channel.base_url"] # <<>> THEN Fine(meta.vars["channel.base_url"])
                  ELSE EvalStringExpr(Get(p.defaults, "base_url", <<>>), meta, TRUE))

(***************************************************************************)
(* ProviderHeaders.Apply, and the headers of a balance or models query.    *)
(***************************************************************************)
ApplyHeaderOps(meta, hdr, ops) == FoldLeft(LAMBDA h, op : ApplyHeaderOp(meta, h, op), hdr, ops)

ApplyHeaders(meta, hdr, phase) ==
    ApplyHeaderOps(meta, hdr, Get(phase, "auth", <<>>) \o Get(phase, "request", <<>>))

(***************************************************************************)
(* OAuthConfig.Resolve: the token request a phase asks for.                *)
(***************************************************************************)
Template(url, client, secretInForm, basic) ==
    [url |-> url, client |-> client, secretInForm |-> secretInForm, basic |-> basic]

OAuthBuiltinTemplates ==
    "openai" :> Template(<<"https://", "auth.openai.com">>, <<"app_EMo">>, FALSE, FALSE) @@
    "gemini" :> Template(<<"https://", "oauth2.googleapis.com">>, <<>>, TRUE, FALSE) @@
    "qwen" :> Template(<<"https://", "chat.qwen.ai">>, <<"f0304373">>, FALSE, FALSE) @@
    "claude" :> Template(<<"https://", "console.anthropic.com">>, <<"9d1c250a">>, FALSE, FALSE) @@
    "iflow" :> Template(<<"https://", "iflow.cn">>, <<"10009311001">>, TRUE, TRUE) @@
    "antigravity" :> Template(<<"https://", "oauth2.googleapis.com">>, <<>>, TRUE, FALSE) @@
    "kimi" :> Template(<<"https://", "auth.kimi.com">>, <<"17e5f671">>, FALSE, FALSE) @@
    "google_service_account_file" :> Template(<<"https://", "oauth2.googleapis.com">>, <<>>, FALSE, FALSE) @@
    "custom" :> Template(<<>>, <<>>, FALSE, FALSE)

ResolveOAuth(c, meta) ==
    LET mode == c["oauth_mode"][1]
        tpl == IF mode \in DOMAIN OAuthBuiltinTemplates THEN OAuthBuiltinTemplates[mode]
               ELSE OAuthBuiltinTemplates["custom"]
        Eval(f, default) == IF Given(c, f) THEN EvalStringExpr(c[f], meta, FALSE).v ELSE default
        refresh == Eval("oauth_refresh_token", meta.vars["channel.key"])
        client == Eval("oauth_client_id", tpl.client)
        secret == Eval("oauth_client_secret", <<>>)
        standard == "grant_type" :> <<"refresh_token">> @@ "refresh_token" :> refresh @@
                    "client_id" :> client @@ "scope" :> Eval("oauth_scope", <<>>) @@
                    "audience" :> Eval("oauth_audience", <<>>) @@
                    "client_secret" :> IF tpl.secretInForm THEN secret ELSE <<>>
        Filled(form) == [k \in {j \in DOMAIN form : form[j] # <<>>} |-> form[k]]
        explicit == FoldLeft(LAMBDA form, f : (f.a[1][1] :> EvalStringExpr(f.a[2], meta, FALSE).v) @@ form,
                             Empty, Get(c, "oauth_form", <<>>))
        own == mode \notin {"custom", "google_service_account_file"}
    IN  [mode |-> mode, url |-> Eval("oauth_token_url", tpl.url),
         form |-> explicit @@ (IF own THEN Filled(standard) ELSE Empty),
         basic |-> IF own /\ tpl.basic THEN <<client, secret>> ELSE <<>>,
         scope |-> IF mode = "google_service_account_file" THEN Eval("oauth_scope", <<>>) ELSE <<>>,
         credential |-> IF mode = "google_service_account_file" THEN meta.credential ELSE <<>>]

(***************************************************************************)
(* Balance and model queries (balance.go, models_query.go).                *)
(***************************************************************************)
EvalBalanceField(root, cfg, exprField, pathField) ==
    IF Literal(cfg, exprField) # <<>> THEN EvalUsageExpr(Literal(cfg, exprField), root)
    ELSE IF Literal(cfg, pathField) # <<>> THEN GetFloatByPath(root, Literal(cfg, pathField)).n
    ELSE 0

NoBalance == [ok |-> FALSE, balance |-> 0, used |-> 0]
\* ExtractBalance: custom mode only, and a document that is an object.
ExtractBalance(cfg, body) ==
    IF /\ ModeOf(cfg, "balance_mode") = <<"custom">>
       /\ body.ok /\ body.v.t = "obj"
       /\ Literal(cfg, "balance_expr") # <<>> \/ Literal(cfg, "balance_path") # <<>>
    THEN [ok |-> TRUE, balance |-> EvalBalanceField(body.v, cfg, "balance_expr", "balance_path"),
          used |-> EvalBalanceField(body.v, cfg, "used_expr", "used_path")]
    ELSE NoBalance

\* The regular expressions in use: the prefix they strip, or the prefix they ask for.
Rewrites == <<"^models/(.+)$">> :> "models/"
Allows == <<"^gpt">> :> "gpt"

\* ExtractModelIDs: rewritten, filtered, each once, in the order of the response.
ExtractModelIDs(cfg, root) ==
    LET paths == [i \in 1..Len(Get(cfg, "id_paths", <<>>)) |-> Text(cfg["id_paths"][i].a[1])]
        raw == FlattenSeq([i \in 1..Len(paths) |->
                   SelectSeq(GetValuesByPath(root, paths[i]).vals, LAMBDA v : v.t = "str" /\ v.s # <<>>)])
        re == Literal(cfg, "id_regex")
        allow == Literal(cfg, "id_allow_regex")
        Rewrite(s) == IF re = <<>> THEN s
                      ELSE IF StartsWith(s, Rewrites[re]) THEN Tail(s) ELSE <<>>
        ids == SelectSeq([i \in 1..Len(raw) |-> Rewrite(raw[i].s)],
                         LAMBDA s : s # <<>> /\ (allow = <<>> \/ StartsWith(s, Allows[allow])))
        Once(out, s) == IF Contains(out, s) THEN out ELSE Append(out, s)
    IN  FoldLeft(Once, <<>>, ids)
=============================================================================
