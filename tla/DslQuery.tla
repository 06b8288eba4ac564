------------------------------ MODULE DslQuery ------------------------------
(***************************************************************************)
(* The balance and model listings an operator asks a provider for, with    *)
(* the balance and models blocks of its file (balancequery, modelsquery,   *)
(* dslquery).  Dates in the URL of the OpenAI usage call are left out.     *)
(***************************************************************************)
EXTENDS DslSelect

ResolveBaseURLFromExpr(e) == Text(e)

IsAbsolute(url) == StartsWith(url, "http://") \/ StartsWith(url, "https://")

\* BuildRequestURL: Missing when there is no path, or a relative one and no base.
BuildRequestURL(base, default, path) ==
    LET given == IF path # <<>> THEN path ELSE default
    IN  IF given = <<>> THEN Missing
        ELSE IF IsAbsolute(given) THEN Found(given)
        ELSE IF base = <<>> THEN Missing
        ELSE Found(base \o (IF StartsWith(given, "/") THEN given ELSE <<"/">> \o given))

\* queryBaseURL: the channel's own, else the file's.
QueryBase(p, meta) == IF meta.vars["channel.base_url"] # <<>> THEN meta.vars["channel.base_url"]
                      ELSE ResolveBaseURLFromExpr(Get(p.defaults, "base_url", <<>>))

\* bedrockModelsBaseURL
BedrockModelsBaseURL(meta) == IF meta.vars["channel.location"] = <<>> THEN <<>>
                              ELSE <<"https://", "bedrock">> \o meta.vars["channel.location"]

\* The file's headers for chats, then those of the block.
QueryHeaders(p, meta, cfg, stream) ==
    ApplyHeaderOps(meta, ApplyHeaders(meta, Empty, SelectedHeaders(p, <<"chat.completions">>, stream)),
                   Get(cfg, "request", <<>>))
WithBearer(hdr, meta) == IF HeaderValuesOf(hdr, <<"Authorization">>) # <<>> THEN hdr
                         ELSE SetHeader(hdr, <<"Authorization">>, <<<<"Bearer ">> \o meta.vars["channel.key"]>>)

PathOf(cfg, f, meta) == EvalStringExpr(Get(cfg, f, <<>>), meta, FALSE).v

\* modelsquery.Query
ModelsRequest(p, meta) ==
    LET cfg == p.models
        aws == ModeOf(p.defaults, "transport") = <<"aws_sdk">>
        base == IF aws /\ QueryBase(p, meta) = <<>> THEN BedrockModelsBaseURL(meta) ELSE QueryBase(p, meta)
        here == [meta EXCEPT !.vars["channel.base_url"] = base]
    IN  IF ModeOf(cfg, "models_mode") = <<>> \/ base = <<>> THEN <<>>
        ELSE <<[url |-> BuildRequestURL(base, <<>>, PathOf(cfg, "path", here)),
                headers |-> QueryHeaders(p, here, cfg, "false")]>>

\* queryCustomBalance: one call; and the two of OpenAI's dashboard.
CustomCalls(cfg, base, here, headers) ==
    <<[url |-> BuildRequestURL(base, <<>>, PathOf(cfg, "path", here)), headers |-> headers]>>
DashboardPaths == <<<<"subscription_path", <<"/", "v1", "dashboard", "billing", "subscription">>>>,
                    <<"usage_path", <<"/", "v1", "dashboard", "billing", "usage">>>>>>
DashboardCalls(cfg, base, here, headers) ==
    [i \in 1..2 |-> [url |-> BuildRequestURL(base, DashboardPaths[i][2], PathOf(cfg, DashboardPaths[i][1], here)),
                     headers |-> WithBearer(headers, here)]]

\* balancequery.Query
BalanceCalls(cfg, base, here, headers) ==
    IF ModeOf(cfg, "balance_mode") = <<>> \/ base = <<>> THEN <<>>
    ELSE IF ModeOf(cfg, "balance_mode") = <<"custom">> THEN CustomCalls(cfg, base, here, headers)
    ELSE DashboardCalls(cfg, base, here, headers)
BalanceRequests(p, meta) ==
    LET here == [meta EXCEPT !.vars["channel.base_url"] = QueryBase(p, meta)]
    IN  BalanceCalls(p.balance, QueryBase(p, meta), here, QueryHeaders(p, here, p.balance, "false"))

\* queryOpenAIBalanceWithPaths: total_usage is in hundredths of the limit's unit.
OpenAIBalance(subscription, usage) ==
    LET used == CoerceFloat(JsonGet(usage, <<"$", "total_usage">>).v)
        limit == CoerceFloat(JsonGet(subscription, <<"$", "hard_limit_usd">>).v)
    IN  [ok |-> TRUE, balance |-> 100 * limit - used, used |-> used]

\* What the operator is told, from what the calls were answered with.
BalanceOf(cfg, docs) == IF ModeOf(cfg, "balance_mode") = <<"custom">> THEN ExtractBalance(cfg, docs[1])
                        ELSE IF docs[1].ok /\ docs[2].ok THEN OpenAIBalance(docs[1].v, docs[2].v)
                        ELSE NoBalance
=============================================================================
