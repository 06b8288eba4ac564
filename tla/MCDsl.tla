------------------------------- MODULE MCDsl -------------------------------
(***************************************************************************)
(* Provider files and traffic for Dsl.  The files are written as tokens:   *)
(* a few shaped after config/providers and config/modes, families of small *)
(* ones that put every expression of a grammar into every place that takes *)
(* one, and files with every kind of mistake the parser knows.             *)
(***************************************************************************)
EXTENDS Dsl

I(x) == [k |-> "ident", t |-> <<x>>]
S(t) == [k |-> "string", t |-> t]
N(n) == [k |-> "number", t |-> <<ToString(n)>>, n |-> n]
P(c) == [k |-> "other", t |-> <<c>>]
Semi == [k |-> ";", t |-> <<";">>]
LB == [k |-> "{", t |-> <<"{">>]
RB == [k |-> "}", t |-> <<"}">>]

Stmt(name, args) == <<I(name)>> \o args \o <<Semi>>
Block(name, body) == <<I(name), LB>> \o body \o <<RB>>
KV(k, v) == <<I(k), P("="), v>>
Of(api, stream, body) == <<I("match")>> \o KV("api", S(<<api>>)) \o KV("stream", I(stream)) \o <<LB>> \o body \o <<RB>>
ForAPI(api, body) == <<I("match")>> \o KV("api", S(<<api>>)) \o <<LB>> \o body \o <<RB>>
Preset(kind, name, body) == <<I(kind), S(<<name>>), LB>> \o body \o <<RB>>
Provider(body) == <<I("provider"), S(<<"x">>), LB>> \o body \o <<RB>>

Base == Block("upstream_config", Stmt("base_url", <<P("="), S(<<"https://", "up">>)>>))
Defaults(more) == Block("defaults", Base \o more)
Path(e) == Block("upstream", Stmt("set_path", e))
Usual == Path(<<S(<<"/", "v1">>)>>)
Map(mode) == Block("request", Stmt("req_map", <<I(mode)>>))

(***************************************************************************)
(* Conversations.                                                          *)
(***************************************************************************)
Talkers ==
    {Provider(Defaults(Block("auth", Stmt("auth_bearer", <<>>))) \o
              Of("chat.completions", "false", Usual \o Map("openai_chat_to_anthropic_messages"))),
     Provider(Defaults(<<>>) \o
              Of("chat.completions", "false", Block("request",
                  Stmt("model_map", <<S(<<"m">>), S(<<"gpt">>)>>) \o
                  Stmt("req_map", <<I("openai_chat_to_openai_responses")>>) \o
                  Block("after_req_map", Stmt("json_set", <<S(<<"$", "store">>), I("false")>>))))),
     Provider(Defaults(<<>>) \o Of("chat.completions", "false", Map("openai_chat_to_gemini_generate_content"))),
     Provider(Defaults(<<>>) \o ForAPI("claude.messages", Map("anthropic_to_openai_chat")))}

(***************************************************************************)
(* Usage, after config/modes/usage_modes.conf.                             *)
(***************************************************************************)
Root(path, more) == Stmt("usage_root", KV("path", S(path)) \o more)
Fact(dim, field, more) == Stmt("usage_fact", <<I(dim), I("token")>> \o KV("path", S(<<"$">> \o field)) \o more)
Scoped(event) == KV("event", S(event)) \o KV("event_optional", I("true"))
Fallback == KV("fallback", I("true"))

AnthropicFacts ==
    Fact("input", <<"input_tokens">>, <<>>) \o Fact("input", <<"cache_read_input_tokens">>, <<>>) \o
    Fact("input", <<"cache_creation_input_tokens">>, <<>>) \o Fact("output", <<"output_tokens">>, <<>>) \o
    Fact("cache_read", <<"cache_read_input_tokens">>, <<>>) \o
    Fact("cache_write", <<"cache_creation", "ephemeral_5m">>, KV("attr.ttl", S(<<"5m">>))) \o
    Fact("cache_write", <<"cache_creation_input_tokens">>, Fallback)
FinishAt(path, more) == Stmt("finish_reason_path", <<S(path)>> \o more)
AnthropicFile ==
    Preset("usage_mode", "whole", Root(<<"$", "usage">>, <<>>) \o AnthropicFacts) \o
    Preset("usage_mode", "stream", Root(<<"$", "message", "usage">>, Scoped(<<"message_start">>) \o
                                        KV("exclude", S(<<"output_tokens">>))) \o
                                   Root(<<"$", "usage">>, Scoped(<<"message_delta">>)) \o AnthropicFacts) \o
    Preset("finish_reason_mode", "stop", FinishAt(<<"$", "stop_reason">>, Fallback) \o
                                         FinishAt(<<"$", "delta", "stop_reason">>, Scoped(<<"message_delta">>))) \o
    Provider(Defaults(Block("metrics", Stmt("finish_reason_extract", <<I("stop")>>))) \o
             Of("claude.messages", "false", Block("metrics", Stmt("usage_extract", <<I("whole")>>))) \o
             Of("claude.messages", "true", Block("metrics", Stmt("usage_extract", <<I("stream")>>))))

OpenAIFile ==
    Preset("usage_mode", "openai", Root(<<"$", "usage">>, <<>>) \o
        Fact("input", <<"prompt_tokens">>, <<>>) \o Fact("input", <<"input_tokens">>, Fallback) \o
        Fact("output", <<"completion_tokens">>, <<>>) \o Fact("output", <<"output_tokens">>, Fallback) \o
        Fact("cache_read", <<"prompt_tokens_details", "cached_tokens">>, <<>>) \o
        Stmt("usage_fact", <<I("server_tool.web_search"), I("call")>> \o KV("source", S(<<"response">>)) \o
                           KV("count_path", S(<<"$", "choices", "[*]", "annotations">>)))) \o
    Provider(Defaults(Block("metrics", Stmt("usage_extract", <<I("openai")>>)) \o
                      Block("response", Stmt("resp_passthrough", <<>>)) \o
                      Block("error", Stmt("error_map", <<I("openai")>>) \o
                                     Stmt("error_when", KV("path", S(<<"$", "code">>)) \o KV("ne", S(<<"1">>)) \o KV("status", N(502))))) \o
             Of("chat.completions", "false", Usual) \o
             Of("chat.completions", "true", Block("response",
                 Stmt("json_replace", <<S(<<"$", "model">>), P("$"), I("request.model")>> \o KV("max_count", N(1))) \o
                 Stmt("sse_json_del_if", <<S(<<"$", "kind">>), S(<<"usage">>), S(<<"$", "usage">>)>>) \o
                 Stmt("json_del", <<S(<<"$", "kind">>)>> \o Scoped(<<"chunk">>)))))

\* Counts read by path from every event, without a usage root.
LegacyFile ==
    Provider(Defaults(Block("metrics",
                 Stmt("usage_extract", <<I("custom")>>) \o
                 Stmt("input_tokens_path", <<S(<<"$", "usage", "prompt_tokens">>)>>) \o
                 Stmt("output_tokens_expr", <<P("="), S(<<"$", "usage", "completion_tokens">>)>>) \o
                 Stmt("cache_read_tokens_path", <<S(<<"$", "usage", "prompt_tokens_details", "cached_tokens">>)>>))) \o
             Of("chat.completions", "false", Usual) \o Of("chat.completions", "true", Usual))

ResponsesFile ==
    Preset("usage_mode", "base", Fact("input", <<"input_tokens">>, <<>>) \o Fact("output", <<"output_tokens">>, <<>>) \o
                                 Fact("cache_read", <<"input_tokens_details", "cached_tokens">>, <<>>)) \o
    Preset("usage_mode", "stream", Stmt("usage_extract", <<I("base")>>) \o
        Root(<<"$", "response", "usage">>, Scoped(<<"response.completed", "response.incomplete">>))) \o
    Preset("usage_mode", "whole", Stmt("usage_extract", <<I("base")>>) \o Root(<<"$", "usage">>, <<>>)) \o
    Provider(Defaults(<<>>) \o
             Of("responses", "false", Block("metrics", Stmt("usage_extract", <<I("whole")>>))) \o
             Of("responses", "true", Block("metrics", Stmt("usage_extract", <<I("stream")>>))))

Counts(f) == Obj([k \in DOMAIN f |-> Num(f[k])])
StartEvent(f) == [name |-> "message_start", root |-> Obj("message" :> Obj("usage" :> Counts(f)))]
DeltaEvent(f) == [name |-> "message_delta", root |-> Obj("usage" :> Counts(f) @@
                                                         "delta" :> Obj("stop_reason" :> Str(<<"end_turn">>)))]
Nested(f, k, g) == Obj(Counts(f).f @@ k :> Counts(g))
AnthropicStreams ==
    {<<StartEvent("input_tokens" :> 9 @@ "cache_read_input_tokens" :> 2 @@ "output_tokens" :> 1),
       DeltaEvent("output_tokens" :> 7)>>,
     <<StartEvent("input_tokens" :> 3 @@ "cache_creation_input_tokens" :> 4 @@ "output_tokens" :> 1),
       DeltaEvent("output_tokens" :> 2),
       DeltaEvent("output_tokens" :> 7 @@ "input_tokens" :> 3 @@ "cache_creation_input_tokens" :> 0)>>,
     <<[name |-> "message_start",
        root |-> Obj("message" :> Obj("usage" :> Nested("input_tokens" :> 3 @@ "cache_creation_input_tokens" :> 4,
                                                        "cache_creation", "ephemeral_5m" :> 4)))],
       DeltaEvent("output_tokens" :> 7)>>}

Chunk(u) == [name |-> "", root |-> Obj("model" :> Str(<<"up-m">>) @@ "kind" :> Str(<<"text">>) @@ "usage" :> u)]
OpenAIStreams ==
    {<<Chunk(Null), Chunk(Nested("prompt_tokens" :> 9 @@ "completion_tokens" :> 5, "prompt_tokens_details", "cached_tokens" :> 4))>>,
     <<Chunk(Counts("prompt_tokens" :> 9 @@ "completion_tokens" :> 1)), Chunk(Null),
       Chunk(Counts("prompt_tokens" :> 9 @@ "completion_tokens" :> 5))>>,
     <<Chunk(Counts("prompt_tokens" :> 9)), Chunk(Counts("prompt_tokens" :> 0 @@ "completion_tokens" :> 5))>>}
ResponsesStreams ==
    {<<[name |-> "response.created", root |-> Obj("response" :> Obj("usage" :> Null))],
       [name |-> "response.completed",
        root |-> Obj("response" :> Obj("usage" :> Nested("input_tokens" :> 9 @@ "output_tokens" :> 5,
                                                         "input_tokens_details", "cached_tokens" :> 4)))]>>}

MCStreams == <<"claude.messages">> :> AnthropicStreams @@ <<"chat.completions">> :> OpenAIStreams @@
             <<"responses">> :> ResponsesStreams

(***************************************************************************)
(* Expressions: the atoms, and the calls of every pair of them.            *)
(***************************************************************************)
Var(x) == <<P("$"), I(x)>>
CallOf(f, args) == <<I(f), P("(")>> \o FlattenSeq([i \in 1..Len(args) |-> IF i = 1 THEN args[i] ELSE <<P(",")>> \o args[i]]) \o
                   <<P(")")>>
Tpl(t) == CallOf("template", <<<<S(t)>>>>)
Simple == {<<S(<<"/", "v1">>)>>, <<S(<<"v1">>)>>, <<P("/"), I("v1")>>, <<I("v1")>>,
           Var("request.model"), Var("channel.location"), Var("request.unknown"),
           Tpl(<<"/", "${", "request.model", "}">>), Tpl(<<"/", "${", "request.unknown", "}">>),
           Tpl(<<"/", "${", "request.model">>), Tpl(<<"${", "channel.location", "}">>)}
Compound == {CallOf("concat", <<a, b>>) : a, b \in Simple} \cup
            {CallOf("if_present", <<<<S(<<"$", "model">>)>>, a, b>>) : a, b \in Simple} \cup
            {CallOf("concat", <<>>), CallOf("template", <<Var("request.model")>>), CallOf("upper", <<Var("request.model")>>),
             CallOf("if_present", <<<<S(<<"model">>)>>, <<S(<<"/", "a">>)>>, <<S(<<"/", "b">>)>>>>),
             CallOf("concat", <<Tpl(<<"/", "v1">>), CallOf("if_present", <<<<S(<<"$", "tools">>)>>, <<S(<<"/", "t">>)>>,
                                                                          <<S(<<>>)>>>>)>>)}
URLs == {<<S(<<"https://", "other", "/", "list">>)>>, Tpl(<<"https://", "other", "/", "${", "channel.key", "}">>)}
QueryPaths == Simple \cup URLs \cup {CallOf("concat", <<a, b>>) : a \in Simple \cup URLs, b \in {<<S(<<"/", "x">>)>>, Var("channel.key")}}

ChatFile(body) == Provider(Defaults(<<>>) \o ForAPI("chat.completions", body))
PathFiles == {ChatFile(Path(e)) : e \in Simple \cup Compound}
QueryFiles == {ChatFile(Block("upstream", Stmt("set_query", <<S(<<"v">>)>> \o e))) : e \in Simple \cup Compound}
ListFiles == {Provider(Defaults(Block("balance", Stmt("balance_mode", <<I("custom")>>) \o Stmt("path", e) \o
                                     Stmt("balance_path", <<S(<<"$", "left">>)>>)) \o
                                Block("models", Stmt("path", e) \o Stmt("id_path", <<S(<<"$", "data", "[*]", "id">>)>>)))) :
                 e \in QueryPaths} \cup
             {Preset("balance_mode", "openai", <<>>) \o Preset("models_mode", mode, <<>>) \o
              Provider(Defaults(Block("balance", Stmt("balance_mode", <<I("openai")>>)) \o
                                Block("models", Stmt("models_mode", <<I(mode)>>)))) : mode \in {"openai", "gemini"}}

(***************************************************************************)
(* Uploads, images and the rest of the request phase.                      *)
(***************************************************************************)
Inline(field) == Stmt("req_inline_file", KV("field", S(<<field>>)))
EditsFile ==
    Provider(Defaults(<<>>) \o
             Of("images.edits", "false",
                Path(CallOf("if_present", <<<<S(<<"$", "mask">>)>>, <<S(<<"/", "masked">>)>>, <<S(<<"/", "plain">>)>>>>)) \o
                Block("request", Inline("image") \o Inline("mask") \o
                      Stmt("req_map", <<I("openai_images_edits_to_gemini_generate_content")>>)) \o
                Block("response", Stmt("resp_map", <<I("gemini_to_openai_images")>>))))
InlineLinks(more) == Stmt("resp_inline_url", KV("path", S(<<"$", "data", "[*]", "url">>)) \o KV("set", S(<<"b64_json">>)) \o
                          KV("when_request", S(<<"$", "response_format">>)) \o KV("when_eq", S(<<"b64_json">>)) \o more)
ImagesFile(more) ==
    Provider(Defaults(<<>>) \o
             Of("images.generations", "false", Map("openai_images_to_minimax_image") \o
                Block("response", Stmt("resp_map", <<I("minimax_image_to_openai_images")>>) \o InlineLinks(more) \o
                                  Stmt("json_set_if_absent", <<S(<<"$", "model">>), P("$"), I("request.model")>>))))
GeminiFile == Provider(Defaults(Block("auth", Stmt("auth_header_key", <<S(<<"x-key">>)>>))) \o
                       ForAPI("gemini.generateContent", Block("request", Stmt("model_map_default", <<S(<<"flash">>)>>))))
Signed == Block("auth", Stmt("oauth_mode", <<I("claude")>>) \o Stmt("auth_oauth_bearer", <<>>))
RulesFile ==
    Provider(Defaults(Signed \o Block("request", Stmt("pass_header", <<S(<<"X-Beta">>)>>) \o
                                                 Stmt("filter_header_values", <<S(<<"X-Beta">>), S(<<"a">>)>>))) \o
             ForAPI("chat.completions", Block("request",
                 Stmt("req_required", <<I("body"), S(<<"$", "model">>)>>) \o
                 Stmt("req_range", <<I("body"), S(<<"$", "n">>)>> \o KV("min", N(1)) \o KV("max", N(4))) \o
                 Stmt("req_forbid", <<I("query"), S(<<"debug">>)>>) \o
                 Stmt("json_clamp", <<S(<<"$", "n">>)>> \o KV("min", N(1)) \o KV("max", N(2))) \o
                 <<I("json_map_value"), S(<<"$", "model">>), LB, S(<<"m">>), S(<<"big">>), Semi, S(<<"s">>), S(<<"small">>), Semi, RB>> \o
                 Stmt("json_rename", <<S(<<"$", "n">>), S(<<"$", "options", "n">>)>>))))

(***************************************************************************)
(* Mistakes.                                                               *)
(***************************************************************************)
Wrong == {<<I("provider"), LB, RB>>, <<I("usage_mode"), LB, RB>>, <<I("provider"), S(<<"x">>), LB>>,
          Preset("balance_mode", "b", <<>>) \o Preset("balance_mode", "b", <<>>),
          Provider(<<I("defaults"), Semi>>),
          Provider(<<I("match")>> \o KV("api", I("chat")) \o <<LB, RB>>),
          Provider(<<I("match")>> \o KV("stream", S(<<"true">>)) \o <<LB, RB>>),
          Provider(<<I("match")>> \o KV("api", S(<<"chat.completions">>))),
          ChatFile(Block("request", Stmt("header_set", <<S(<<"x">>), S(<<"y">>)>>))),
          ChatFile(Block("metrics", Stmt("usage_extract", <<I("a")>>) \o Stmt("usage_extract", <<I("b")>>))),
          ChatFile(Block("metrics", Stmt("usage_extract", <<I("nowhere")>>))),
          ChatFile(Block("request", Stmt("req_map", <<I("nowhere")>>))),
          Provider(<<I("unknown"), I("word")>>),
          Provider(Block("observability", <<Semi>>)),
          Preset("usage_mode", "a", Stmt("usage_extract", <<I("b")>>)) \o Preset("usage_mode", "b", Stmt("usage_extract", <<I("a")>>)) \o
              ChatFile(<<>>),
          Provider(ForAPI("chat.completions", <<>>)), ChatFile(<<>>) \o <<RB>>}
\* Odd, and served.
Odd == {<<Semi>> \o Provider(Defaults(<<>>) \o Stmt("unknown", <<I("word")>>) \o Block("unknown", Block("inner", <<>>)) \o <<Semi>> \o
                             <<I("match")>> \o KV("api", S(<<"chat.completions">>)) \o KV("kind", I("any")) \o <<I("now"), I("then"), P("!"), LB, RB>> \o
                             Block("observability", Stmt("upstream_request_id", <<S(<<"x-id">>)>>)))}

MCFiles == Talkers \cup {AnthropicFile, OpenAIFile, LegacyFile, ResponsesFile} \cup PathFiles \cup QueryFiles \cup ListFiles \cup
           {EditsFile, ImagesFile(<<>>), ImagesFile(KV("concurrency", N(1))), GeminiFile, RulesFile} \cup Wrong \cup Odd

(***************************************************************************)
(* Traffic.                                                                *)
(***************************************************************************)
Plain(body) == [ChatRequest(<<>>) EXCEPT !.body = JsonBody(Obj(body))]
OneTool == [t |-> "tools", l |-> <<[type |-> "function", name |-> "look"]>>]
ChatRequests ==
    {Plain("model" :> Str(<<"m">>)), Plain(NoFields), [Plain("model" :> Str(<<"m">>)) EXCEPT !.override = <<"n">>],
     [Plain("model" :> Str(<<"m">>) @@ "tools" :> OneTool @@ "n" :> Num(9)) EXCEPT !.query = <<"debug">> :> <<"1">>],
     [Plain("model" :> Str(<<"m">>) @@ "n" :> Num(3)) EXCEPT !.headers = <<"X-Beta">> :> <<<<"a", ",", "b">>>>],
     [Plain(NoFields) EXCEPT !.body = [k |-> "bytes"]]}
Streaming(api) == [Plain("model" :> Str(<<"m">>)) EXCEPT !.api = <<api>>, !.stream = "true"]

FilePart(name, bytes) == [name |-> name, file |-> "f.png", declared |-> "", ext |-> "image/png", sniffed |-> "", text |-> bytes]
FieldPart(name, text) == [name |-> name, file |-> "", declared |-> "", ext |-> "", sniffed |-> "", text |-> text]
Upload(parts) == [ChatRequest(<<>>) EXCEPT !.api = <<"images.edits">>, !.type = "multipart/form-data",
                                           !.body = [k |-> "multipart", parts |-> parts]]
Edit == <<FieldPart("prompt", <<"draw">>), FilePart("image", <<"i">>)>>
EditRequests == {Upload(Edit), Upload(Edit \o <<FilePart("mask", <<"x">>)>>), Upload(Edit \o <<FilePart("mask", <<>>)>>),
                 Upload(Edit \o <<FieldPart("mask", <<"x">>)>>), Upload(<<FilePart("mask", <<"x">>)>> \o Edit),
                 Upload(<<FieldPart("prompt", <<"a", "b", "c">>), FilePart("image", <<"i">>)>>),
                 Upload(Edit \o [i \in 1..DefaultInlineMaxCount |-> FilePart("image", <<"j">>)]),
                 Upload(<<FieldPart("prompt", <<"draw">>)>>),
                 [Upload(<<>>) EXCEPT !.type = "application/json", !.body = JsonBody(Obj("prompt" :> Str(<<"draw">>)))]}
ImageRequest(format) == [Plain("model" :> Str(<<"m">>) @@ "prompt" :> Str(<<"draw">>) @@ "response_format" :> Str(<<format>>))
                         EXCEPT !.api = <<"images.generations">>]
GeminiRequest == [Plain(NoFields) EXCEPT !.api = <<"gemini.generateContent">>, !.route = <<"pro">>,
                                         !.path = <<"/", "models", "pro", ":generateContent">>]

MCRequests == ChatRequests \cup EditRequests \cup {ImageRequest("url"), ImageRequest("b64_json"), GeminiRequest} \cup
              {Streaming("chat.completions"), Streaming("claude.messages"), Streaming("responses")}

MinimaxAnswer(k, vals) == Obj("data" :> Obj(k :> Arr([i \in 1..Len(vals) |-> Str(<<vals[i]>>)])))
ImageAnswers == {MinimaxAnswer("image_urls", <<"u1", "u2", "u3">>), MinimaxAnswer("image_base64", <<"b">>), MinimaxAnswer("image_urls", <<>>),
                 Obj("base_resp" :> Obj("status_code" :> Num(7)))}
MCAnswers == <<"images.generations">> :> ImageAnswers @@
             <<"images.edits">> :> {Obj("candidates" :> Arr(<<>>)),
                 Obj("candidates" :> Arr(<<Obj("content" :> Obj("parts" :> Arr(<<Obj("inlineData" :> Obj("data" :> Str(<<"b">>)))>>)))>>))} @@
             <<"chat.completions">> :> {Obj("model" :> Str(<<"up-m">>) @@ "usage" :> Counts("prompt_tokens" :> 9))}
MCListings == {Obj("left" :> Num(5) @@ "hard_limit_usd" :> Num(2) @@ "data" :> Arr(<<Obj("id" :> Str(<<"gpt">>)), Obj("id" :> Str(<<"gpt">>))>>)),
               Obj("total_usage" :> Num(50) @@ "models" :> Arr(<<Obj("name" :> Str(<<"models/", "pro">>))>>))}
MCChannel == "channel.key" :> <<"key">>
=============================================================================
