-------------------------------- MODULE Dsl --------------------------------
(***************************************************************************)
(* A provider file from its text to the requests it shapes.  The file is   *)
(* parsed (DslParser), checked (DslValidate) and served; each request is   *)
(* read, routed and rewritten by it (buildProxyCtx), and the answer, whole *)
(* or as a stream of events, is metered and rewritten on its way back.     *)
(* Upstream errors, retries and the bytes of a stream are in Exchange.     *)
(***************************************************************************)
EXTENDS DslValidate, DslQuery, RequestTransform, UsageFacts

CONSTANTS Channel,       \* the fields of the upstream key: builtin variable to text
          Requests,      \* what clients send, conversations apart
          Answers,       \* api to the documents an upstream answers with
          Streams,       \* api to the event sequences an upstream streams
          Listings,      \* documents that answer a balance or models query
          MaxTalk        \* bound on the messages of a conversation

VARIABLES stage,    \* "reading", "serving", "sent", "inlining", "answered" or "refused"
          provider, \* the file that is served
          talk,     \* the conversation so far
          asked,    \* the request that is answered
          sent,     \* what it became
          heard,    \* events of the upstream
          meter,    \* the metrics aggregator
          counts,   \* changes each response rule made to the stream so far
          told,     \* what the client gets: the answer, or the events
          fetches   \* per link of the answer: "waiting", "fetching", "done" or "failed"

rvars == <<stage, provider, talk, asked, sent, heard, meter, counts, told, fetches>>
vars == <<pvars, rvars>>

(***************************************************************************)
(* Loading.                                                                *)
(***************************************************************************)
NotSent == [ok |-> FALSE, why |-> ""]
Idle(st, p, t) == /\ stage' = st /\ provider' = p /\ talk' = t
                  /\ asked' = NotSent /\ sent' = NotSent
                  /\ heard' = <<>> /\ meter' = Aggregator /\ counts' = <<>> /\ told' = <<>> /\ fetches' = <<>>

Parse == stage = "reading" /\ PNext /\ UNCHANGED rvars

Load == /\ stage = "reading" /\ outcome # "parsing"
        /\ \E p \in {BuildProviderFile(Parsed)} :
              IF outcome = "parsed" /\ p.ok THEN Idle("serving", p, talk) ELSE Idle("refused", provider, talk)
        /\ UNCHANGED pvars

(***************************************************************************)
(* Requests.  A request is [api, stream, path, query, body, type,          *)
(* encoding, headers, route, override]: route is the model its path names, *)
(* override the one its access token insists on.                           *)
(***************************************************************************)
\* requestPathCarriesValue, of the paths one field deep.
CarriesValue(v) == CASE v.t = "null" -> FALSE
                     [] v.t = "arr" -> v.e # <<>>
                     [] v.t = "obj" -> v.f # NoFields
                     [] v.t = "str" -> v.s # <<>>
                     [] OTHER -> TRUE
BodyPaths(root) == IF root.ok THEN {<<"$", k>> : k \in {f \in DOMAIN root.v.f : CarriesValue(root.v.f[f])}} ELSE {}

\* readRequestBody and buildProxyCtx: the body's model, else the path's; the token's first.
ModelOf(r, snapshot) == IF r.override # <<>> THEN r.override
                        ELSE IF snapshot.model # <<>> THEN snapshot.model ELSE r.route
RootOf(r, snapshot) == IF r.override # <<>> THEN ReplaceModel(snapshot.root, r.override) ELSE snapshot.root

\* RequestHasUploadedFile reads the body once more.
NewMeta(r, snapshot) ==
    [vars |-> [b \in Builtins |-> IF b = "request.model" THEN ModelOf(r, snapshot)
                                  ELSE IF b \in DOMAIN Channel THEN Channel[b] ELSE <<>>],
     body |-> BodyPaths(RootOf(r, snapshot)), files |-> snapshot.files, headers |-> r.headers,
     prices |-> Empty, credential |-> <<>>, derived |-> NoObject,
     request |-> IF snapshot.root.ok THEN RootOf(r, snapshot).v ELSE NoObject]

\* selectRequestTransform maps the model before routing looks at it.
MappedMeta(meta, t) == [meta EXCEPT !.vars["request.model_mapped"] = MapModel(t, meta)]

\* replaceGeminiModelInPath; a path of the Gemini API is <<"/", "models", model, action>>.
ReplaceGeminiModelInPath(path, model) ==
    IF model # <<>> /\ Len(path) = 4 /\ path[2] = "models" THEN [path EXCEPT ![3] = model[1]] ELSE path
\* applyGeminiModelRewrite
GeminiAPIs == {<<"gemini.generateContent">>, <<"gemini.streamGenerateContent">>, <<"gemini.predictLongRunning">>,
               <<"gemini.getOperation">>, <<"gemini.videoContent">>}
GeminiModelRewrite(api, path, mapped) ==
    IF api \in GeminiAPIs THEN ReplaceGeminiModelInPath(path, mapped) ELSE path

\* The headers doUpstreamRequest sends: the type of the body, then the rules of the file.
WithToken(meta, phase) ==
    IF ModeOf(phase, "oauth_mode") = <<>> THEN meta
    ELSE [meta EXCEPT !.vars["oauth.access_token"] = <<"token of", ResolveOAuth(phase, meta).mode>>]
UpstreamHeaders(meta, phase, type) ==
    ApplyHeaders(WithToken(meta, phase),
                 <<"Content-Type">> :> <<<<IF type # "" THEN type ELSE "application/json">>>>, phase)

NotBuilt(why) == [ok |-> FALSE, why |-> why]
ReadyCtx(p, r, meta, route, out) ==
    IF ~route.ok THEN NotBuilt(IF "form" \in route.why THEN "route form" ELSE "route empty")
    ELSE IF ~out.ok THEN NotBuilt(out.why)
    ELSE [ok |-> TRUE, why |-> "", base |-> route.base, query |-> route.query,
          path |-> GeminiModelRewrite(r.api, route.path, meta.vars["request.model_mapped"]),
          body |-> out.body, type |-> out.type, root |-> out.root,
          headers |-> UpstreamHeaders(meta, SelectedHeaders(p, r.api, r.stream), out.type),
          meta |-> [meta EXCEPT !.request = IF out.seen.ok THEN out.seen.v ELSE @]]
RoutedCtx(p, r, snapshot, t, meta) ==
    ReadyCtx(p, r, meta,
             ApplyRouting(p, r.api, r.stream, meta, ReplaceGeminiModelInPath(r.path, meta.vars["request.model"]), r.query),
             Apply(meta, [body |-> r.body, type |-> r.type, root |-> RootOf(r, snapshot), encoding |-> r.encoding,
                          query |-> r.query], t, meta.vars["request.model_mapped"]))
SelectedCtx(p, r, snapshot, t) == RoutedCtx(p, r, snapshot, t, MappedMeta(NewMeta(r, snapshot), t))
ReadCtx(p, r, snapshot) ==
    IF ~snapshot.ok THEN NotBuilt("client")
    ELSE IF SelectMatch(p.headers, r.api, r.stream) = 0 THEN NotBuilt("no match")
    ELSE SelectedCtx(p, r, snapshot, SelectedRequest(p, r.api, r.stream))
BuildProxyCtx(p, r) == ReadCtx(p, r, Inspect(r.body, r.type, AllowNonJSONRequestBodyAPI(r.api)))

(***************************************************************************)
(* Conversations.  A client says what the chat API lets it say: a system   *)
(* message first, every call of a tool answered, and in any order.         *)
(***************************************************************************)
CallNames == <<"c1", "c2", "c3", "c4", "c5", "c6">>
Called(t) == FlattenSeq([i \in 1..Len(t) |-> [j \in 1..Len(t[i].calls) |-> t[i].calls[j].id]])
Pending(t) == {Called(t)[i] : i \in 1..Len(Called(t))} \ {t[i].of : i \in 1..Len(t)}
NewCall(t, n) == Call(CallNames[Len(Called(t)) + n], "look", "object")

Words(role, vs) == ChatMessage(role, Len(vs) = 1, [i \in 1..Len(vs) |-> Part("text", <<vs[i]>>)], <<>>, "")
UserSays == {Words("user", <<"u">>), Words("user", <<"u", "v">>),
             ChatMessage("user", FALSE, <<Part("text", <<"u">>), Part("data", <<"pic">>)>>, <<>>, "")}
AssistantSays(t) == {Words("assistant", <<"a">>),
                     [ChatText("assistant", <<>>) EXCEPT !.calls = <<NewCall(t, 1)>>],
                     [Words("assistant", <<"a">>) EXCEPT !.calls = <<NewCall(t, 1), NewCall(t, 2)>>]}
Says(t) == IF Pending(t) # {} THEN {[m EXCEPT !.of = id] : m \in {Words("tool", <<"r">>), Words("tool", <<"r", "s">>)},
                                                           id \in Pending(t)}
           ELSE IF t = <<>> THEN UserSays \cup {Words("system", <<"rules">>), Words("developer", <<"rules">>)}
           ELSE IF t[Len(t)].role = "user" THEN AssistantSays(t)
           ELSE IF t[Len(t)].role = "tool" THEN AssistantSays(t) \cup UserSays
           ELSE UserSays

ChatRequest(ms) ==
    [api |-> <<"chat.completions">>, stream |-> "false", path |-> <<"/", "v1", "chat">>, query |-> Empty,
     type |-> "application/json", encoding |-> "", headers |-> Empty, route |-> <<>>, override |-> <<>>,
     body |-> JsonBody(Obj("model" :> Str(<<"m">>) @@ "messages" :> Chat(ms)))]
\* A Claude client's form of the same conversation.
ClaudeRequest(ms) == [ChatRequest(ms) EXCEPT !.api = <<"claude.messages">>,
                                             !.body = JsonBody(MapOpenAIToClaude(ChatRequest(ms).body.v).v)]

Serves(api) == provider.ok /\ HasMatchAPI(provider.headers, api)
Talks == \E i \in 1..Len(provider.matches) : Given(provider.matches[i], "req_map") /\
             provider.matches[i]["req_map"][1] \in {"openai_chat_to_openai_responses", "anthropic_to_openai_chat",
                 "openai_chat_to_anthropic_messages", "openai_chat_to_gemini_generate_content"}

Say(m) == /\ stage = "serving" /\ Talks /\ Len(talk) < MaxTalk
          /\ talk' = Append(talk, m)
          /\ UNCHANGED <<pvars, stage, provider, asked, sent, heard, meter, counts, told, fetches>>

ResponseOf(r) == SelectedResponse(provider, r.api, r.stream)
UsageOf(r) == SelectedUsage(provider, r.api, r.stream) @@ SelectedFinish(provider, r.api, r.stream)

Serve(r) == /\ stage = "serving" /\ Serves(r.api)
            /\ \E out \in {BuildProxyCtx(provider, r)} :
                  /\ asked' = r /\ sent' = out
                  /\ stage' = IF out.ok THEN "sent" ELSE "answered"
            /\ counts' = [i \in 1..Len(Get(ResponseOf(r), "resp_ops", <<>>)) |-> 0]
            /\ UNCHANGED <<pvars, provider, talk, heard, meter, told, fetches>>

(***************************************************************************)
(* Answers.                                                                *)
(***************************************************************************)
ImageModes == {"gemini_to_openai_images", "minimax_image_to_openai_images", "qwen_image_to_openai_images",
               "ppio_video_create_to_openai_videos", "ppio_video_result_to_openai_videos"}
\* mapNonStreamResponse; the modes of chats are in Exchange.
MapNonStreamResponse(cfg, doc) ==
    LET resp == Get(cfg, "resp", [op |-> "", mode |-> <<>>])
    IN  IF resp.op = "resp_map" /\ resp.mode[1] \in ImageModes THEN MapImageResponse(resp.mode[1], doc) ELSE Mapped(doc)

\* collectTargets: the entries a resp_inline_url rule $.list[*].field points at, a
\* non-blank link in each; gateAllows reads the client's document as the rules left it.
InlineRule(cfg) == Get(cfg, "inline_url", NoFields)
LinkList(cfg) == LET p == OptText(InlineRule(cfg), "path") IN IF Len(p) = 4 THEN p[2] ELSE ""
LinkField(cfg) == LET p == OptText(InlineRule(cfg), "path") IN p[Len(p)]
GateAllows(cfg, seen) ==
    LET when == OptText(InlineRule(cfg), "when_request")
    IN  when = <<>> \/ (seen # NoObject /\ GetStringByPath(seen, when) = OptText(InlineRule(cfg), "when_eq"))
CollectTargets(cfg, seen, doc) ==
    IF LinkList(cfg) = "" \/ ~GateAllows(cfg, seen) \/ ~Has(doc, LinkList(cfg)) \/ doc.f[LinkList(cfg)].t # "arr" THEN {}
    ELSE LET list == doc.f[LinkList(cfg)].e
         IN  {i \in 1..Len(list) : Has(list[i], LinkField(cfg)) /\ list[i].f[LinkField(cfg)].s # <<>>}

\* handleNonStream: mapped, metered, links fetched, rules applied.  told is the document.
Answer(doc) ==
    /\ stage = "sent" /\ asked.stream = "false"
    /\ \E mapped \in {MapNonStreamResponse(ResponseOf(asked), doc)} :
          IF ~mapped.ok THEN stage' = "answered" /\ UNCHANGED <<told, fetches>>
          ELSE /\ stage' = "inlining" /\ told' = <<mapped.v>>
               /\ fetches' = [i \in CollectTargets(ResponseOf(asked), sent.meta.request, mapped.v) |-> "waiting"]
    /\ heard' = <<[name |-> "", root |-> doc]>>
    /\ UNCHANGED <<pvars, provider, talk, asked, sent, meter, counts>>

\* One goroutine per link, at most concurrency= of them between sem <- and <-sem.
Concurrency == Number(InlineRule(ResponseOf(asked)), "concurrency", 4)
StartFetch(i) == /\ stage = "inlining" /\ fetches[i] = "waiting"
                 /\ Cardinality({j \in DOMAIN fetches : fetches[j] = "fetching"}) < Concurrency
                 /\ fetches' = [fetches EXCEPT ![i] = "fetching"]
                 /\ UNCHANGED <<pvars, stage, provider, talk, asked, sent, heard, meter, counts, told>>

\* Mutant: the link goes before its content has come.
DropLink(cfg, doc, i, good) ==
    LET owner == doc.f[LinkList(cfg)].e[i]
        new == (IF good THEN OptText(InlineRule(cfg), "set")[1] :> Str(<<"content">>) ELSE NoFields) @@
               Restrict(owner.f, DOMAIN owner.f \ {LinkField(cfg)})
    IN  Obj([doc.f EXCEPT ![LinkList(cfg)] = Arr([@.e EXCEPT ![i] = Obj(new)])])

\* The content goes in and the link goes out, on success only.
InlineLink(cfg, doc, i, good) ==
    LET owner == doc.f[LinkList(cfg)].e[i]
        set == OptText(InlineRule(cfg), "set")[1]
        new == Restrict((set :> Str(<<"content">>)) @@ owner.f, (DOMAIN owner.f \cup {set}) \ {LinkField(cfg)})
    IN  IF good THEN Obj([doc.f EXCEPT ![LinkList(cfg)] = Arr([@.e EXCEPT ![i] = Obj(new)])]) ELSE doc

EndFetch(i, good) == /\ stage = "inlining" /\ fetches[i] = "fetching"
                     /\ fetches' = [fetches EXCEPT ![i] = IF good THEN "done" ELSE "failed"]
                     /\ told' = <<InlineLink(ResponseOf(asked), told[1], i, good)>>
                     /\ UNCHANGED <<pvars, stage, provider, talk, asked, sent, heard, meter, counts>>

\* wg.Wait is over; the rules of the file come last.
FinishAnswer == /\ stage = "inlining"
                /\ \A i \in DOMAIN fetches : fetches[i] \in {"done", "failed"}
                /\ stage' = "answered"
                /\ \E out \in {ApplyJSONOps(sent.meta, told[1], Get(ResponseOf(asked), "resp_ops", <<>>))} :
                      told' = IF out.err THEN <<>> ELSE <<out.v>>
                /\ UNCHANGED <<pvars, provider, talk, asked, sent, heard, meter, counts, fetches>>

\* The metrics tap sees an event before the rules rewrite it for the client.
StreamEvent(e) ==
    /\ stage = "sent" /\ asked.stream = "true"
    /\ \E out \in {ApplyOps(sent.meta, ApplySSEJSONDelIf(e.root, Get(ResponseOf(asked), "sse_del_if", <<>>)),
                            Get(ResponseOf(asked), "resp_ops", <<>>), e.name, counts)} :
          /\ counts' = out.counts
          /\ told' = Append(told, IF out.err THEN e.root ELSE out.v)
    /\ meter' = OnEvent(sent.meta, UsageOf(asked), meter, e)
    /\ heard' = Append(heard, e)
    /\ UNCHANGED <<pvars, stage, provider, talk, asked, sent, fetches>>

EndStream == /\ stage = "sent" /\ asked.stream = "true"
             /\ stage' = "answered"
             /\ UNCHANGED <<pvars, provider, talk, asked, sent, heard, meter, counts, told, fetches>>

\* An error, or no answer at all; what the client is told of it is in Exchange.
UpstreamFails == /\ stage = "sent" /\ asked.stream = "false"
                 /\ stage' = "answered"
                 /\ UNCHANGED <<pvars, provider, talk, asked, sent, heard, meter, counts, told, fetches>>

\* An operator asks for the balance of the channel, or for its models; a call may fail,
\* and the second of two is not made after the first has failed.
QueryMeta == NewMeta([headers |-> Empty, override |-> <<>>, route |-> <<>>], Nothing)
Listed == {Found(doc) : doc \in Listings} \cup {Missing}
CallsMade(calls, first) == IF first.ok \/ calls = <<>> THEN calls ELSE <<calls[1]>>
QueryBalance(docs) ==
    /\ stage = "serving" /\ Given(provider.balance, "balance_mode")
    /\ stage' = "answered"
    /\ sent' = [ok |-> FALSE, why |-> "query", calls |-> CallsMade(BalanceRequests(provider, QueryMeta), docs[1]),
                balance |-> BalanceOf(provider.balance, docs)]
    /\ UNCHANGED <<pvars, provider, talk, asked, heard, meter, counts, told, fetches>>
QueryModels(doc) ==
    /\ stage = "serving" /\ Given(provider.models, "models_mode")
    /\ stage' = "answered"
    /\ sent' = [ok |-> FALSE, why |-> "query", calls |-> ModelsRequest(provider, QueryMeta),
                ids |-> IF doc.ok THEN ExtractModelIDs(provider.models, doc.v) ELSE <<>>]
    /\ UNCHANGED <<pvars, provider, talk, asked, heard, meter, counts, told, fetches>>

\* The next request; and the file is read again.
NextRequest == /\ stage = "answered"
               /\ Idle("serving", provider, talk) /\ UNCHANGED pvars
ReadAgain == /\ stage \in {"serving", "refused"} /\ talk = <<>>
             /\ pos' = 1 /\ stack' = <<>> /\ scopes' = NoScopes /\ header' = <<>> /\ modes' = [m \in {} |-> <<>>]
             /\ outcome' = "parsing" /\ UNCHANGED toks
             /\ Idle("reading", [ok |-> FALSE], <<>>)

Init == /\ PInit
        /\ stage = "reading" /\ provider = [ok |-> FALSE] /\ talk = <<>>
        /\ asked = NotSent /\ sent = NotSent
        /\ heard = <<>> /\ meter = Aggregator /\ counts = <<>> /\ told = <<>> /\ fetches = <<>>

Talking == IF talk = <<>> THEN {} ELSE {ChatRequest(talk), ClaudeRequest(talk)}
At1(f, api) == IF api \in DOMAIN f THEN f[api] ELSE {}
\* What an upstream may stream next.
Coming == {s[Len(heard) + 1] : s \in {x \in At1(Streams, asked.api) : Len(x) > Len(heard) /\ IsPrefix(heard, x)}}

Next == \/ Parse \/ Load
        \/ stage = "serving" /\ \E m \in Says(talk) : Say(m)
        \/ \E r \in Requests \cup Talking : Serve(r)
        \/ stage = "sent" /\ \E doc \in At1(Answers, asked.api) : Answer(doc)
        \/ \E i \in DOMAIN fetches : StartFetch(i) \/ EndFetch(i, TRUE) \/ EndFetch(i, FALSE)
        \/ FinishAnswer
        \/ stage = "sent" /\ \E e \in Coming : StreamEvent(e)
        \/ \E a, b \in Listed : QueryBalance(<<a, b>>)
        \/ \E a \in Listed : QueryModels(a)
        \/ UpstreamFails \/ EndStream \/ NextRequest \/ ReadAgain

Spec == Init /\ [][Next]_vars

(***************************************************************************)
(* Properties.                                                             *)
(***************************************************************************)
\* A conversation as [system, said, tools]: words and pictures by who said them, and the
\* calls of tools with their answers in order.  Line breaks and the punctuation of a list
\* of parts may change on the way.
Layout == {"nl", "[", ",", "]"}
Atoms(tag, v) == LET kept == SelectSeq(v, LAMBDA a : a \notin Layout) IN [i \in 1..Len(kept) |-> tag \o <<kept[i]>>]
Each(seq, F(_)) == FlattenSeq([i \in 1..Len(seq) |-> F(seq[i])])
PartsBy(role, parts) == Each(parts, LAMBDA p : Atoms(<<role, p.k>>, p.v))
Rules == {"system", "developer"}

ChatConversation(ms) ==
    [system |-> Each(ms, LAMBDA m : IF m.role \in Rules THEN PartsBy("", m.parts) ELSE <<>>),
     said |-> Each(ms, LAMBDA m : IF m.role \in {"user", "assistant"} THEN PartsBy(m.role, m.parts) ELSE <<>>),
     tools |-> Each(ms, LAMBDA m : IF m.role = "tool" THEN Each(m.parts, LAMBDA p : Atoms(<<"result", m.of>>, p.v))
                                   ELSE [i \in 1..Len(m.calls) |-> <<"call", m.calls[i].id, m.calls[i].name>>])]

ClaudeConversation(root) ==
    LET ms == root.f["messages"].m
        Speech(b) == b.k \notin {"tool_use", "tool_result"}
        Tool(b) == IF b.k = "tool_use" THEN <<<<"call", b.id, b.name>>>> ELSE Atoms(<<"result", b.id>>, b.v)
    IN  [system |-> PartsBy("", Value(root, "system", [m |-> <<>>]).m),
         said |-> Each(ms, LAMBDA m : PartsBy(m.role, SelectSeq(m.blocks, Speech))),
         tools |-> Each(ms, LAMBDA m : Each(SelectSeq(m.blocks, LAMBDA b : ~Speech(b)), Tool))]

ResponsesConversation(root) ==
    LET items == root.f["input"].m
        Tool(x) == IF x.k = "function_call" THEN <<<<"call", x.id, x.name>>>>
                   ELSE Each(x.parts, LAMBDA p : Atoms(<<"result", x.id>>, p.v))
    IN  [system |-> Atoms(<<"", "text">>, TextAt(root, "instructions")),
         said |-> Each(items, LAMBDA x : IF x.k = "message" THEN PartsBy(x.role, x.parts) ELSE <<>>),
         tools |-> Each(items, LAMBDA x : IF x.k = "message" THEN <<>> ELSE Tool(x))]

\* Gemini has no place for tools, nor for a developer; the rules are the user's words.
GeminiSaid(root) ==
    LET cs == SelectSeq(root.f["contents"].m, LAMBDA c : c # Okay /\ c.role \in {"user", "model"})
    IN  Each(cs, LAMBDA c : PartsBy(IF c.role = "model" THEN "assistant" ELSE "user", c.parts))
SaidToGemini(ms) == Each(ms, LAMBDA m : IF m.role = "system" THEN PartsBy("user", m.parts)
                                        ELSE IF m.role \in {"user", "assistant"} THEN PartsBy(m.role, m.parts) ELSE <<>>)

\* What comes back to a chat upstream from a Claude client has no pictures.
NoPictures(c) == [c EXCEPT !.said = SelectSeq(@, LAMBDA x : x[2] # "data")]

\* ConversationSurvives: whatever was said, called and answered, and by whom, is what the mapped
\* request says, calls and answers: words, calls and results each in their own order, since a
\* map may put the calls of a message before its text (req_map of conversations).
ConversationSurvives ==
    (stage = "sent" /\ talk # <<>> /\ asked \in {ChatRequest(talk), ClaudeRequest(talk)}) =>
        LET mode == Get(SelectedRequest(provider, asked.api, asked.stream), "req_map", <<"none">>)[1]
            said == ChatConversation(talk)
        IN  CASE mode = "openai_chat_to_anthropic_messages" -> ClaudeConversation(sent.root.v) = said
              [] mode = "openai_chat_to_openai_responses" -> ResponsesConversation(sent.root.v) = said
              [] mode = "openai_chat_to_gemini_generate_content" -> GeminiSaid(sent.root.v) = SaidToGemini(talk)
              [] mode = "anthropic_to_openai_chat" -> ChatConversation(Messages(sent.root.v)) = NoPictures(said)
              [] OTHER -> TRUE

\* The answer an upstream would have given at once: the last count of every kind that it
\* streamed, wherever in an event it stood.
CountsIn(root) ==
    LET S == {p \in {<<"$", "usage">>, <<"$", "message", "usage">>, <<"$", "response", "usage">>} : JsonGet(root, p).v.t = "obj"}
    IN  IF S = {} THEN NoObject ELSE JsonGet(root, CHOOSE p \in S : TRUE).v
WholeAnswer(events) ==
    LET kinds == UNION {DOMAIN CountsIn(events[i].root).f : i \in 1..Len(events)}
        Where(k) == {i \in 1..Len(events) : Has(CountsIn(events[i].root), k) /\ ~IsEmptyValue(CountsIn(events[i].root).f[k])}
    IN  Obj("usage" :> Obj([k \in {x \in kinds : Where(x) # {}} |-> CountsIn(events[Max(Where(k))].root).f[k]]))
TokensOf(r) == IF r.ok THEN [f \in {"in", "out", "read", "write", "total"} |-> r.v[f]]
               ELSE [f \in {"in", "out", "read", "write", "total"} |-> 0]

\* StreamMetersLikeAnswer: a stream that ran to its end is metered like the same answer in
\* one piece, each by the match block of the file that is for it (stream_metrics.go).
StreamMetersLikeAnswer ==
    (stage = "sent" /\ asked.stream = "true" /\ heard \in At1(Streams, asked.api)
        /\ SelectMatch(provider.headers, asked.api, "false") # 0) =>
        TokensOf(Result(sent.meta, UsageOf(asked), meter).usage) =
        TokensOf(ExtractUsage(sent.meta, UsageOf([asked EXCEPT !.stream = "false"]), Found(WholeAnswer(heard))))

\* LoadedFilesEvaluate: what the validator let through the evaluator can use.  A request of
\* a served file fails on a value that is empty, never on the form of an expression, its
\* path is absolute when the file sets it, and so is the URL of a balance or models query.
LoadedFilesEvaluate ==
    stage \in {"sent", "answered"} =>
        /\ sent.why # "route form"
        /\ (sent.ok /\ Given(Over(provider, asked.api, asked.stream), "set_path")) => StartsWith(sent.path, "/")
        /\ sent.why = "query" => \A i \in 1..Len(sent.calls) : sent.calls[i].url.ok /\ IsAbsolute(sent.calls[i].url.v)

\* UploadsAgree: a path that if_present chooses by an uploaded file, and the payload that is
\* made of the upload, agree on whether the file was there (requestHasUploadedFile looks at
\* the form, the mapping at the document).
IfPresentField(e) == IF IsCall(e, "if_present") THEN Text(CallArgs(e)[1])[2] ELSE ""
UploadsAgree ==
    (stage = "sent" /\ asked.body.k = "multipart" /\ asked.api = <<"images.edits">>) =>
        LET path == Get(Over(provider, asked.api, asked.stream), "set_path", <<>>)
            masks == Named(asked.body.parts, "mask")
        IN  (IfPresentField(path) = "mask" /\ \A i \in 1..Len(masks) : IsFile(masks[i]) /\ masks[i].text # <<>>) =>
                (sent.path = Text(CallArgs(path)[2]) <=> Contains(sent.root.v.f["parts"].e, MaskInstruction))

\* AssetsAreKept: while links are fetched side by side, every entry of the answer has its
\* link or, in its place, the content, and nothing else of the answer changes (respinline.go).
OnlyLinksChange(list, set, field, before, now) ==
    /\ Restrict(now.f, DOMAIN now.f \ {list}) = Restrict(before.f, DOMAIN before.f \ {list})
    /\ \A i \in 1..Len(before.f[list].e) :
          LET old == before.f[list].e[i]
              new == now.f[list].e[i]
          IN  IF i \in DOMAIN fetches /\ fetches[i] = "done"
              THEN /\ Has(new, set)
                   /\ \A k \in DOMAIN old.f \ {field, set} : Has(new, k) /\ new.f[k] = old.f[k]
              ELSE new = old
LinksOf(cfg, before, now) ==
    OnlyLinksChange(LinkList(cfg), OptText(InlineRule(cfg), "set")[1], LinkField(cfg), before, now)
AssetsAreKept ==
    (stage = "inlining" /\ DOMAIN fetches # {}) =>
        LinksOf(ResponseOf(asked), MapNonStreamResponse(ResponseOf(asked), heard[1].root).v, told[1])
=============================================================================
