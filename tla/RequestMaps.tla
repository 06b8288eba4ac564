---------------------------- MODULE RequestMaps ----------------------------
(***************************************************************************)
(* The req_map builtins that turn a conversation of one API into another   *)
(* (requesttransform.go, apitransform claude_openai.go, gemini_openai.go,  *)
(* openai_chat_to_responses.go).                                           *)
(*                                                                         *)
(* A request is a JSON object.  The conversation is one opaque value of    *)
(* it, [t |-> "chat", m |-> messages], that JSON operations do not reach   *)
(* into.  A chat message is [role, plain, parts, calls, of]: plain says    *)
(* that the content is a string (one part, or none for null), of is the    *)
(* tool_call_id.  A part is [k |-> type, v |-> text]; a text of <<>> is    *)
(* blank, "data" and "link" are the two forms of an image_url.  A call is  *)
(* [id, name, args], args one of "object", "" and "broken".                *)
(***************************************************************************)
EXTENDS JsonValue

Chat(ms) == [t |-> "chat", m |-> ms]
Part(k, v) == [k |-> k, v |-> v]
Call(id, name, args) == [id |-> id, name |-> name, args |-> args]

Mapped(v) == [ok |-> TRUE, v |-> v, why |-> ""]
Refused(why) == [ok |-> FALSE, v |-> Null, why |-> why]   \* "client" answers 400, "form" 500

Value(root, k, default) == IF Has(root, k) THEN root.f[k] ELSE default
Copy(root, from, to) == IF Has(root, from) THEN to :> root.f[from] ELSE NoFields
CopyAll(root, ks) == Obj([k \in ks \cap DOMAIN root.f |-> root.f[k]]).f
NumberOf(root, k) == CoerceFloat(Value(root, k, Num(0)))
NameOf(root, k) == LET v == Value(root, k, Str(<<>>)) IN IF v.t = "str" /\ v.s # <<>> THEN v.s[1] ELSE ""
Messages(root) == LET v == Value(root, "messages", Chat(<<>>)) IN IF v.t = "chat" THEN v.m ELSE <<>>

MaxOf(a, b) == IF a > b THEN a ELSE b
JoinTexts(ts, sep) == FlattenSeq([i \in 1..Len(ts) |-> IF i = 1 THEN ts[i] ELSE sep \o ts[i]])
TextsOf(parts) == SelectSeq([i \in 1..Len(parts) |-> parts[i].v], LAMBDA v : v # <<>>)

(***************************************************************************)
(* OpenAI chat to Claude messages.                                         *)
(***************************************************************************)
DefaultAnthropicMaxTokens == 64000
ClaudeModelMaxTokensExact == "claude-opus-4-6" :> 128000 @@ "claude-opus-4-1" :> 32000 @@
                             "claude-opus-4-0" :> 32000
ClaudeModelMaxTokens(model) == IF model \in DOMAIN ClaudeModelMaxTokensExact
                               THEN ClaudeModelMaxTokensExact[model] ELSE DefaultAnthropicMaxTokens

SupportsAdaptiveThinking(model) == model \in {"claude-opus-4-6", "claude-sonnet-4-6"}
ReasoningEffortBudget == "low" :> 1024 @@ "medium" :> 8192 @@ "high" :> 16384 @@ "xhigh" :> 32768
Thinking(type, budget) == [t |-> "thinking", type |-> type, budget |-> budget]
ConvertReasoningEffortToThinking(effort, model) ==
    IF effort \in {"none", "minimal", "off", "disabled"} THEN Thinking("disabled", 0)
    ELSE IF SupportsAdaptiveThinking(model) THEN Thinking("adaptive", 0)
    ELSE IF effort \in DOMAIN ReasoningEffortBudget THEN Thinking("enabled", ReasoningEffortBudget[effort])
    ELSE Thinking("disabled", 0)

\* A fallback is [model, max, thinking], 0 and "" when it says nothing.
NormalizeFallback(fb) ==
    [fb EXCEPT !.max = IF @ > ClaudeModelMaxTokens(fb.model) THEN ClaudeModelMaxTokens(fb.model) ELSE @,
               !.thinking = IF @ = Thinking("adaptive", 0) /\ ~SupportsAdaptiveThinking(fb.model)
                            THEN Thinking("enabled", ReasoningEffortBudget["high"]) ELSE @]
Fallbacks(root) ==
    IF ~Has(root, "fallbacks") THEN NoFields
    ELSE LET l == root.f["fallbacks"].l
         IN  "fallbacks" :> [t |-> "fallbacks", l |-> [i \in 1..Len(l) |-> NormalizeFallback(l[i])]]

\* normalizeStopSequences: a string, or the entries of a list that are not blank.
NormalizeStopSequences(root) ==
    LET v == Value(root, "stop", Strs(<<>>))
        l == SelectSeq(IF v.t = "str" THEN <<v.s>> ELSE v.l, LAMBDA s : s # <<>>)
    IN  IF l = <<>> THEN NoFields ELSE "stop_sequences" :> Strs(l)

\* Tools are [type, name]; a choice is [mode, name], the name that of a function.
BuildClaudeTools(root) ==
    LET Kept == {"", "function", "web_search"}
        l == SelectSeq(Value(root, "tools", Strs(<<>>)).l, LAMBDA x : x.type \in Kept)
    IN  [i \in 1..Len(l) |-> IF l[i].type = "web_search" THEN [type |-> "web_search_20260209", name |-> "web_search"]
                             ELSE [type |-> "function", name |-> l[i].name]]
BuildClaudeToolChoice(root) ==
    LET c == Value(root, "tool_choice", [t |-> "choice", mode |-> "auto", name |-> ""])
    IN  IF c.name # "" THEN [c EXCEPT !.mode = "tool"]
        ELSE IF c.mode = "required" THEN [c EXCEPT !.mode = "any"] ELSE c
ToolFields(root) ==
    LET tools == BuildClaudeTools(root)
    IN  IF tools = <<>> THEN NoFields
        ELSE "tools" :> [t |-> "tools", l |-> tools] @@ "tool_choice" :> BuildClaudeToolChoice(root)

\* response_format is [type, strict]: strict says that the schema is there and closed.
ConvertResponseFormat(root) ==
    LET rf == Value(root, "response_format", [t |-> "format", type |-> "text", strict |-> FALSE])
    IN  CASE rf.type = "json_object" -> Refused("client")
          [] rf.type = "json_schema" -> IF rf.strict THEN Mapped("output_config" :> rf) ELSE Refused("client")
          [] OTHER -> Mapped(NoFields)

\* buildClaudeBlocks: texts and images; a part of another type counts by its text.
BuildClaudeBlocks(msg) ==
    LET Block(p) == [k |-> IF p.k \in {"data", "link"} THEN p.k ELSE "text", v |-> p.v, id |-> "", name |-> "", args |-> ""]
        kept == SelectSeq(msg.parts, LAMBDA p : p.v # <<>>)
    IN  [i \in 1..Len(kept) |-> Block(kept[i])]
BuildClaudeTextBlocks(msg) == SelectSeq(BuildClaudeBlocks(msg), LAMBDA b : b.k = "text")
ToolUse(c) == [k |-> "tool_use", v |-> <<>>, id |-> c.id, name |-> c.name, args |-> "object"]
Sendable(c) == c.id # "" /\ c.name # ""

\* Mutant: the answer of a tool loses the id of its call.
ToolResultsUnnamed(msg) ==
    LET blocks == BuildClaudeTextBlocks(msg)
    IN  [i \in 1..Len(blocks) |-> [blocks[i] EXCEPT !.k = "tool_result"]]

BuildClaudeToolResults(msg) ==
    LET blocks == BuildClaudeTextBlocks(msg)
    IN  [i \in 1..Len(blocks) |-> [blocks[i] EXCEPT !.k = "tool_result", !.id = msg.of]]

\* buildClaudeMessageContent: the calls come before the text.
BuildClaudeMessageContent(msg) ==
    LET calls == SelectSeq(msg.calls, Sendable)
    IN  [i \in 1..Len(calls) |-> ToolUse(calls[i])] \o BuildClaudeBlocks(msg)

ClaudeMessage(role, blocks) == [role |-> role, plain |-> FALSE, blocks |-> blocks]
ConvertOpenAIChatMessages(ms) ==
    LET One(msg) == CASE msg.role \in {"system", "developer"} -> ClaudeMessage("", <<>>)
                      [] msg.role = "tool" -> ClaudeMessage("user", BuildClaudeToolResults(msg))
                      [] msg.role = "function" -> ClaudeMessage("user", BuildClaudeTextBlocks(msg))
                      [] OTHER -> ClaudeMessage(msg.role, BuildClaudeMessageContent(msg))
        broken == \E i \in 1..Len(ms) : /\ ms[i].role \notin {"system", "developer", "tool", "function"}
                                        /\ \E j \in 1..Len(ms[i].calls) :
                                              Sendable(ms[i].calls[j]) /\ ms[i].calls[j].args = "broken"
    IN  IF broken THEN Refused("form")
        ELSE Mapped(SelectSeq([i \in 1..Len(ms) |-> One(ms[i])], LAMBDA m : m.blocks # <<>>))
ExtractSystemBlocks(ms) ==
    FlattenSeq([i \in 1..Len(ms) |-> IF ms[i].role \in {"system", "developer"}
                                     THEN BuildClaudeTextBlocks(ms[i]) ELSE <<>>])

MapOpenAIToClaude(root) ==
    LET model == NameOf(root, "model")
        asked == MaxOf(NumberOf(root, "max_tokens"), NumberOf(root, "max_completion_tokens"))
        limit == ClaudeModelMaxTokens(model)
        alias == "claude-instant-1" :> "claude-instant-1.1" @@ "claude-2" :> "claude-2.1"
        effort == NameOf(root, "reasoning_effort")
        system == ExtractSystemBlocks(Messages(root))
        messages == ConvertOpenAIChatMessages(Messages(root))
        format == ConvertResponseFormat(root)
    IN  IF ~messages.ok THEN messages
        ELSE IF ~format.ok THEN format
        ELSE Mapped(Obj(
               "model" :> Str(<<IF model \in DOMAIN alias THEN alias[model] ELSE model>>) @@
               "max_tokens" :> Num(IF asked <= 0 \/ asked > limit THEN limit ELSE asked) @@
               "messages" :> [t |-> "claude", m |-> messages.v] @@
               (IF system = <<>> THEN NoFields ELSE "system" :> [t |-> "claude", m |-> system]) @@
               (IF effort = "" THEN NoFields ELSE "thinking" :> ConvertReasoningEffortToThinking(effort, model)) @@
               (IF Value(root, "stream", Bool(FALSE)) = Bool(TRUE) THEN "stream" :> Bool(TRUE) ELSE NoFields) @@
               Copy(root, "user", "metadata") @@ CopyAll(root, {"temperature", "top_p", "service_tier"}) @@
               Fallbacks(root) @@ NormalizeStopSequences(root) @@ ToolFields(root) @@ format.v))

(***************************************************************************)
(* Claude messages to OpenAI chat.  The text of a message comes first,     *)
(* even when it is blank, the answers of tools behind it.                  *)
(***************************************************************************)
ChatMessage(role, plain, parts, calls, of) ==
    [role |-> role, plain |-> plain, parts |-> parts, calls |-> calls, of |-> of]
ChatText(role, text) == ChatMessage(role, TRUE, IF text = <<>> THEN <<>> ELSE <<Part("text", text)>>, <<>>, "")

ClaudeTexts(blocks) == TextsOf(SelectSeq(blocks, LAMBDA b : b.k = "text"))
\* claudeToolUsePart: a name is enough, the id may be missing.
ClaudeToolUses(blocks) ==
    LET uses == SelectSeq(blocks, LAMBDA b : b.k = "tool_use" /\ b.name # "")
    IN  [i \in 1..Len(uses) |-> Call(uses[i].id, uses[i].name, uses[i].args)]
ClaudeToolResults(blocks) ==
    LET results == SelectSeq(blocks, LAMBDA b : b.k = "tool_result" /\ b.id # "")
    IN  [i \in 1..Len(results) |-> [ChatText("tool", results[i].v) EXCEPT !.of = results[i].id]]

MapOneClaudeMessage(msg) ==
    IF msg.role = "" THEN <<>>
    ELSE IF msg.plain THEN <<ChatText(msg.role, JoinTexts(ClaudeTexts(msg.blocks), <<>>))>>
    ELSE <<[ChatText(msg.role, JoinTexts(ClaudeTexts(msg.blocks), <<"nl">>)) EXCEPT
                !.calls = ClaudeToolUses(msg.blocks)]>> \o ClaudeToolResults(msg.blocks)

PrependClaudeSystemMessages(root, ms) ==
    LET texts == ClaudeTexts(Value(root, "system", [t |-> "claude", m |-> <<>>]).m)
    IN  IF texts = <<>> THEN ms ELSE <<ChatText("system", JoinTexts(texts, <<"nl">>))>> \o ms

MapClaudeToOpenAI(root) ==
    LET ms == Value(root, "messages", [t |-> "claude", m |-> <<>>]).m
        mapped == FlattenSeq([i \in 1..Len(ms) |-> MapOneClaudeMessage(ms[i])])
    IN  IF NameOf(root, "model") = "" THEN Refused("form")
        ELSE Mapped(Obj(CopyAll(root, {"model", "stream"}) @@
                        (IF NumberOf(root, "max_tokens") > 0 THEN Copy(root, "max_tokens", "max_tokens") ELSE NoFields) @@
                        "messages" :> Chat(PrependClaudeSystemMessages(root, mapped))))

(***************************************************************************)
(* OpenAI chat to Gemini.  Calls and the answers of tools have no place.   *)
(***************************************************************************)
IsGemini3Model(model) == model \in {"gemini-3-pro", "gemini-3-pro-image", "gemini-3-flash"}
IsGemini25Model(model) == model \in {"gemini-2.5-pro", "gemini-2.5-flash"}

ConvertReasoningEffortToGemini(effort, model) ==
    LET off == effort \in {"none", "disabled", "off"}
        budget == "low" :> 1024 @@ "medium" :> 8192 @@ "high" :> 24576
    IN  IF effort = "" THEN NoFields
        ELSE IF IsGemini3Model(model)
             THEN "thinking" :> Thinking(IF off THEN "none" ELSE IF effort \in DOMAIN budget THEN effort ELSE "medium", 0)
        ELSE IF IsGemini25Model(model)
             THEN "thinking" :> Thinking("budget", IF off THEN 0 ELSE IF effort \in DOMAIN budget THEN budget[effort]
                                                   ELSE budget["medium"])
        ELSE NoFields

BuildGeminiParts(msg) ==
    SelectSeq(msg.parts, LAMBDA p : p.v # <<>> /\ (msg.plain \/ p.k \in {"text", "input_text", "data"}))

GeminiTools(root) ==
    LET l == SelectSeq(Value(root, "tools", Strs(<<>>)).l, LAMBDA x : x.type = "function")
        functions == IF Has(root, "tools") THEN l ELSE Value(root, "functions", Strs(<<>>)).l
    IN  IF functions = <<>> THEN NoFields ELSE "tools" :> [t |-> "tools", l |-> functions]

GeminiFormat(root) ==
    LET rf == Value(root, "response_format", [t |-> "format", type |-> "", strict |-> FALSE])
        mime == "json_object" :> "application/json" @@ "text" :> "text/plain" @@ "json_schema" :> "application/json"
    IN  IF rf.type \in DOMAIN mime THEN "response_mime_type" :> Str(<<mime[rf.type]>>) ELSE NoFields

ConvertModalities(root) ==
    LET l == Value(root, "modalities", Strs(<<>>)).l
    IN  IF IsGemini3Model(NameOf(root, "model")) /\ l # <<>>
        THEN "response_modalities" :> Strs(FoldLeft(LAMBDA out, x : IF Contains(out, x) THEN out ELSE Append(out, x), <<>>, l))
        ELSE NoFields

GeminiContent(role, parts) == [role |-> role, parts |-> parts, calls |-> <<>>]
Okay == GeminiContent("model", <<Part("text", <<"Okay">>)>>)
\* A system message becomes the user's, and the model says Okay to it.
GeminiContents(ms) ==
    LET One(msg) == CASE msg.role = "assistant" -> <<GeminiContent("model", BuildGeminiParts(msg))>>
                      [] msg.role = "system" -> <<GeminiContent("user", BuildGeminiParts(msg)), Okay>>
                      [] OTHER -> <<GeminiContent(msg.role, BuildGeminiParts(msg))>>
    IN  FlattenSeq([i \in 1..Len(ms) |-> One(ms[i])])

MapOpenAIToGemini(root) ==
    LET completion == NumberOf(root, "max_completion_tokens")
        asked == IF completion > 0 THEN completion ELSE NumberOf(root, "max_tokens")
    IN  Mapped(Obj("contents" :> [t |-> "gemini", m |-> GeminiContents(Messages(root))] @@
                   (IF asked = 0 THEN NoFields ELSE "max_output_tokens" :> Num(asked)) @@
                   CopyAll(root, {"temperature", "top_p"}) @@ GeminiFormat(root) @@ GeminiTools(root) @@
                   ConvertModalities(root) @@
                   ConvertReasoningEffortToGemini(NameOf(root, "reasoning_effort"), NameOf(root, "model"))))

(***************************************************************************)
(* Gemini to OpenAI chat.  Calls get the ids call_1, call_2 ... of their   *)
(* own message, and a message with calls loses its text.                   *)
(***************************************************************************)
CallIds == <<"call_1", "call_2", "call_3">>
ConvertGeminiRoleToOpenAI(role) == CASE role = "model" -> "assistant"
                                     [] role \in {"function", "system"} -> role
                                     [] OTHER -> "user"
MapGeminiParts(c) ==
    [media |-> SelectSeq(c.parts, LAMBDA p : p.k \in {"text", "data", "link"} /\ p.v # <<>>),
     calls |-> LET named == SelectSeq(c.calls, LAMBDA x : x.name # "")
               IN  [i \in 1..Len(named) |-> [named[i] EXCEPT !.id = CallIds[i]]]]
MapOneGeminiContent(c) ==
    LET p == MapGeminiParts(c)
        role == ConvertGeminiRoleToOpenAI(c.role)
    IN  IF c.parts = <<>> /\ c.calls = <<>> THEN <<>>
        ELSE IF p.calls # <<>> THEN <<[ChatText(role, <<>>) EXCEPT !.calls = p.calls]>>
        ELSE <<ChatMessage(role, Len(p.media) = 1 /\ p.media[1].k = "text", p.media, <<>>, "")>>
PrependGeminiSystemInstruction(root, ms) ==
    LET texts == TextsOf(Value(root, "system_instruction", [t |-> "parts", l |-> <<>>]).l)
    IN  IF texts = <<>> THEN ms ELSE <<ChatText("system", JoinTexts(texts, <<"nl">>))>> \o ms

MapGeminiToOpenAI(root) ==
    LET cs == Value(root, "contents", [t |-> "gemini", m |-> <<>>]).m
        ms == PrependGeminiSystemInstruction(root, FlattenSeq([i \in 1..Len(cs) |-> MapOneGeminiContent(cs[i])]))
        Positive(from, to) == IF NumberOf(root, from) > 0 THEN Copy(root, from, to) ELSE NoFields
    IN  Mapped(Obj((IF ms = <<>> THEN NoFields ELSE "messages" :> Chat(ms)) @@
                   CopyAll(root, {"model", "stream", "stream_options", "temperature", "top_p"}) @@
                   Positive("max_output_tokens", "max_tokens") @@ Positive("candidate_count", "n")))

(***************************************************************************)
(* OpenAI chat to OpenAI responses.  An item is a message, a call or the   *)
(* answer to one.                                                          *)
(***************************************************************************)
Item(k, role, parts, id, name) == [k |-> k, role |-> role, parts |-> parts, id |-> id, name |-> name]

\* mapChatContentPartsToResponses: a part of an unknown type keeps its type only.
MapChatContentParts(msg) ==
    LET Keeps == {"text", "data", "link", "input_audio", "file", "video_url"}
    IN  IF msg.plain THEN msg.parts
        ELSE [i \in 1..Len(msg.parts) |-> IF msg.parts[i].k \in Keeps THEN msg.parts[i]
                                          ELSE Part(msg.parts[i].k, <<>>)]

\* coerceChatContentToOutputValue: parts become the text of their JSON.
OutputValue(msg) ==
    IF msg.plain THEN JoinTexts(TextsOf(msg.parts), <<>>)
    ELSE <<"[">> \o JoinTexts(TextsOf(msg.parts), <<",">>) \o <<"]">>
ToolOutputItem(msg) ==
    IF msg.of = "" THEN Item("message", "user", <<Part("text", <<"[tool_output_missing_call_id]">> \o OutputValue(msg))>>, "", "")
    ELSE Item("function_call_output", "", <<Part("text", OutputValue(msg))>>, msg.of, "")

AssistantToolCallItems(msg) ==
    LET calls == SelectSeq(msg.calls, Sendable)
    IN  IF msg.role # "assistant" THEN <<>>
        ELSE [i \in 1..Len(calls) |-> Item("function_call", "", <<>>, calls[i].id, calls[i].name)]
ChatMessageItems(msg) ==
    <<Item("message", msg.role, MapChatContentParts(msg), "", "")>> \o AssistantToolCallItems(msg)

ExtractChatText(msg) ==
    JoinTexts(TextsOf(SelectSeq(msg.parts, LAMBDA p : msg.plain \/ p.k = "text")), <<"nl">>)

MapChatMessagesToResponsesInput(ms) ==
    FlattenSeq([i \in 1..Len(ms) |->
        IF ms[i].role \in {"", "system", "developer"} THEN <<>>
        ELSE IF ms[i].role \in {"tool", "function"} THEN <<ToolOutputItem(ms[i])>>
        ELSE ChatMessageItems(ms[i])])
Instructions(ms) ==
    LET said == SelectSeq(ms, LAMBDA m : m.role \in {"system", "developer"} /\ ExtractChatText(m) # <<>>)
    IN  JoinTexts([i \in 1..Len(said) |-> ExtractChatText(said[i])], <<"nl", "nl">>)

CopyChatTopLevel(root) ==
    LET asked == MaxOf(NumberOf(root, "max_tokens"), NumberOf(root, "max_completion_tokens"))
        effort == NameOf(root, "reasoning_effort")
    IN  CopyAll(root, {"stream", "temperature", "user", "tools", "tool_choice", "parallel_tool_calls",
                       "store", "metadata"}) @@
        (IF NumberOf(root, "top_p") # 0 THEN Copy(root, "top_p", "top_p") ELSE NoFields) @@
        (IF asked > 0 THEN "max_output_tokens" :> Num(asked) ELSE NoFields) @@
        Copy(root, "response_format", "text") @@
        (IF effort \in {"", "none"} THEN NoFields ELSE "reasoning" :> Str(<<effort>>))

MapOpenAIToResponses(root) ==
    LET said == Instructions(Messages(root))
    IN  IF NameOf(root, "model") = "" \/ NumberOf(root, "n") > 1 THEN Refused("form")
        ELSE Mapped(Obj(CopyAll(root, {"model"}) @@
                        "input" :> [t |-> "items", m |-> MapChatMessagesToResponsesInput(Messages(root))] @@
                        (IF said = <<>> THEN NoFields ELSE "instructions" :> Str(said)) @@
                        CopyChatTopLevel(root)))
=============================================================================
