----------------------------- MODULE StreamMaps -----------------------------
(***************************************************************************)
(* The sse_parse transforms of onr-core/pkg/apitransform: one event of the *)
(* upstream's stream in, the chunks of the client's protocol out.          *)
(*                                                                         *)
(* A text delta is one of four tokens: a word, another word, a word after  *)
(* a blank, and a blank alone, which is what strings.TrimSpace tells       *)
(* apart.  A text is a sequence of tokens.  An argument string is the      *)
(* sequence of its pieces.  Every Step operator takes the transform's      *)
(* state and an event and returns [st, out].                               *)
(***************************************************************************)
EXTENDS Naturals, Sequences, FiniteSets, TLC

CONSTANT None  \* nil

Trim(d) == CASE d = " w" -> "w" [] d = " " -> "" [] OTHER -> d

\* The words of a text: what is left when blanks are not told apart.
Words(s) == SelectSeq([i \in DOMAIN s |-> Trim(s[i])], LAMBDA d : d # "")

Emit(s, chunks) == [st |-> s, out |-> chunks]
Quiet(s) == Emit(s, <<>>)

Get(f, k, default) == IF k \in DOMAIN f THEN f[k] ELSE default
Put(f, k, v) == [j \in {k} \cup DOMAIN f |-> IF j = k THEN v ELSE f[j]]

----------------------------------------------------------------------------
(* OpenAI Responses to chat chunks *)

\* calls: call id at each index; canon: item id -> call id; final: the event
\* that may end the stream.
RespInit == [started |-> FALSE, sawText |-> FALSE, sawTool |-> FALSE,
             calls |-> <<>>, names |-> <<>>, named |-> {}, args |-> <<>>,
             canon |-> <<>>, final |-> None]

StartIfNeeded(s) == IF s.started THEN <<>> ELSE <<[k |-> "start"]>>

SendTextDelta(s, d) ==
  IF Trim(d) = "" THEN Quiet(s)
  ELSE Emit([s EXCEPT !.sawText = TRUE, !.started = TRUE],
            <<[k |-> "text", i |-> 0, d |-> Trim(d)]>>)

\* Tool calls are not streamed once text was; the name goes out once.
SendToolCallDelta(s, call, piece) ==
  IF call = "" \/ s.sawText THEN Quiet(s)
  ELSE LET known == \E i \in DOMAIN s.calls : s.calls[i] = call
           calls == IF known THEN s.calls ELSE Append(s.calls, call)
           idx   == CHOOSE i \in DOMAIN calls : calls[i] = call
           name  == IF call \in s.named THEN "" ELSE Get(s.names, call, "")
       IN Emit([s EXCEPT !.started = TRUE, !.sawTool = TRUE, !.calls = calls,
                         !.named = IF name = "" THEN @ ELSE @ \cup {call}],
               StartIfNeeded(s)
               \o <<[k |-> "tool", i |-> idx - 1, id |-> call, name |-> name,
                     args |-> piece]>>)


\* The part of next that prev does not hold yet.
ArgsDeltaFromPrefix(prev, next) ==
  IF Len(next) >= Len(prev) /\ SubSeq(next, 1, Len(prev)) = prev
  THEN SubSeq(next, Len(prev) + 1, Len(next)) ELSE next

HandleOutputItem(s, e) ==
  LET call == IF e.call = "" THEN e.id ELSE e.call
      prev == Get(s.args, call, <<>>)
      s1   == [s EXCEPT
                !.canon = IF e.id # "" /\ call # "" THEN Put(@, e.id, call) ELSE @,
                !.names = IF e.name # "" THEN Put(@, call, e.name) ELSE @,
                !.args  = IF e.args # <<>> THEN Put(@, call, e.args) ELSE @]
  IN SendToolCallDelta(s1, call, ArgsDeltaFromPrefix(prev, e.args))

HandleFunctionCallArgsDelta(s, e) ==
  LET call == Get(s.canon, e.id, e.id)
      s1   == [s EXCEPT !.args = Put(@, call, Append(Get(s.args, call, <<>>), e.d))]
  IN IF call = "" THEN Quiet(s) ELSE SendToolCallDelta(s1, call, <<e.d>>)

TerminalStatuses == {"completed", "incomplete", "failed", "cancelled"}

\* response.completed by its name, any other event by its response's status.
IsTerminal(e) == e.t = "completed" \/ (e.t = "status" /\ e.status \in TerminalStatuses)

RespStep(s, e) ==
  CASE e.t = "text" -> SendTextDelta(s, e.d)
    [] e.t = "item" -> HandleOutputItem(s, e)
    [] e.t = "args" -> HandleFunctionCallArgsDelta(s, e)
    [] IsTerminal(e) -> Quiet([s EXCEPT !.final = e])
    [] OTHER        -> Quiet(s)                      \* created, junk, other events

MapResponsesFinishReason(e) ==
  IF e.status = "incomplete" THEN "length" ELSE "stop"

FinishReasonFromMapped(s, mapped) ==
  IF s.sawTool /\ ~s.sawText THEN "tool_calls" ELSE mapped

\* EmitFinalIfPending: the last chunk and [DONE], only after a final event.
RespEnd(s, mapped) ==
  IF s.final = None THEN <<>>
  ELSE StartIfNeeded(s)
       \o <<[k |-> "finish", r |-> FinishReasonFromMapped(s, mapped)], [k |-> "done"]>>

----------------------------------------------------------------------------
(* Claude messages to chat chunks *)

NoUsage == [in |-> 0, out |-> 0, read |-> 0, write |-> 0]

ClaudeInit == [role |-> FALSE, done |-> FALSE, tools |-> <<>>, usage |-> None]

EmitRole(s) == IF s.role THEN <<>> ELSE <<[k |-> "role"]>>

\* Counters that are zero keep what is known; cached tokens are added on top.
MergeUsage(u, raw) ==
  LET base == IF u = None THEN [prompt |-> 0, completion |-> 0] ELSE u
      p0   == IF raw.in > 0 THEN raw.in ELSE base.prompt
  IN [prompt     |-> p0 + raw.read + raw.write,
      completion |-> IF raw.out > 0 THEN raw.out ELSE base.completion]

UsageChunk(u) ==
  IF u = None \/ (u # None /\ u.prompt = 0 /\ u.completion = 0) THEN <<>>
  ELSE <<[k |-> "usage", prompt |-> u.prompt, completion |-> u.completion,
          total |-> u.prompt + u.completion]>>

EmitDone(s) ==
  IF s.done THEN Quiet(s)
  ELSE Emit([s EXCEPT !.done = TRUE], UsageChunk(s.usage) \o <<[k |-> "done"]>>)

MapClaudeStopToOpenAIFinish(stop) ==
  CASE stop = "max_tokens"    -> "length"
    [] stop = "tool_use"      -> "tool_calls"
    [] stop = "stop_sequence" -> "content_filter"
    [] OTHER                  -> "stop"

HandleMessageStart(s, e) ==
  Emit([s EXCEPT !.role = TRUE, !.usage = MergeUsage(@, e.usage)], EmitRole(s))

HandleContentBlockStart(s, e) ==
  IF e.kind # "tool_use" THEN Quiet(s)
  ELSE Emit([s EXCEPT !.role = TRUE, !.tools = Put(@, e.i, e.id)],
            EmitRole(s) \o <<[k |-> "tool", i |-> e.i, id |-> e.id,
                              name |-> e.name, args |-> <<>>]>>)

\* Blank text and empty JSON are dropped; the other delta types too.
HandleContentBlockDelta(s, e) ==
  LET chunk == CASE e.kind = "text" /\ Trim(e.d) # "" ->
                      <<[k |-> "text", i |-> e.i, d |-> e.d]>>
                 [] e.kind = "json" ->
                      <<[k |-> "tool", i |-> e.i, id |-> Get(s.tools, e.i, ""),
                         name |-> "", args |-> <<e.d>>]>>
                 [] OTHER -> <<>>
  IN Emit([s EXCEPT !.role = TRUE], EmitRole(s) \o chunk)

HandleMessageDelta(s, e) ==
  Emit([s EXCEPT !.usage = MergeUsage(@, e.usage)],
       IF e.stop = "" THEN <<>>
       ELSE <<[k |-> "finish", r |-> MapClaudeStopToOpenAIFinish(e.stop)]>>)

ClaudeStep(s, e) ==
  CASE e.t = "message_start" -> HandleMessageStart(s, e)
    [] e.t = "block_start"   -> HandleContentBlockStart(s, e)
    [] e.t = "block_delta"   -> HandleContentBlockDelta(s, e)
    [] e.t = "message_delta" -> HandleMessageDelta(s, e)
    [] e.t = "message_stop"  -> EmitDone(s)
    [] OTHER                 -> Quiet(s)             \* block_stop, ping, junk

----------------------------------------------------------------------------
(* Gemini to chat chunks: one candidate, whose parts are texts and calls *)

MapGeminiFinishToOpenAI(finish, hasCalls) ==
  IF finish # "" /\ hasCalls THEN "tool_calls" ELSE
  CASE finish = ""           -> ""
    [] finish = "MAX_TOKENS" -> "length"
    [] finish = "SAFETY"     -> "content_filter"
    [] OTHER                 -> "stop"

GeminiTexts(parts) == SelectSeq(parts, LAMBDA p : p.p = "text")
GeminiCalls(parts) == SelectSeq(parts, LAMBDA p : p.p = "call")

\* A text chunk per text part and a tool chunk per call part, in part order.
\* The code puts them in one chunk; the client reads its fields in any order.
GeminiStep(s, e) ==
  LET calls  == GeminiCalls(e.parts)
      finish == MapGeminiFinishToOpenAI(e.finish, calls # <<>>)
      chunk(j) == LET p == e.parts[j]
                  IN IF p.p = "text" THEN [k |-> "text", i |-> 0, d |-> p.d]
                     ELSE [k |-> "tool", i |-> j - 1, id |-> p.id, name |-> p.name,
                           args |-> p.args]
  IN IF e.t # "content" THEN Quiet(s)
     ELSE Emit(s, [j \in DOMAIN e.parts |-> chunk(j)]
                  \o (IF finish = "" THEN <<>> ELSE <<[k |-> "finish", r |-> finish]>>))

----------------------------------------------------------------------------
(* Chat chunks to Claude events and to Gemini responses; both keep no state *)

MapOpenAIFinishToClaudeStop(finish) ==
  CASE finish = "length"         -> "max_tokens"
    [] finish = "tool_calls"     -> "tool_use"
    [] finish = "content_filter" -> "stop_sequence"
    [] OTHER                     -> "end_turn"

MapOpenAIFinishToGemini(finish) ==
  CASE finish = "length" -> "MAX_TOKENS" [] finish = "content_filter" -> "SAFETY"
    [] OTHER -> "STOP"

\* A tool delta opens its block each time; blanks around arguments are cut.
ChatToClaude(e) ==
  CASE e.k = "text" -> <<[t |-> "block_delta", i |-> 0, kind |-> "text", d |-> e.d]>>
    [] e.k = "tool" ->
         <<[t |-> "block_start", i |-> e.i, kind |-> "tool_use", id |-> e.id,
            name |-> e.name]>>
         \o [j \in 1 .. Len(Words(e.args)) |->
               [t |-> "block_delta", i |-> e.i, kind |-> "json", d |-> Words(e.args)[j]]]
    [] e.k = "finish" -> <<[t |-> "message_delta", usage |-> NoUsage,
                            stop |-> MapOpenAIFinishToClaudeStop(e.r)]>>
    [] OTHER -> <<>>                                 \* [DONE], a usage-only chunk

ChatToGemini(e) ==
  CASE e.k = "text" -> <<[t |-> "content", finish |-> "",
                          parts |-> <<[p |-> "text", d |-> e.d]>>]>>
    [] e.k = "tool" -> <<[t |-> "content", finish |-> "",
                          parts |-> <<[p |-> "call", id |-> "", name |-> e.name,
                                       args |-> Words(e.args)]>>]>>
    [] e.k = "finish" -> <<[t |-> "content", finish |-> MapOpenAIFinishToGemini(e.r),
                            parts |-> <<>>]>>
    [] OTHER -> <<>>
=============================================================================
