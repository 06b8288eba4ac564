---------------------------- MODULE StreamCollect ----------------------------
(***************************************************************************)
(* What a stream adds up to.  onr-core/pkg/ssecollect turns a whole stream *)
(* into one object (CollectByMode) or follows it chunk by chunk (the       *)
(* ChunkCollectors); apitransform maps such an object to a chat answer     *)
(* (resp_map).  An answer is [text, tools, finish]; Failed stands for an   *)
(* error.                                                                  *)
(***************************************************************************)
EXTENDS StreamMaps, Integers, SequencesExt

Failed == [failed |-> TRUE]
IsFailed(x) == "failed" \in DOMAIN x

\* The values of a function on naturals in the order of their indexes.
Ordered(f) == LET ks == SetToSortSeq(DOMAIN f, LAMBDA a, b : a < b)
              IN [n \in DOMAIN ks |-> f[ks[n]]]

MaxChunkCollectIndex == 100
BoundedChunkIndex(i) == i \in 0 .. MaxChunkCollectIndex

Flat(seqs) == FoldLeft(LAMBDA a, b : a \o b, <<>>, seqs)

----------------------------------------------------------------------------
(* Chat chunks: what a streaming client assembles *)

ChatInit == [choices |-> <<>>, finish |-> "", usage |-> None, bad |-> FALSE]

EmptyChoice == [text |-> <<>>, tools |-> <<>>]

\* Ids and names of one tool index may not disagree; arguments are appended.
ApplyToolCall(t, e) ==
  [id   |-> IF e.id = "" THEN t.id ELSE e.id,
   name |-> IF e.name = "" THEN t.name ELSE e.name,
   args |-> t.args \o e.args]

ToolConflict(t, e) == \/ t.id # "" /\ e.id # "" /\ t.id # e.id
                      \/ t.name # "" /\ e.name # "" /\ t.name # e.name

ChatAdd(c, e) ==
  IF c.bad THEN c
  ELSE CASE e.k = "text" ->
         LET ch == Get(c.choices, e.i, EmptyChoice)
         IN [c EXCEPT !.choices = Put(@, e.i, [ch EXCEPT !.text = Append(@, e.d)]),
                      !.bad = ~BoundedChunkIndex(e.i)]
    [] e.k = "tool" ->
         LET ch == Get(c.choices, 0, EmptyChoice)
             t  == Get(ch.tools, e.i, [id |-> "", name |-> "", args |-> <<>>])
         IN [c EXCEPT !.bad = ToolConflict(t, e) \/ ~BoundedChunkIndex(e.i),
                      !.choices = Put(@, 0, [ch EXCEPT !.tools =
                                          Put(@, e.i, ApplyToolCall(t, e))])]
    [] e.k = "finish" -> [c EXCEPT !.finish = e.r]
    [] e.k = "usage"  -> [c EXCEPT !.usage = [prompt |-> e.prompt,
                                               completion |-> e.completion]]
    [] OTHER -> c

\* The message of choice 0: what a client that asked for one answer reads.
ChatSnapshot(chunks) ==
  LET c  == FoldLeft(ChatAdd, ChatInit, chunks)
      ch == Get(c.choices, 0, EmptyChoice)
  IN IF c.bad THEN Failed
     ELSE [text |-> ch.text, tools |-> Ordered(ch.tools), finish |-> c.finish,
           usage |-> c.usage]

----------------------------------------------------------------------------
(* Anthropic messages *)

AnthInit == [msg |-> FALSE, blocks |-> <<>>, stop |-> "", usage |-> NoUsage,
             seenStop |-> FALSE, bad |-> FALSE]

\* The counts an event names overwrite those known, a zero too.  An event
\* without a list of them names the ones that are not zero.
NamedCounts(e) == Get(e, "named", {f \in DOMAIN e.usage : e.usage[f] > 0})
MergeMaps(base, overlay, named) == [f \in DOMAIN base |-> IF f \in named THEN overlay[f] ELSE base[f]]

ApplyAnthropicDelta(b, e) ==
  IF e.kind = "json" THEN [b EXCEPT !.json = Append(@, e.d)]
  ELSE [b EXCEPT !.text = Append(@, e.d)]            \* text and thinking

NewBlock(kind, id, name) == [kind |-> kind, id |-> id, name |-> name,
                             text |-> <<>>, json |-> <<>>]

\* A block nobody started: the chunk collector (strict) takes it for text and
\* accepts only text deltas, the other one leaves it without a type.
UnstartedBlock(strict) == NewBlock(IF strict THEN "text" ELSE "", "", "")

\* One event of both Anthropic collectors.  The chunk collector refuses a
\* block that changes its type.
AnthAdd(c, e, strict) ==
  IF c.bad THEN c ELSE
  CASE e.t = "error" -> [c EXCEPT !.bad = TRUE]
    [] e.t = "message_start" -> [c EXCEPT !.msg = TRUE, !.usage = e.usage]
    [] e.t = "block_start" ->
         [c EXCEPT !.bad = ~BoundedChunkIndex(e.i)
                           \/ (strict /\ e.i \in DOMAIN c.blocks
                               /\ c.blocks[e.i].kind \notin {"", e.kind}),
                   !.blocks = Put(@, e.i, NewBlock(e.kind, e.id, e.name))]
    [] e.t = "block_delta" ->
         LET b == Get(c.blocks, e.i, UnstartedBlock(strict))
         IN [c EXCEPT !.bad = ~BoundedChunkIndex(e.i)
                              \/ (strict /\ e.i \notin DOMAIN c.blocks /\ e.kind # "text"),
                      !.blocks = Put(@, e.i, ApplyAnthropicDelta(b, e))]
    [] e.t = "message_delta" ->
         [c EXCEPT !.msg = TRUE, !.stop = IF e.stop = "" THEN @ ELSE e.stop,
                   !.usage = MergeMaps(@, e.usage, NamedCounts(e))]
    [] e.t = "message_stop" -> [c EXCEPT !.seenStop = TRUE]
    [] OTHER -> c                                    \* block_stop, ping

CollectAnthropicMessages(events) ==
  LET c == FoldLeft(LAMBDA a, e : AnthAdd(a, e, FALSE), AnthInit, events)
  IN IF c.bad \/ ~c.msg \/ ~c.seenStop THEN Failed
     ELSE [blocks |-> Ordered(c.blocks), stop |-> c.stop, usage |-> c.usage]

SnapshotAnthropic(events) ==
  LET c == FoldLeft(LAMBDA a, e : AnthAdd(a, e, TRUE), AnthInit, events)
  IN IF c.bad THEN Failed
     ELSE [blocks |-> Ordered(c.blocks), stop |-> c.stop, usage |-> c.usage]

StopReasonClaude2OpenAI(reason) ==
  CASE reason \in {"end_turn", "stop_sequence"} -> "stop"
    [] reason = "max_tokens" -> "length"
    [] reason = "tool_use"   -> "tool_calls"
    [] reason = "refusal"    -> "content_filter"
    [] OTHER                 -> reason

\* Token counts in the shape of a chat answer, and what a meter reads of it.
ChatUsage(prompt, u) == [prompt |-> prompt, completion |-> u.out, read |-> u.read, write |-> u.write]
MapClaudeUsage(u) == ChatUsage(u.in + u.read + u.write, u)

\* Text and thinking blocks are joined; a block without a type is an error,
\* and so is a message of no blocks, unless the model refused.
MapClaudeResponse(m) ==
  LET tools == SelectSeq(m.blocks, LAMBDA b : b.kind = "tool_use")
      texts == SelectSeq(m.blocks, LAMBDA b : b.kind # "tool_use" /\ b.text # <<>>)
  IN IF \/ \E j \in DOMAIN m.blocks : m.blocks[j].kind = ""
        \/ tools = <<>> /\ texts = <<>> /\ m.stop # "refusal"
     THEN Failed
     ELSE [text   |-> Flat([j \in DOMAIN texts |-> texts[j].text]),
           tools  |-> [j \in DOMAIN tools |-> [id |-> tools[j].id, name |-> tools[j].name,
                                               args |-> tools[j].json]],
           finish |-> StopReasonClaude2OpenAI(m.stop),
           usage  |-> MapClaudeUsage(m.usage)]

----------------------------------------------------------------------------
(* OpenAI Responses *)

NoItems == [items |-> <<>>, resp |-> None, bad |-> FALSE]

SetItem(c, oi, item) == [c EXCEPT !.items = Put(@, oi, item), !.bad = ~BoundedChunkIndex(oi)]

ResponseItem(e) == IF e.t = "message" THEN [kind |-> "message", text |-> e.text]
                   ELSE [kind |-> "function_call", id |-> e.id, call |-> e.call,
                         name |-> e.name, args |-> e.args]

IsResponseFailure(e) == e.t = "error" \/ (e.t = "status" /\ e.status = "failed")
ClosesItem(e) == e.t \in {"item", "message"} /\ e.closed

FinalResponse(e) == [output |-> e.output, status |-> e.status, usage |-> e.usage]

\* Items are taken from the events that close them; the final event has to
\* arrive, and what it lists gives way to the items seen.
RespAdd(c, e) ==
  IF c.bad THEN c ELSE
  CASE IsResponseFailure(e) -> [c EXCEPT !.bad = TRUE]
    [] ClosesItem(e)        -> SetItem(c, e.oi, ResponseItem(e))
    [] e.t = "completed"    -> [c EXCEPT !.resp = FinalResponse(e)]
    [] OTHER -> c

CollectOpenAIResponses(events) ==
  LET c == FoldLeft(RespAdd, NoItems, events)
  IN IF c.bad \/ c.resp = None THEN Failed
     ELSE [output |-> IF c.items = <<>> THEN c.resp.output ELSE Ordered(c.items),
           status |-> c.resp.status, usage |-> c.resp.usage]

\* ensureResponseItem: an index nobody announced gets an empty item.
EnsureResponseItem(c, oi, kind) ==
  Get(c.items, oi, IF kind = "message" THEN [kind |-> "message", text |-> <<>>]
                   ELSE [kind |-> "function_call", id |-> "", call |-> "", name |-> "",
                         args |-> <<>>])

\* Mutant: the closed item is put on top of its deltas.
ApplyItemOnTop(c, e) ==
  LET item == EnsureResponseItem(c, e.oi, IF e.t = "message" THEN "message" ELSE "function_call")
  IN SetItem(c, e.oi, IF e.t = "message" THEN [item EXCEPT !.text = @ \o e.text]
                      ELSE [kind |-> "function_call", id |-> e.id, call |-> e.call,
                            name |-> e.name, args |-> item.args \o e.args])

\* output_item.added and output_item.done replace what was assembled.
ApplyResponseOutputItem(c, e) == SetItem(c, e.oi, ResponseItem(e))

\* A delta is appended, a done event sets the whole.
ApplyResponseText(c, e) ==
  SetItem(c, e.oi, [EnsureResponseItem(c, e.oi, "message") EXCEPT
                      !.text = IF e.t = "text" THEN Append(@, e.d) ELSE e.text])

ApplyResponseFunctionCallArguments(c, e) ==
  SetItem(c, e.oi, [EnsureResponseItem(c, e.oi, "function_call") EXCEPT
                      !.args = IF e.t = "args" THEN Append(@, e.d) ELSE e.args])

\* The chunk collector follows deltas too, so it has a message while the
\* stream is still open.
RespChunkAdd(c, e) ==
  IF c.bad THEN c ELSE
  CASE IsResponseFailure(e)           -> [c EXCEPT !.bad = TRUE]
    [] e.t \in {"item", "message"}    -> ApplyResponseOutputItem(c, e)
    [] e.t \in {"text", "text_done"}  -> ApplyResponseText(c, e)
    [] e.t \in {"args", "args_done"}  -> ApplyResponseFunctionCallArguments(c, e)
    [] e.t = "completed" -> [c EXCEPT !.resp = FinalResponse(e)]
    [] OTHER -> c

SnapshotResponses(events) ==
  LET c == FoldLeft(RespChunkAdd, NoItems, events)
  IN IF c.bad THEN Failed
     ELSE [output |-> IF c.items # <<>> THEN Ordered(c.items)
                      ELSE IF c.resp = None THEN <<>> ELSE c.resp.output,
           status |-> IF c.resp = None THEN "" ELSE c.resp.status,
           usage  |-> IF c.resp = None THEN NoUsage ELSE c.resp.usage]

\* The last message's text, every named call; a call without text ends with
\* tool_calls.
MapResponsesObject(r) ==
  LET msgs  == SelectSeq(r.output, LAMBDA o : o.kind = "message" /\ Words(o.text) # <<>>)
      calls == SelectSeq(r.output, LAMBDA o : o.kind = "function_call" /\ o.name # "")
      text  == IF msgs = <<>> THEN <<>> ELSE Last(msgs).text
  IN [text   |-> text,
      tools  |-> [j \in DOMAIN calls |->
                    [id |-> IF calls[j].call = "" THEN calls[j].id ELSE calls[j].call,
                     name |-> calls[j].name, args |-> calls[j].args]],
      finish |-> IF calls # <<>> /\ text = <<>> THEN "tool_calls"
                 ELSE MapResponsesFinishReason(r),
      usage  |-> ChatUsage(r.usage.in, r.usage)]

----------------------------------------------------------------------------
(* Gemini *)

\* A text part that follows a text part is joined to it.
MergeGeminiParts(parts, new) ==
  FoldLeft(LAMBDA ps, p :
             IF p.p = "text" /\ ps # <<>> /\ Last(ps).p = "text"
             THEN [ps EXCEPT ![Len(ps)].text = Append(@, p.d)]
             ELSE Append(ps, IF p.p = "text" THEN [p |-> "text", text |-> <<p.d>>] ELSE p),
           parts, new)

CollectGemini(events) ==
  LET cands == SelectSeq(events, LAMBDA e : e.t = "content")
      ends  == SelectSeq(cands, LAMBDA e : e.finish # "")
  IN IF cands = <<>> THEN Failed
     ELSE [parts  |-> FoldLeft(LAMBDA ps, e : MergeGeminiParts(ps, e.parts), <<>>, cands),
           finish |-> IF ends = <<>> THEN "" ELSE Last(ends).finish,
           usage  |-> Last(cands).usage]

MapGeminiResponse(c) ==
  LET texts == GeminiTexts(c.parts)
      calls == GeminiCalls(c.parts)
  IN [text   |-> Flat([j \in DOMAIN texts |-> texts[j].text]),
      tools  |-> [j \in DOMAIN calls |-> [id |-> calls[j].id, name |-> calls[j].name,
                                          args |-> calls[j].args]],
      finish |-> MapGeminiFinishToOpenAI(c.finish, calls # <<>>),
      usage  |-> ChatUsage(c.usage.in, c.usage)]

----------------------------------------------------------------------------
(* Chat answers to the other two formats *)

\* Prompt and completion tokens are carried over, the cache details are not.
UsageFromChat(u) ==
  IF u = None THEN NoUsage ELSE [NoUsage EXCEPT !.in = u.prompt, !.out = u.completion]

\* Text is left out of an answer that calls tools.
MapChatToClaudeResponse(a) ==
  [blocks |-> IF a.tools = <<>>
              THEN <<[kind |-> "text", id |-> "", name |-> "", text |-> a.text, json |-> <<>>]>>
              ELSE [j \in DOMAIN a.tools |->
                      [kind |-> "tool_use", id |-> a.tools[j].id, name |-> a.tools[j].name,
                       text |-> <<>>, json |-> a.tools[j].args]],
   stop |-> CASE a.finish = "length" -> "max_tokens"
              [] a.finish = "tool_calls" -> "tool_use"
              [] OTHER -> "end_turn",
   usage |-> UsageFromChat(a.usage)]

MapChatToGeminiResponse(a) ==
  [parts |-> IF a.tools = <<>> THEN <<[p |-> "text", text |-> a.text]>>
             ELSE [j \in DOMAIN a.tools |->
                     [p |-> "call", id |-> "", name |-> a.tools[j].name,
                      args |-> a.tools[j].args]],
   finish |-> MapOpenAIFinishToGemini(a.finish),
   usage |-> UsageFromChat(a.usage)]
=============================================================================
