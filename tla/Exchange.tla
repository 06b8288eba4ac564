------------------------------ MODULE Exchange ------------------------------
(***************************************************************************)
(* One request through onr/internal/proxy: ProxyJSON from the built        *)
(* context to its deferred calls.  The handler's goroutine reads the       *)
(* upstream, meters, transforms and writes; for Bedrock a second goroutine *)
(* turns the event stream into SSE and feeds it through a pipe.  The       *)
(* client may leave, and the upstream may fail, at any moment.             *)
(*                                                                         *)
(* An exchange x is the request, the provider's directives and what the    *)
(* upstream is about to answer:                                            *)
(*   client    the client asked for a stream                               *)
(*   proto     protocol of the upstream; to: the one a chat stream becomes *)
(*   op        "sse_parse", "resp_map" or "none"; collect: sse_collect     *)
(*   ops       a json_del of the usage field is configured                 *)
(*   metrics   usage and finish facts are configured; withCache: the input *)
(*             fact counts cached tokens too                               *)
(*   aws, oauth, dump, inline, estimate   the features in use              *)
(*   bill      who the cost is computed for: [on, prices, provider, key,   *)
(*             model, mapped, flat], prices the client's resolver, flat    *)
(*             the usage fields beside the tokens                          *)
(*   status, ct, enc   head of the answer; script: its events, the last    *)
(*             one without its blank line if unterminated                  *)
(***************************************************************************)
EXTENDS StreamCollect, StreamMetrics, Pricing

CONSTANTS Exchanges, \* the exchanges of the instance
          ReadAhead, \* events the buffered reader may hold
          TailLimit, \* events the usage tail keeps
          DumpLimit  \* events a dump buffer keeps

ASSUME BoundsAreNatural == {ReadAhead, TailLimit, DumpLimit} \subseteq Nat \ {0}

VARIABLES
  x,       \* the exchange
  pc,      \* where ProxyJSON is
  attempt, \* upstream requests sent
  conn,    \* [body, ctx, id]: response body, context, upstream request id
  pump,    \* Bedrock's goroutine: [at, ev, err]
  pos,     \* events the upstream has sent
  buf,     \* events read and not yet transformed
  st,      \* state of the sse_parse transform
  pend,    \* chunks not yet written
  out,     \* what reached the client: [told, enc, body]
  tap, agg, tail, \* metrics tap, aggregator, usage tail
  dump,    \* the traffic dump's sections
  client,  \* "here" or "gone"
  fault,   \* "" or why reading or writing ended
  result   \* None, or what ProxyJSON returned

vars == <<x, pc, attempt, conn, pump, pos, buf, st, pend, out, tap, agg, tail, dump,
          client, fault, result>>

----------------------------------------------------------------------------
(* Decisions *)

IsSSE == x.ct = "sse"

\* What the body reader delivers: a body that is not SSE is one odd line.
Events == IF IsSSE THEN x.script ELSE <<[t |-> "json", k |-> "json"]>>

\* Bedrock's answer goes through the goroutine unless it is an error.
Piped == x.aws /\ x.status < 300

ShouldCollectSSE == x.collect /\ IsSSE

IsEffectiveStream == x.client \/ (~ShouldCollectSSE /\ IsSSE)

\* sse_parse with a mode onr-core has a transform for.
UseStrategyTransform == x.op = "sse_parse"

\* Raw events are metered when a metric is configured, transformed ones else.
TapRaw == ~UseStrategyTransform \/ x.metrics

\* EPIPE, ECONNRESET and a cancelled context all count as the client leaving.
IsClientDisconnectErr(f) == f \in {"epipe", "reset", "cancelled"}

ShouldEstimateUsage == x.status = 200

\* gzip is decoded to be transformed, any other encoding is refused.
NeedsDecoding == UseStrategyTransform \/ x.ops
CannotDecode == NeedsDecoding /\ x.enc \notin {"", "gzip"}

\* The tees sit behind the decoding, when there is any: of an encoded stream
\* that is passed on they see the compressed bytes, in which nothing is found.
Readable == x.enc = "" \/ NeedsDecoding
Garbled == [t |-> "garbled"]
Seen(e) == IF Readable THEN e ELSE Garbled

TransformInit ==
  CASE x.proto = "responses" -> RespInit [] x.proto = "claude" -> ClaudeInit
    [] OTHER -> None

\* Chat chunks to the events of another protocol: every chunk by itself.
TransformOpenAIChatSSE(s, e) ==
  Emit(s, IF x.to = "claude" THEN ChatToClaude(e) ELSE ChatToGemini(e))

\* One event through the transform of its mode.
Transform(s, e) ==
  IF ~UseStrategyTransform THEN Emit(s, <<e>>)
  ELSE CASE x.proto = "responses" -> RespStep(s, e)
         [] x.proto = "claude"    -> ClaudeStep(s, e)
         [] x.proto = "gemini"    -> GeminiStep(s, e)
         [] OTHER                 -> TransformOpenAIChatSSE(s, e)

\* What the transform writes at the end of the stream.
TransformEnd(s) ==
  IF ~UseStrategyTransform THEN <<>>
  ELSE CASE x.proto = "responses" ->
              RespEnd(s, IF s.final = None THEN "" ELSE MapResponsesFinishReason(s.final))
         [] x.proto = "claude"    -> EmitDone(s).out
         [] x.proto = "gemini"    -> <<[k |-> "done"]>>
         [] OTHER                 -> <<>>

\* The SSE ops on what is written; here they delete the usage field and leave
\* the rest of the event.
StripUsage(c) ==
  IF "usage" \in DOMAIN c THEN [c EXCEPT !.usage = NoUsage]
  ELSE IF "k" \in DOMAIN c /\ c.k = "usage" THEN [k |-> "empty"] ELSE c
ApplySSEOps(chunks) == IF x.ops THEN [j \in DOMAIN chunks |-> StripUsage(chunks[j])] ELSE chunks

\* Token counts and finish reason in one raw event.
UsageOf(e) ==
  IF "usage" \in DOMAIN e THEN e.usage
  ELSE IF "k" \in DOMAIN e /\ e.k = "usage"
       THEN [in |-> e.prompt, out |-> e.completion, read |-> 0, write |-> 0] ELSE NoUsage
FinishOf(e) ==
  IF "stop" \in DOMAIN e THEN e.stop ELSE IF "finish" \in DOMAIN e THEN e.finish
  ELSE IF "r" \in DOMAIN e THEN e.r ELSE ""

MeterEvent(a, e) ==
  IF x.metrics /\ IsSSE THEN AggStep(a, UsageOf(e), FinishOf(e), x.withCache) ELSE a

\* The metrics tap splits the stream into lines and meters an event when it
\* is closed; the last one may lack its blank line.
IsDone(e) == "k" \in DOMAIN e /\ e.k = "done"
DataLine(e) == [l |-> "data", v |-> IF IsDone(e) THEN None ELSE e]
TapFrame(t, e, last) ==
  LET open == TapLine([t EXCEPT !.events = <<>>], DataLine(e))
  IN IF last /\ x.unterminated THEN open ELSE TapLine(open, [l |-> "blank"])
MeterClosed(a, t) == IF t.events = <<>> THEN a ELSE MeterEvent(a, t.events[1].data[1])

\* What Bedrock's goroutine writes behind the last message.
PipeDone == [t |-> "done", k |-> "done"]

\* One upstream object of the protocol: the whole script in one piece.
CollectByMode(events) ==
  CASE x.proto = "responses" -> CollectOpenAIResponses(events)
    [] x.proto = "claude"    -> CollectAnthropicMessages(events)
    [] x.proto = "gemini"    -> CollectGemini(events)
    [] OTHER                 -> ChatSnapshot(events)

\* TransformNonStreamResponseBody.
MapResponse(obj) ==
  CASE x.proto = "responses" -> MapResponsesObject(obj)
    [] x.proto = "claude"    -> MapClaudeResponse(obj)
    [] x.proto = "gemini"    -> MapGeminiResponse(obj)
    [] OTHER -> IF x.to = "claude" THEN MapChatToClaudeResponse(obj) ELSE MapChatToGeminiResponse(obj)

----------------------------------------------------------------------------
(* Usage *)

Total(u) == u.in + u.out

\* usageestimate.Estimate: what upstream reported, and an estimate (here 1
\* token a side) for the side it did not report.
Estimate(u) ==
  LET base == IF u = None THEN NoUsage ELSE [f \in DOMAIN NoUsage |-> u[f]]
      est  == [base EXCEPT !.in = IF @ = 0 THEN 1 ELSE @, !.out = IF @ = 0 THEN 1 ELSE @]
      known == {side \in {"in", "out"} : base[side] > 0}
      stage == CASE known = {"in", "out"} -> "upstream"
                 [] known = {"in"}        -> "estimate_completion"
                 [] known = {"out"}       -> "estimate_prompt"
                 [] OTHER                 -> "estimate_both"
  IN IF x.estimate THEN [usage |-> est, stage |-> stage]
     ELSE IF u = None THEN [usage |-> None, stage |-> ""] ELSE [usage |-> base, stage |-> "upstream"]

\* When the tap met no usage, the tail is read once more.
StreamUsage ==
  IF AggResult(agg, x.withCache) # None \/ ~IsSSE THEN AggResult(agg, x.withCache)
  ELSE AggResult(FoldLeft(MeterEvent, agg, tail), x.withCache)

\* The counts in a whole body, in the shape of a chat answer or of the
\* upstream's.
CountsIn(body) ==
  LET u == Get(body, "usage", None)
  IN IF u = None THEN NoUsage
     ELSE IF "prompt" \in DOMAIN u
          THEN [in |-> u.prompt, out |-> u.completion, read |-> Get(u, "read", 0), write |-> Get(u, "write", 0)]
          ELSE u

\* Metrics are read from the mapped body; one that is still encoded shows none.
NonStreamUsage(enc, counts) ==
  IF ~x.metrics \/ enc # "" THEN None
  ELSE AggResult(AggStep(AggInit, counts, "", x.withCache), x.withCache)

\* The public name of the model has a price; the mapped one stands in for it.
CostModel(bill) == IF bill.model = "" THEN bill.mapped ELSE bill.model

ComputeCost(usage) ==
  IF usage = None \/ ~x.bill.on \/ x.bill.prices = NoResolver THEN NoCost
  ELSE Compute(x.bill.prices, x.bill.provider, x.bill.key, CostModel(x.bill), usage, x.bill.flat)

MakeResult(u) ==
  \E e \in {Estimate(u)} : \E cost \in {ComputeCost(e.usage)} :
    result' = IF ShouldEstimateUsage
              THEN [ok |-> TRUE, usage |-> e.usage, stage |-> e.stage, cost |-> cost]
              ELSE [ok |-> TRUE, usage |-> None, stage |-> "", cost |-> NoCost]

----------------------------------------------------------------------------
(* The exchanges: what is asked of the upstream's answers and of the prices *)

Usages == [in : Nat, out : Nat, read : Nat, write : Nat]

ASSUME NoneIsNoUsage ==
  None \notin Usages \cup [in : Nat, out : Nat, read : Nat, write : Nat, total : Nat] \cup {PipeDone}

ASSUME ScriptsAreEvents ==
  \A y \in Exchanges :
    /\ y.script \in Seq({y.script[j] : j \in DOMAIN y.script})
    /\ \A j \in DOMAIN y.script :
         /\ y.script[j] \notin {None, PipeDone}
         /\ UsageOf(y.script[j]) \in Usages
         /\ IsDone(y.script[j]) => UsageOf(y.script[j]) = NoUsage

\* Upstreams report running totals: a count that is reported again has not
\* become smaller.  mergeUsagePreferNonZero, which keeps the last, relies on it.
ASSUME CountsAreCumulative ==
  \A y \in Exchanges : \A f \in DOMAIN NoUsage : \A i, j \in DOMAIN y.script :
    i < j /\ UsageOf(y.script[j])[f] > 0 => UsageOf(y.script[i])[f] <= UsageOf(y.script[j])[f]

ASSUME RatesAreNumbers ==
  \A y \in Exchanges : y.bill.on /\ y.bill.prices # NoResolver =>
    \A model \in {y.bill.model, y.bill.mapped} :
      LET rates == EffectiveRates(y.bill.prices, y.bill.provider, y.bill.key, model)
      IN \A name \in DOMAIN rates : rates[name] \in Nat

\* Upstreams keep the order of their protocol: Claude starts a block once and
\* before its deltas, and in a finished Responses stream the last word on an
\* output index is the event that closes its item.
BlocksInOrder(s) ==
  \A k \in DOMAIN s :
    /\ s[k].t = "block_start" =>
         \A j \in 1 .. (k - 1) : s[j].t \in {"block_start", "block_delta"} => s[j].i # s[k].i
    /\ s[k].t = "block_delta" =>
         \E j \in 1 .. (k - 1) : s[j].t = "block_start" /\ s[j].i = s[k].i

ItemEvents == {"item", "message", "text", "text_done", "args", "args_done"}

ItemsAreClosed(s) ==
  (\E j \in DOMAIN s : s[j].t = "completed") =>
    \A k \in DOMAIN s : s[k].t \in ItemEvents =>
      \E j \in k .. Len(s) : ClosesItem(s[j]) /\ s[j].oi = s[k].oi

ASSUME ScriptsInOrder ==
  \A y \in Exchanges : /\ y.proto = "claude" => BlocksInOrder(y.script)
                       /\ y.proto = "responses" => ItemsAreClosed(y.script)

----------------------------------------------------------------------------

Init ==
  /\ x \in Exchanges
  /\ pc = "start" /\ attempt = 0
  /\ conn = [body |-> "none", ctx |-> "none", id |-> ""]
  /\ pump = [at |-> "none", ev |-> None, err |-> ""]
  /\ pos = 0 /\ buf = <<>> /\ st = None /\ pend = <<>>
  /\ out = [told |-> None, enc |-> "", body |-> <<>>]
  /\ tap = TapInit /\ agg = AggInit /\ tail = <<>>
  /\ dump = <<>> /\ client = "here" /\ fault = "" /\ result = None

\* ProxyJSON returns an error; writeProxyError answers it, behind whatever
\* the client has already got.
Fail ==
  /\ result' = [ok |-> FALSE]
  /\ out' = IF client = "here" THEN [out EXCEPT !.body = Append(@, [k |-> "error"])]
            ELSE out

\* The traffic dump, when the request has a recorder: one section a call.
Record(sections) == dump' = IF x.dump THEN dump \o sections ELSE dump
UpstreamRequestSection       == [s |-> "upstream request"]
UpstreamResponseSection(seen) == [s |-> "upstream response", body |-> LimitedBuffer(seen, DumpLimit)]
ProxyResponseSection(sent)    == [s |-> "proxy response", body |-> LimitedBuffer(sent, DumpLimit)]
StreamSummarySection ==
  [s |-> "summary", sent |-> Len(out.body), err |-> fault, ignored |-> IsClientDisconnectErr(fault)]

\* buildProxyCtx: the provider is gone, no route matches, or the request
\* transform refuses the body.
BuildCtxFails ==
  /\ pc = "start"
  /\ pc' = "done"
  /\ Fail
  /\ UNCHANGED <<x, attempt, conn, pump, pos, buf, st, pend, tap, agg, tail, dump, client, fault>>

BuildCtx ==
  /\ pc = "start"
  /\ pc' = "upstream"
  /\ conn' = [conn EXCEPT !.ctx = "live"]
  /\ UNCHANGED <<x, attempt, pump, pos, buf, st, pend, out, tap, agg, tail, dump, client, fault, result>>

\* No base URL, proxy, token or signature, or, once the request is dumped,
\* Do fails: the context is cancelled on the way out.
UpstreamFails ==
  /\ pc = "upstream"
  /\ pc' = "done"
  /\ conn' = [conn EXCEPT !.ctx = "cancelled"]
  /\ \E tried \in {<<>>, <<UpstreamRequestSection>>} : Record(tried)
  /\ Fail
  /\ UNCHANGED <<x, attempt, pump, pos, buf, st, pend, tap, agg, tail, client, fault>>

\* The body of a first 401 with an OAuth token is closed, and the request sent
\* once more.
RetryUnauthorized ==
  /\ pc = "upstream" /\ x.oauth /\ ~x.aws /\ attempt = 0
  /\ attempt' = 1
  /\ conn' = [conn EXCEPT !.body = "closed"]
  /\ Record(<<UpstreamRequestSection>>)
  /\ UNCHANGED <<x, pc, pump, pos, buf, st, pend, out, tap, agg, tail, client, fault, result>>

\* A response head.  Bedrock's stream gets its goroutine here.
Respond ==
  /\ pc = "upstream"
  /\ attempt' = attempt + 1
  /\ Record(<<UpstreamRequestSection>>)
  /\ conn' = [body |-> "open", ctx |-> "live", id |-> "h"]
  /\ pump' = IF Piped THEN [pump EXCEPT !.at = "reading"] ELSE pump
  /\ pc' = IF IsEffectiveStream THEN "headers" ELSE "read_all"
  /\ UNCHANGED <<x, pos, buf, st, pend, out, tap, agg, tail, client, fault, result>>

----------------------------------------------------------------------------
(* handleStreamResponse *)

\* Headers are copied as they came, before the body is known to be decoded.
StartStream ==
  /\ pc = "headers"
  /\ out' = [out EXCEPT !.told = x.enc, !.enc = IF NeedsDecoding THEN "" ELSE x.enc]
  /\ st' = TransformInit
  /\ fault' = IF CannotDecode THEN "encoding" ELSE ""
  /\ pc' = IF CannotDecode THEN "settle" ELSE "stream"
  /\ UNCHANGED <<x, attempt, conn, pump, pos, buf, pend, tap, agg, tail, dump, client, result>>

\* The tees see an event when it is read; Bedrock's goroutine closes all of its.
Tap(e) ==
  /\ tap'  = IF TapRaw THEN TapFrame(tap, Seen(e), ~Piped /\ pos' = Len(Events)) ELSE tap
  /\ agg'  = IF TapRaw THEN MeterClosed(agg, tap') ELSE agg
  /\ tail' = IF TapRaw THEN TailBuffer(Append(tail, Seen(e)), TailLimit) ELSE tail

ReadEvent ==
  /\ pc = "stream" /\ ~Piped /\ fault = "" /\ Len(buf) < ReadAhead
  /\ pos < Len(Events)
  /\ pos' = pos + 1
  /\ buf' = Append(buf, Events[pos + 1])
  /\ Tap(Events[pos + 1])
  /\ UNCHANGED <<x, pc, attempt, conn, pump, st, pend, out, dump, client, fault, result>>

\* The pipe hands over what the goroutine holds.
ReadPipe ==
  /\ pc = "stream" /\ Piped /\ fault = "" /\ Len(buf) < ReadAhead
  /\ pump.at = "writing"
  /\ buf' = Append(buf, pump.ev)
  /\ pump' = [pump EXCEPT !.at = IF pump.ev = PipeDone THEN "closed" ELSE "reading", !.ev = None]
  /\ UNCHANGED pos /\ Tap(pump.ev)
  /\ UNCHANGED <<x, pc, attempt, conn, st, pend, out, dump, client, fault, result>>

ReadEOF ==
  /\ pc = "stream" /\ fault = ""
  /\ IF Piped THEN pump.at = "closed" ELSE pos = Len(Events)
  /\ fault' = "eof"
  /\ UNCHANGED <<x, pc, attempt, conn, pump, pos, buf, st, pend, out, tap, agg, tail, dump, client, result>>

\* The upstream resets or stalls past the timeout; a client that left has
\* cancelled the request's context.
ReadFails(f) ==
  /\ pc = "stream" /\ fault = ""
  /\ \/ ~Piped /\ f \in {"reset", "timeout"}
     \/ ~Piped /\ client = "gone" /\ f = "cancelled"
     \/ Piped /\ pump.at = "failed" /\ f = pump.err
  /\ fault' = f
  /\ UNCHANGED <<x, pc, attempt, conn, pump, pos, buf, st, pend, out, tap, agg, tail, dump, client, result>>

TransformEvent ==
  /\ pc = "stream" /\ pend = <<>> /\ buf # <<>>
  /\ LET r == Transform(st, Head(buf))
     IN st' = r.st /\ pend' = ApplySSEOps(r.out)
  /\ buf' = Tail(buf)
  /\ UNCHANGED <<x, pc, attempt, conn, pump, pos, out, tap, agg, tail, dump, client, fault, result>>

\* The client's writer comes first; what it refuses is not metered.
WriteChunk ==
  /\ pc = "stream" /\ pend # <<>>
  /\ pend' = Tail(pend)
  /\ out' = IF client = "here" THEN [out EXCEPT !.body = Append(@, Head(pend))] ELSE out
  /\ tail' = IF TapRaw THEN tail ELSE TailBuffer(Append(tail, Head(pend)), TailLimit)
  /\ UNCHANGED <<x, pc, attempt, conn, pump, pos, buf, st, tap, agg, dump, client, fault, result>>

\* A write on a closed connection fails, at once or after some more writes.
WriteFails ==
  /\ pc = "stream" /\ pend # <<>> /\ client = "gone"
  /\ fault' = "epipe" /\ pend' = <<>> /\ buf' = <<>>
  /\ pc' = "settle"
  /\ UNCHANGED <<x, attempt, conn, pump, pos, st, out, tap, agg, tail, dump, client, result>>

\* Everything read was written: at the end of the stream the transform adds
\* its last chunks, after an error it does not.
FinishTransform ==
  /\ pc = "stream" /\ pend = <<>> /\ buf = <<>> /\ fault # ""
  /\ pend' = IF fault = "eof" THEN ApplySSEOps(TransformEnd(st)) ELSE <<>>
  /\ pc' = IF pend' = <<>> THEN "settle" ELSE "flush"
  /\ UNCHANGED <<x, attempt, conn, pump, pos, buf, st, out, tap, agg, tail, dump, client, fault, result>>

FlushChunk ==
  /\ pc = "flush"
  /\ \/ /\ out' = IF client = "here" THEN [out EXCEPT !.body = Append(@, Head(pend))] ELSE out
        /\ pend' = Tail(pend)
        /\ pc' = IF pend' = <<>> THEN "settle" ELSE "flush"
        /\ UNCHANGED fault
     \/ /\ client = "gone"
        /\ fault' = "epipe" /\ pend' = <<>> /\ pc' = "settle"
        /\ UNCHANGED out
  /\ UNCHANGED <<x, attempt, conn, pump, pos, buf, st, tap, agg, tail, dump, client, result>>

\* metricsTap.Finish: an event that was left open is metered too.
FinishTap ==
  /\ pc = "settle"
  /\ pc' = "account"
  /\ tap' = TapFinish([tap EXCEPT !.events = <<>>])
  /\ agg' = MeterClosed(agg, tap')
  /\ UNCHANGED <<x, attempt, conn, pump, pos, buf, st, pend, out, tail, dump, client, fault, result>>

\* streamDumpState.Append: both bodies up to the limit, and how it ended.
StreamSections ==
  <<UpstreamResponseSection(SubSeq(Events, 1, pos)), ProxyResponseSection(out.body), StreamSummarySection>>

\* A stream that ended, or whose client is taken to have left, is no error.
ErrIgnored == fault \in {"", "eof"} \/ IsClientDisconnectErr(fault)

\* An error that is not the client's ends the call; otherwise the client's
\* writer is flushed, and usage, finish reason and cost are worked out.  The
\* dump is appended on every way out.
SettleStream ==
  /\ pc = "account"
  /\ pc' = "close"
  /\ Record(StreamSections)
  /\ IF ErrIgnored
     THEN /\ MakeResult(IF tail = <<>> THEN None ELSE StreamUsage)
          /\ UNCHANGED out
     ELSE Fail
  /\ UNCHANGED <<x, attempt, conn, pump, pos, buf, st, pend, tap, agg, tail, client, fault>>

----------------------------------------------------------------------------
(* handleNonStreamResponse *)

ReadAllFails ==
  /\ pc = "read_all"
  /\ pc' = "close"
  /\ Fail
  /\ UNCHANGED <<x, attempt, conn, pump, pos, buf, st, pend, tap, agg, tail, dump, client, fault>>

\* A step that has to decode the body and cannot fails; once a body was
\* rewritten it is plain JSON.
Undecodable(m) == ~m.changed /\ x.enc \notin {"", "gzip"}
Rewritten(m, b) == [m EXCEPT !.body = b, !.enc = "", !.changed = TRUE]
Refused(m) == [m EXCEPT !.failed = TRUE]

\* mapNonStreamResponse: sse_collect, then resp_map.  Answers of status 400
\* and more are handed on as they are.
MapNonStream ==
  LET obj == CollectByMode(x.script)
      raw == [body |-> obj, enc |-> x.enc, changed |-> FALSE, failed |-> FALSE]
  IN IF x.status >= 400 \/ ~(ShouldCollectSSE \/ x.op = "resp_map") THEN raw
     ELSE IF Undecodable(raw) \/ IsFailed(obj) THEN Refused(raw)
     ELSE IF x.op # "resp_map" THEN Rewritten(raw, obj)
     ELSE IF IsFailed(MapResponse(obj)) THEN Refused(raw) ELSE Rewritten(raw, MapResponse(obj))

\* Mutant: the body is rewritten and the flag is not set.
InlineUnmarked(m) == IF x.inline /\ ~m.failed THEN [m EXCEPT !.enc = ""] ELSE m

\* applyResponseInlineURL, for a body that holds a link it can fetch.
InlineURL(m) ==
  IF m.failed \/ ~x.inline THEN m
  ELSE IF Undecodable(m) THEN Refused(m) ELSE Rewritten(m, m.body)

\* applyNonStreamResponseJSONOps: here they delete the usage field.
NonStreamJSONOps(m) ==
  IF m.failed \/ ~x.ops THEN m
  ELSE IF Undecodable(m) THEN Refused(m)
  ELSE Rewritten(m, IF "usage" \in DOMAIN m.body THEN [m.body EXCEPT !.usage = None] ELSE m.body)

FinalBody == NonStreamJSONOps(InlineURL(MapNonStream))

\* Mapping, inlining or the json ops fail.
NonStreamFails ==
  /\ pc = "read_all" /\ FinalBody.failed
  /\ pc' = "close"
  /\ Record(<<UpstreamResponseSection(Events)>>)
  /\ Fail
  /\ UNCHANGED <<x, attempt, conn, pump, pos, buf, st, pend, tap, agg, tail, client, fault>>

PrepareAnswer ==
  /\ pc = "read_all" /\ ~FinalBody.failed
  /\ pc' = "answer"
  /\ Record(<<UpstreamResponseSection(Events)>>)
  /\ UNCHANGED <<x, attempt, conn, pump, pos, buf, st, pend, out, tap, agg, tail, client, fault, result>>

WriteAnswerFails ==
  /\ pc = "answer" /\ client = "gone"
  /\ pc' = "close"
  /\ Fail
  /\ UNCHANGED <<x, attempt, conn, pump, pos, buf, st, pend, tap, agg, tail, dump, client, fault>>

\* The encoding is told to the client unless the body was rewritten.  The
\* metrics were read before inlining and the json ops.
ServeNonStream ==
  /\ pc = "answer"
  /\ pc' = "close"
  /\ \E m \in {FinalBody} :
       /\ out' = [told |-> IF m.changed THEN "" ELSE x.enc, enc |-> m.enc,
                  body |-> IF client = "here" THEN <<m.body>> ELSE <<>>]
       /\ Record(<<ProxyResponseSection(<<m.body>>)>>)
  /\ \E m \in {MapNonStream} : \E counts \in {CountsIn(m.body)} : MakeResult(NonStreamUsage(m.enc, counts))
  /\ UNCHANGED <<x, attempt, conn, pump, pos, buf, st, pend, tap, agg, tail, client, fault>>

----------------------------------------------------------------------------
(* The deferred calls, Bedrock's goroutine and the client *)

\* Mutant: the body stays open.
KeepBody == /\ pc = "close" /\ pc' = "cancel"
            /\ UNCHANGED <<x, attempt, conn, pump, pos, buf, st, pend, out, tap, agg, tail, dump,
                           client, fault, result>>

CloseBody ==
  /\ pc = "close"
  /\ pc' = "cancel"
  /\ conn' = [conn EXCEPT !.body = "closed"]
  /\ UNCHANGED <<x, attempt, pump, pos, buf, st, pend, out, tap, agg, tail, dump, client, fault, result>>

CancelUpstream ==
  /\ pc = "cancel"
  /\ pc' = "done"
  /\ conn' = [conn EXCEPT !.ctx = "cancelled"]
  /\ UNCHANGED <<x, attempt, pump, pos, buf, st, pend, out, tap, agg, tail, dump, client, fault, result>>

\* writeBedrockEventStreamAsSSE decodes the next message ...
PumpRead ==
  /\ pump.at = "reading"
  /\ pump' = [pump EXCEPT !.at = "writing",
                          !.ev = IF pos < Len(Events) THEN Events[pos + 1]
                                 ELSE PipeDone]
  /\ pos' = IF pos < Len(Events) THEN pos + 1 ELSE pos
  /\ UNCHANGED <<x, pc, attempt, conn, buf, st, pend, out, tap, agg, tail, dump, client, fault, result>>

\* ... or meets an exception message, a reset or the end of its context ...
PumpFails(f) ==
  /\ pump.at = "reading"
  /\ \/ f \in {"exception", "reset", "timeout"}
     \/ f = "cancelled" /\ (client = "gone" \/ conn.ctx = "cancelled")
  /\ pump' = [pump EXCEPT !.at = "failed", !.err = f]
  /\ UNCHANGED <<x, pc, attempt, conn, pos, buf, st, pend, out, tap, agg, tail, dump, client, fault, result>>

\* ... and a pipe closed by its reader ends it.
PumpWriteFails ==
  /\ pump.at = "writing" /\ conn.body = "closed"
  /\ pump' = [pump EXCEPT !.at = "failed", !.err = "closed pipe"]
  /\ UNCHANGED <<x, pc, attempt, conn, pos, buf, st, pend, out, tap, agg, tail, dump, client, fault, result>>

ClientLeaves ==
  /\ client = "here" /\ pc \notin {"start", "done"}
  /\ client' = "gone"
  /\ UNCHANGED <<x, pc, attempt, conn, pump, pos, buf, st, pend, out, tap, agg, tail, dump, fault, result>>

PumpStep == PumpRead \/ PumpWriteFails \/ \E f \in {"exception", "reset", "timeout", "cancelled"} : PumpFails(f)

ProxyStep ==
  \/ BuildCtxFails \/ BuildCtx \/ UpstreamFails \/ RetryUnauthorized \/ Respond
  \/ StartStream \/ ReadEvent \/ ReadPipe \/ ReadEOF
  \/ \E f \in {"exception", "reset", "timeout", "cancelled"} : ReadFails(f)
  \/ TransformEvent \/ WriteChunk \/ WriteFails \/ FinishTransform \/ FlushChunk
  \/ FinishTap \/ SettleStream \/ ReadAllFails \/ NonStreamFails \/ PrepareAnswer
  \/ WriteAnswerFails \/ ServeNonStream
  \/ CloseBody \/ CancelUpstream

Next == ProxyStep \/ PumpStep \/ ClientLeaves

\* The handler is in a write to a client that is there.  The server has no
\* write timeout: such a write returns when the client reads or leaves.
WritingToClient ==
  /\ client = "here"
  /\ \/ pc = "stream" /\ pend # <<>>
     \/ pc \in {"flush", "answer"}
     \/ pc = "account" /\ ErrIgnored

\* Both goroutines run until they end: the upstream's timeout ends every read.
\* Nothing is asked of a client that is there and does not read.
Fairness == WF_vars(ProxyStep /\ ~WritingToClient) /\ WF_vars(PumpStep)

Spec == Init /\ [][Next]_vars /\ Fairness

----------------------------------------------------------------------------
(* Properties *)

Complete == /\ pc = "done" /\ result # None /\ result.ok /\ client = "here"
            /\ fault = "eof" /\ x.status = 200

\* The Responses transform sends no piece of a call once it has sent a word.
CallId(e) == IF e.call = "" THEN e.id ELSE e.call
BeforeText(k) == \A j \in 1 .. k : x.script[j].t = "text" => Trim(x.script[j].d) = ""
Announced(id) ==
  x.proto = "responses" =>
    \E k \in DOMAIN x.script : x.script[k].t = "item" /\ CallId(x.script[k]) = id /\ BeforeText(k)
Closed(id) ==
  x.proto = "responses" =>
    \E k \in DOMAIN x.script : /\ x.script[k].t = "item" /\ x.script[k].closed
                               /\ CallId(x.script[k]) = id /\ BeforeText(k)

\* The tools a were streamed of the calls b: those announced in time, in
\* order, with as much of their arguments as came in time.
StreamedCalls(a, b) ==
  LET told == SelectSeq(b, LAMBDA call : Announced(call.id))
  IN /\ Len(a) = Len(told)
     /\ \A j \in DOMAIN a : /\ a[j].id = told[j].id /\ a[j].name = told[j].name
                            /\ IsPrefix(a[j].args, told[j].args)
                            /\ Closed(a[j].id) => a[j].args = told[j].args


\* Token counts that really were spent: the largest the upstream names.
TrueCount(script, f) ==
  LET vs == {UsageOf(script[j])[f] : j \in 1 .. Len(script)} \cup {0}
  IN CHOOSE v \in vs : \A w \in vs : w <= v
Spent(script) == [f \in DOMAIN NoUsage |-> TrueCount(script, f)]

\* What the tokens cost when each is paid once, at the rate of its kind.
\* Where the provider's input count leaves the cached ones out, all of it is
\* fresh.
PriceOf(bill, withCache, spent) ==
  LET rates == EffectiveRates(bill.prices, bill.provider, bill.key, CostModel(bill))
      fresh == IF withCache THEN spent.in ELSE BillableInput(spent)
  IN IF \/ ~bill.on \/ bill.prices = NoResolver \/ "" \in {bill.provider, CostModel(bill)}
        \/ ~Priced(bill.flat, rates)
     THEN NoCost
     ELSE WithTotal([input |-> fresh * RateOf(rates, "input"), output |-> spent.out * RateOf(rates, "output"),
                     read |-> spent.read * CacheRate(rates, "cache_read"),
                     write |-> spent.write * CacheRate(rates, "cache_write"),
                     extra |-> ExtraCost(bill.flat, rates), billable |-> fresh])

BilledIsSpent(y, r) ==
  LET spent == Spent(y.script)
      input == IF y.withCache THEN spent.in + spent.read + spent.write ELSE spent.in
  IN Total(spent) > 0 =>
       /\ r.usage # None
       /\ input > 0 => r.usage.in = input
       /\ spent.out > 0 => r.usage.out = spent.out
       /\ spent.in > 0 /\ spent.out > 0 => r.cost = PriceOf(y.bill, y.withCache, spent)

\* However the upstream spreads its counts over the events of a stream that
\* the tees can read, and whatever the json ops strip from what the client
\* sees, the usage that is billed is the upstream's own, and no token of it is
\* paid twice or not at all: a cached token costs the cache rate and not the
\* input rate as well.
UsageIsExact == Complete /\ x.metrics /\ IsSSE /\ Readable => BilledIsSpent(x, result)

\* The chunk collector, which follows a stream as it comes, ends with the
\* same message as the collector that reads it whole.
CollectorsAgree ==
  /\ pc = "start" /\ x.proto = "claude" /\ ~IsFailed(CollectAnthropicMessages(x.script))
       => SnapshotAnthropic(x.script) = CollectAnthropicMessages(x.script)
  /\ pc = "start" /\ x.proto = "responses" /\ ~IsFailed(CollectOpenAIResponses(x.script))
       => SnapshotResponses(x.script) = CollectOpenAIResponses(x.script)

BilledCovers(r, e) ==
  /\ UsageOf(e).out > 0 => r.usage # None /\ r.usage.out >= UsageOf(e).out
  /\ UsageOf(e).in > 0 => r.usage # None /\ r.usage.in >= UsageOf(e).in

\* A client that leaves early is billed for at least what it got: when a
\* stream is passed on that the tees can read, and the call ends with a
\* result, the counts of every event that reached the client are in its usage.
MeteredCoversDelivered ==
  pc = "done" /\ result # None /\ result.ok /\ x.metrics /\ IsSSE /\ Readable /\ x.status = 200
  /\ IsEffectiveStream /\ ~UseStrategyTransform
    => \A j \in DOMAIN out.body : BilledCovers(result, out.body[j])

\* A body that is not streamed has the encoding its header names.
EncodingIsTold == pc = "done" /\ ~IsEffectiveStream => out.told \in {None, out.enc}

\* However the call ends, the body is closed, the context cancelled and
\* Bedrock's goroutine gone: nothing of the exchange stays behind, unless the
\* client stays and does not read what is written to it.
EverythingIsReleased ==
  <>[]( \/ /\ pc = "done" /\ pump.at \in {"none", "closed", "failed"}
           /\ conn.ctx \in {"none", "cancelled"} /\ conn.body \in {"none", "closed"}
        \/ WritingToClient)
=============================================================================
