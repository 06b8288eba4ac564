---------------------------- MODULE StreamMetrics ----------------------------
(***************************************************************************)
(* Metering a stream: the SSE tap's framing (onr-core/pkg/ssemetrics) and  *)
(* the StreamMetricsAggregator (dslconfig/stream_metrics.go), which merges *)
(* the token counts that arrive spread over several events.                *)
(*                                                                         *)
(* One usage extraction gives [in, out, read, write]: input, output, cache *)
(* read and cache write tokens, 0 where the event says nothing.            *)
(***************************************************************************)
EXTENDS StreamMaps, Integers, SequencesExt

\* withCache: the input fact also counts the cache facts' paths
\* (usageConfigInputIncludesCache).
AggInit == [last |-> None, maxFresh |-> 0, finish |-> ""]

\* What the configured facts read in one event.
ExtractEvent(u, withCache) ==
  [in    |-> IF withCache THEN u.in + u.read + u.write ELSE u.in,
   out   |-> u.out, read |-> u.read, write |-> u.write]

IsAllZeroUsage(u) == \A f \in DOMAIN u : u[f] = 0

\* Mutant: the latest event wins.
MergeUsageLatest(dst, src) == src

\* A zero never overwrites a count that is known.
MergeUsagePreferNonZero(dst, src) ==
  [f \in DOMAIN dst |-> IF src[f] > 0 THEN src[f] ELSE dst[f]]

RecordFreshInputTokens(max, u, withCache) ==
  LET fresh == u.in - u.read - u.write
  IN IF withCache /\ fresh > max THEN fresh ELSE max

\* Mutant: the input is the one of the last event that had one.
KeepMergedInput(u, max, withCache) == u

\* The input of the merged counts: the largest fresh input seen, plus the
\* cached tokens known by now.
RecomputeMergedInput(u, max, withCache) ==
  LET total == max + u.read + u.write
  IN IF withCache /\ total > 0 THEN [u EXCEPT !.in = total] ELSE u

\* OnSSEEventDataJSON: first finish reason, then the usage of the event.
AggStep(a, u, finish, withCache) ==
  LET x  == ExtractEvent(u, withCache)
      a1 == [a EXCEPT !.finish = IF @ = "" THEN finish ELSE @]
      mx == RecordFreshInputTokens(a.maxFresh, x, withCache)
      m  == IF a.last = None THEN x ELSE MergeUsagePreferNonZero(a.last, x)
  IN IF IsAllZeroUsage(x) THEN a1
     ELSE [a1 EXCEPT !.maxFresh = mx, !.last = RecomputeMergedInput(m, mx, withCache)]

\* Result: the counts and their total, or None when nothing was counted.
AggResult(a, withCache) ==
  IF a.last = None THEN None
  ELSE LET u == RecomputeMergedInput(a.last, a.maxFresh, withCache)
       IN [in |-> u.in, out |-> u.out, read |-> u.read, write |-> u.write,
           total |-> u.in + u.out]

----------------------------------------------------------------------------
(* Framing.  A stream is a sequence of lines: "blank" ends an event, an    *)
(* "event" line names it, "data" lines carry it, others are comments.      *)

TapInit == [name |-> "", data |-> <<>>, events |-> <<>>]

\* An event without data, or of [DONE] (None here), is not handed on; its
\* name is gone.
TapFlush(t) ==
  [name |-> "", data |-> <<>>,
   events |-> IF t.data \in {<<>>, <<None>>} THEN t.events
              ELSE Append(t.events, [name |-> t.name, data |-> t.data])]

TapLine(t, line) ==
  CASE line.l = "blank" -> TapFlush(t)
    [] line.l = "event" -> [t EXCEPT !.name = line.v]
    [] line.l = "data"  -> [t EXCEPT !.data = Append(@, line.v)]
    [] OTHER            -> t

\* Finish flushes what the last line left open.
TapFinish(t) == TapFlush(t)

\* The tail buffer keeps the last n items of what was written.
TailBuffer(s, n) == IF Len(s) <= n THEN s ELSE SubSeq(s, Len(s) - n + 1, Len(s))

\* The dump buffers keep the first n and say when they cut.
LimitedBuffer(s, n) == [kept |-> SubSeq(s, 1, IF Len(s) < n THEN Len(s) ELSE n),
                        truncated |-> Len(s) > n]
=============================================================================
