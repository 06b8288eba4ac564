--------------------------- MODULE ExchangeProofs ---------------------------
(* Proofs about Exchange for any exchanges: any protocols, scripts, heads,  *)
(* features and prices.                                                     *)
EXTENDS Exchange, SequenceTheorems, SumTheorems

Streaming == {"headers", "stream", "flush", "settle", "account"}
Faults == {"exception", "reset", "timeout", "cancelled"}
Pcs == Streaming \cup {"start", "upstream", "read_all", "answer", "close", "cancel", "done"}

\* Records of which only the fields matter.
IsOut(o) == \E T, E, B : o \in [told : T, enc : E, body : B]
IsBody(m) == \E B, E, C, F : m \in [body : B, enc : E, changed : C, failed : F]

Conns == [body : {"none", "open", "closed"}, ctx : {"none", "live", "cancelled"}, id : {"", "h"}]
Pumps == [at : {"none", "reading", "writing", "closed", "failed"},
          ev : {Events[i] : i \in 1 .. Len(Events)} \cup {None, PipeDone},
          err : {"", "exception", "reset", "timeout", "cancelled", "closed pipe"}]

Shapes ==
    /\ x \in Exchanges
    /\ pc \in Pcs
    /\ pos \in 0 .. Len(Events)
    /\ conn \in Conns
    /\ pump \in Pumps
    /\ IsOut(out)

\* Where ProxyJSON is decides what it holds: the context, the body, the
\* goroutine, and which of the two response handlers runs.
Control ==
    /\ pc = "start" => conn.ctx = "none" /\ conn.body = "none"
    /\ pc = "done" => conn.ctx \in {"none", "cancelled"}
    /\ pc \in {"start", "upstream"} => conn.body # "open" /\ pump.at = "none"
    /\ pc \in {"cancel", "done"} => conn.body \in {"none", "closed"}
    /\ pc \notin {"upstream", "cancel", "done"} => conn.body # "closed"
    /\ pc \in {"start", "upstream", "headers", "read_all", "answer"} => fault = ""
    /\ pc \in Streaming => IsEffectiveStream
    /\ pc \in {"read_all", "answer"} => ~IsEffectiveStream
    /\ pump.at # "none" => Piped
    /\ pc = "flush" => pend # <<>>

Told == ~IsEffectiveStream => out.told \in {None, out.enc}

Frame == Shapes /\ Control /\ Told

-----------------------------------------------------------------------------
LEMMA OutFields ==
    ASSUME NEW o, IsOut(o), NEW b, NEW t, NEW e
    PROVE  /\ IsOut([o EXCEPT !.body = b])
           /\ [o EXCEPT !.body = b].told = o.told /\ [o EXCEPT !.body = b].enc = o.enc
           /\ [o EXCEPT !.body = b].body = b
           /\ IsOut([o EXCEPT !.told = t, !.enc = e])
           /\ [o EXCEPT !.told = t, !.enc = e].body = o.body
           /\ IsOut([told |-> t, enc |-> e, body |-> b])
<1>1. PICK T, E, B : o \in [told : T, enc : E, body : B]
  BY DEF IsOut
<1>2. \A P, Q, R, n : n \in [told : P, enc : Q, body : R] => IsOut(n)
  BY DEF IsOut
<1>3. [o EXCEPT !.body = b] \in [told : T, enc : E, body : B \cup {b}]
  BY <1>1
<1>4. [o EXCEPT !.told = t, !.enc = e] \in [told : T \cup {t}, enc : E \cup {e}, body : B]
  BY <1>1
<1>5. [told |-> t, enc |-> e, body |-> b] \in [told : {t}, enc : {e}, body : {b}]
  OBVIOUS
<1>6. IsOut([o EXCEPT !.body = b])
  BY <1>2, <1>3
<1>7. IsOut([o EXCEPT !.told = t, !.enc = e])
  BY <1>2, <1>4
<1>8. IsOut([told |-> t, enc |-> e, body |-> b])
  BY <1>2, <1>5
<1>9. /\ [o EXCEPT !.body = b].told = o.told /\ [o EXCEPT !.body = b].enc = o.enc
      /\ [o EXCEPT !.body = b].body = b /\ [o EXCEPT !.told = t, !.enc = e].body = o.body
  BY <1>1
<1> QED BY <1>6, <1>7, <1>8, <1>9

\* A body is rewritten to plain JSON, or has the encoding it came with.
EncodedAs(m) == IsBody(m) /\ m.enc = IF m.changed THEN "" ELSE x.enc

LEMMA EncodedSteps ==
    ASSUME NEW m, EncodedAs(m), NEW b
    PROVE  EncodedAs(Rewritten(m, b)) /\ EncodedAs(Refused(m))
<1>1. PICK B, E, C, F : m \in [body : B, enc : E, changed : C, failed : F]
  BY DEF EncodedAs, IsBody
<1>2. \A P, Q, R, S, n : n \in [body : P, enc : Q, changed : R, failed : S] => IsBody(n)
  BY DEF IsBody
<1>3. Rewritten(m, b) \in [body : B \cup {b}, enc : E \cup {""}, changed : C \cup {TRUE}, failed : F]
  BY <1>1 DEF Rewritten
<1>4. Refused(m) \in [body : B, enc : E, changed : C, failed : F \cup {TRUE}]
  BY <1>1 DEF Refused
<1>5. Rewritten(m, b).enc = "" /\ Rewritten(m, b).changed = TRUE
  BY <1>1 DEF Rewritten
<1>6. Refused(m).enc = m.enc /\ Refused(m).changed = m.changed
  BY <1>1 DEF Refused
<1>7. IsBody(Rewritten(m, b))
  BY <1>2, <1>3
<1>8. IsBody(Refused(m))
  BY <1>2, <1>4
<1> QED BY <1>5, <1>6, <1>7, <1>8 DEF EncodedAs

LEMMA FinalBodyEncoded == EncodedAs(FinalBody)
<1>1. EncodedAs(MapNonStream)
  <2> DEFINE obj == CollectByMode(x.script)
             raw == [body |-> obj, enc |-> x.enc, changed |-> FALSE, failed |-> FALSE]
  <2>1. EncodedAs(raw)
    <3>1. raw \in [body : {obj}, enc : {x.enc}, changed : {FALSE}, failed : {FALSE}]
      OBVIOUS
    <3>2. IsBody(raw)
      BY <3>1 DEF IsBody
    <3> QED BY <3>2 DEF EncodedAs
  <2>2. \E b : MapNonStream \in {raw, Refused(raw), Rewritten(raw, b), Rewritten(raw, obj)}
    <3> HIDE DEF raw
    <3> QED BY DEF MapNonStream, raw
  <2> HIDE DEF raw, obj
  <2> QED BY <2>1, <2>2, EncodedSteps
<1>2. EncodedAs(InlineURL(MapNonStream))
  BY <1>1, EncodedSteps DEF InlineURL
<1> QED BY <1>2, EncodedSteps DEF FinalBody, NonStreamJSONOps

-----------------------------------------------------------------------------
LEMMA EventsFacts ==
    ASSUME x \in Exchanges
    PROVE  /\ Len(Events) \in Nat /\ DOMAIN Events = 1 .. Len(Events)
           /\ Len(x.script) \in Nat /\ DOMAIN x.script = 1 .. Len(x.script)
<1> DEFINE S == {x.script[j] : j \in DOMAIN x.script}
<1>1. x.script \in Seq(S)
  BY ScriptsAreEvents
<1>2. <<[t |-> "json", k |-> "json"]>> \in Seq({[t |-> "json", k |-> "json"]})
  OBVIOUS
<1> HIDE DEF S
<1>3. Len(x.script) \in Nat /\ DOMAIN x.script = 1 .. Len(x.script)
  BY <1>1
<1> DEFINE odd == <<[t |-> "json", k |-> "json"]>>
<1>4. Len(odd) \in Nat /\ DOMAIN odd = 1 .. Len(odd)
  BY <1>2
<1>5. Events \in {x.script, odd}
  BY DEF Events
<1> HIDE DEF odd
<1> QED BY <1>3, <1>4, <1>5

\* What the decisions are taken from does not change.
LEMMA Decisions ==
    ASSUME x' = x
    PROVE  /\ Events' = Events /\ Pumps' = Pumps
           /\ Piped' <=> Piped
           /\ IsSSE' <=> IsSSE
           /\ IsEffectiveStream' <=> IsEffectiveStream
BY DEF Events, Piped, IsSSE, IsEffectiveStream, ShouldCollectSSE, Pumps

LEMMA FrameInit == Init => Frame
<1> SUFFICES ASSUME Init PROVE Frame
  OBVIOUS
<1>1. Shapes
  <2>1. IsOut(out)
    BY OutFields DEF Init, IsOut
  <2>2. pos \in 0 .. Len(Events)
    <3>1. Len(Events) \in Nat /\ pos = 0
      BY EventsFacts DEF Init
    <3> HIDE DEF Init
    <3> QED BY <3>1
  <2>3. pump \in Pumps
    BY DEF Init, Pumps
  <2> QED BY <2>1, <2>2, <2>3 DEF Init, Shapes, Pcs, Conns
<1>2. Control
  BY DEF Init, Control, Streaming
<1>3. Told
  BY DEF Init, Told
<1> QED BY <1>1, <1>2, <1>3 DEF Frame

LEMMA FailFields ==
    ASSUME IsOut(out), Fail
    PROVE  IsOut(out') /\ out'.told = out.told /\ out'.enc = out.enc
BY OutFields DEF Fail

LEMMA BodyGrows ==
    ASSUME IsOut(out), NEW b,
           out' = out \/ out' = IF client = "here" THEN [out EXCEPT !.body = b] ELSE out
    PROVE  IsOut(out') /\ out'.told = out.told /\ out'.enc = out.enc
<1>1. CASE out' = out
  BY <1>1
<1>2. CASE out' = [out EXCEPT !.body = b]
  BY <1>2, OutFields
<1> QED BY <1>1, <1>2

\* A step that leaves the heads of the answer as they were told.
LEMMA ToldKept ==
    ASSUME Frame, x' = x, IsOut(out'), out'.told = out.told, out'.enc = out.enc
    PROVE  Told'
BY Decisions DEF Frame, Told

LEMMA FrameNext == Frame /\ [Next]_vars => Frame'
<1> SUFFICES ASSUME Frame, [Next]_vars PROVE Frame'
  OBVIOUS
<1> USE DEF Frame
<1>0. CASE UNCHANGED vars
  <2>1. x' = x
    BY <1>0 DEF vars
  <2>2. Shapes'
    BY <1>0, <2>1, Decisions DEF vars, Shapes, IsOut
  <2>3. Control'
    BY <1>0, <2>1, Decisions DEF vars, Control
  <2> QED BY <1>0, <2>1, <2>2, <2>3, ToldKept DEF vars, Shapes
<1>1. CASE BuildCtxFails
  <2>1. IsOut(out') /\ out'.told = out.told /\ out'.enc = out.enc
    BY <1>1, FailFields DEF BuildCtxFails, Shapes
  <2>2. Shapes'
    BY <1>1, <2>1, Decisions DEF BuildCtxFails, Shapes, Pcs
  <2>3. Control'
    BY <1>1, Decisions DEF BuildCtxFails, Control, Streaming
  <2> QED BY <1>1, <2>1, <2>2, <2>3, ToldKept DEF BuildCtxFails
<1>2. CASE BuildCtx
  <2>1. IsOut(out') /\ out'.told = out.told /\ out'.enc = out.enc
    BY <1>2 DEF BuildCtx, Shapes
  <2>2. Shapes'
    BY <1>2, <2>1, Decisions DEF BuildCtx, Shapes, Pcs, Conns
  <2>3. Control'
    BY <1>2, Decisions DEF BuildCtx, Shapes, Control, Streaming, Conns
  <2> QED BY <1>2, <2>1, <2>2, <2>3, ToldKept DEF BuildCtx
<1>3. CASE UpstreamFails
  <2>1. IsOut(out') /\ out'.told = out.told /\ out'.enc = out.enc
    BY <1>3, FailFields DEF UpstreamFails, Shapes
  <2>2. Shapes'
    BY <1>3, <2>1, Decisions DEF UpstreamFails, Shapes, Pcs, Conns
  <2>3. Control'
    BY <1>3, Decisions DEF UpstreamFails, Shapes, Control, Streaming, Conns
  <2> QED BY <1>3, <2>1, <2>2, <2>3, ToldKept DEF UpstreamFails
<1>4. CASE RetryUnauthorized
  <2>1. IsOut(out') /\ out'.told = out.told /\ out'.enc = out.enc
    BY <1>4 DEF RetryUnauthorized, Shapes
  <2>2. Shapes'
    BY <1>4, <2>1, Decisions DEF RetryUnauthorized, Shapes, Pcs, Conns
  <2>3. Control'
    BY <1>4, Decisions DEF RetryUnauthorized, Shapes, Control, Streaming, Conns
  <2> QED BY <1>4, <2>1, <2>2, <2>3, ToldKept DEF RetryUnauthorized
<1>5. CASE Respond
  <2>1. IsOut(out') /\ out'.told = out.told /\ out'.enc = out.enc
    BY <1>5 DEF Respond, Shapes
  <2>2. pump' \in Pumps /\ (pump'.at # "none" => Piped)
    <3>1. CASE Piped
      BY <1>5, <3>1 DEF Respond, Shapes, Pumps
    <3>2. CASE ~Piped
      BY <1>5, <3>2 DEF Respond, Shapes, Control
    <3> QED BY <3>1, <3>2
  <2>3. pc' \in {"headers", "read_all"} /\ (pc' = "headers" <=> IsEffectiveStream)
    BY <1>5, Zenon DEF Respond
  <2>4. Shapes'
    BY <1>5, <2>1, <2>2, <2>3, Decisions DEF Respond, Shapes, Pcs, Streaming, Conns
  <2>5. Control'
    BY <1>5, <2>2, <2>3, Decisions DEF Respond, Control, Streaming
  <2> QED BY <1>5, <2>1, <2>4, <2>5, ToldKept DEF Respond
<1>6. CASE StartStream
  <2>1. IsOut(out')
    BY <1>6, OutFields DEF StartStream, Shapes
  <2>2. Shapes'
    BY <1>6, <2>1, Decisions DEF StartStream, Shapes, Pcs, Streaming
  <2>3. Control'
    BY <1>6, Decisions DEF StartStream, Control, Streaming
  <2>4. Told'
    BY <1>6, Decisions DEF StartStream, Control, Streaming, Told
  <2> QED BY <2>2, <2>3, <2>4
<1>7. CASE ReadEvent
  <2>1. IsOut(out') /\ out'.told = out.told /\ out'.enc = out.enc
    BY <1>7 DEF ReadEvent, Shapes
  <2>2. Shapes'
    <3>1. Len(Events) \in Nat
      BY EventsFacts DEF Shapes
    <3>2. pos' \in 0 .. Len(Events)
      <4>1. pos \in 0 .. Len(Events) /\ pos < Len(Events) /\ pos' = pos + 1
        BY <1>7 DEF ReadEvent, Shapes
      <4> QED BY <3>1, <4>1
    <3> QED BY <1>7, <2>1, <3>2, Decisions DEF ReadEvent, Shapes
  <2>3. Control'
    BY <1>7, Decisions DEF ReadEvent, Shapes, Control, Streaming
  <2> QED BY <1>7, <2>1, <2>2, <2>3, ToldKept DEF ReadEvent
<1>8. CASE ReadPipe
  <2>1. IsOut(out') /\ out'.told = out.told /\ out'.enc = out.enc
    BY <1>8 DEF ReadPipe, Shapes
  <2>2. Shapes'
    BY <1>8, <2>1, Decisions DEF ReadPipe, Shapes, Pcs, Pumps
  <2>3. Control'
    BY <1>8, Decisions DEF ReadPipe, Shapes, Control, Streaming, Pumps
  <2> QED BY <1>8, <2>1, <2>2, <2>3, ToldKept DEF ReadPipe
<1>9. CASE ReadEOF
  <2>1. IsOut(out') /\ out'.told = out.told /\ out'.enc = out.enc
    BY <1>9 DEF ReadEOF, Shapes
  <2>2. Shapes'
    BY <1>9, <2>1, Decisions DEF ReadEOF, Shapes, Pcs
  <2>3. Control'
    BY <1>9, Decisions DEF ReadEOF, Shapes, Control, Streaming
  <2> QED BY <1>9, <2>1, <2>2, <2>3, ToldKept DEF ReadEOF
<1>10. ASSUME NEW f \in Faults, ReadFails(f) PROVE Frame'
  <2>1. IsOut(out') /\ out'.told = out.told /\ out'.enc = out.enc
    BY <1>10 DEF ReadFails, Shapes
  <2>2. Shapes'
    BY <1>10, <2>1, Decisions DEF ReadFails, Shapes, Pcs
  <2>3. Control'
    BY <1>10, Decisions DEF ReadFails, Shapes, Control, Streaming
  <2> QED BY <1>10, <2>1, <2>2, <2>3, ToldKept DEF ReadFails
<1>11. CASE TransformEvent
  <2>1. IsOut(out') /\ out'.told = out.told /\ out'.enc = out.enc
    BY <1>11 DEF TransformEvent, Shapes
  <2>2. Shapes'
    BY <1>11, <2>1, Decisions DEF TransformEvent, Shapes, Pcs
  <2>3. Control'
    BY <1>11, Decisions DEF TransformEvent, Shapes, Control, Streaming
  <2> QED BY <1>11, <2>1, <2>2, <2>3, ToldKept DEF TransformEvent
<1>12. CASE WriteChunk
  <2>1. IsOut(out') /\ out'.told = out.told /\ out'.enc = out.enc
    BY <1>12, OutFields DEF WriteChunk, Shapes
  <2>2. Shapes'
    BY <1>12, <2>1, Decisions DEF WriteChunk, Shapes, Pcs
  <2>3. Control'
    BY <1>12, Decisions DEF WriteChunk, Shapes, Control, Streaming
  <2> QED BY <1>12, <2>1, <2>2, <2>3, ToldKept DEF WriteChunk
<1>13. CASE WriteFails
  <2>1. IsOut(out') /\ out'.told = out.told /\ out'.enc = out.enc
    BY <1>13 DEF WriteFails, Shapes
  <2>2. Shapes'
    BY <1>13, <2>1, Decisions DEF WriteFails, Shapes, Pcs, Streaming
  <2>3. Control'
    BY <1>13, Decisions DEF WriteFails, Shapes, Control, Streaming
  <2> QED BY <1>13, <2>1, <2>2, <2>3, ToldKept DEF WriteFails
<1>14. CASE FinishTransform
  <2>1. IsOut(out') /\ out'.told = out.told /\ out'.enc = out.enc
    BY <1>14 DEF FinishTransform, Shapes
  <2>2. Shapes'
    BY <1>14, <2>1, Decisions DEF FinishTransform, Shapes, Pcs, Streaming
  <2>3. Control'
    BY <1>14, Decisions DEF FinishTransform, Shapes, Control, Streaming
  <2> QED BY <1>14, <2>1, <2>2, <2>3, ToldKept DEF FinishTransform
<1>15. CASE FlushChunk
  <2>1. IsOut(out') /\ out'.told = out.told /\ out'.enc = out.enc
    BY <1>15, BodyGrows DEF FlushChunk, Shapes
  <2>2. Shapes'
    BY <1>15, <2>1, Decisions DEF FlushChunk, Shapes, Pcs, Streaming
  <2>3. Control'
    BY <1>15, Decisions DEF FlushChunk, Shapes, Control, Streaming
  <2> QED BY <1>15, <2>1, <2>2, <2>3, ToldKept DEF FlushChunk
<1>16. CASE FinishTap
  <2>1. IsOut(out') /\ out'.told = out.told /\ out'.enc = out.enc
    BY <1>16 DEF FinishTap, Shapes
  <2>2. Shapes'
    BY <1>16, <2>1, Decisions DEF FinishTap, Shapes, Pcs, Streaming
  <2>3. Control'
    BY <1>16, Decisions DEF FinishTap, Shapes, Control, Streaming
  <2> QED BY <1>16, <2>1, <2>2, <2>3, ToldKept DEF FinishTap
<1>17. CASE SettleStream
  <2>1. IsOut(out') /\ out'.told = out.told /\ out'.enc = out.enc
    BY <1>17, FailFields DEF SettleStream, Shapes
  <2>2. Shapes'
    BY <1>17, <2>1, Decisions DEF SettleStream, Shapes, Pcs
  <2>3. Control'
    BY <1>17, Decisions DEF SettleStream, Shapes, Control, Streaming
  <2> QED BY <1>17, <2>1, <2>2, <2>3, ToldKept DEF SettleStream
<1>18. CASE ReadAllFails
  <2>1. IsOut(out') /\ out'.told = out.told /\ out'.enc = out.enc
    BY <1>18, FailFields DEF ReadAllFails, Shapes
  <2>2. Shapes'
    BY <1>18, <2>1, Decisions DEF ReadAllFails, Shapes, Pcs
  <2>3. Control'
    BY <1>18, Decisions DEF ReadAllFails, Shapes, Control, Streaming
  <2> QED BY <1>18, <2>1, <2>2, <2>3, ToldKept DEF ReadAllFails
<1>19. CASE NonStreamFails
  <2>1. IsOut(out') /\ out'.told = out.told /\ out'.enc = out.enc
    BY <1>19, FailFields DEF NonStreamFails, Shapes
  <2>2. Shapes'
    BY <1>19, <2>1, Decisions DEF NonStreamFails, Shapes, Pcs
  <2>3. Control'
    BY <1>19, Decisions DEF NonStreamFails, Shapes, Control, Streaming
  <2> QED BY <1>19, <2>1, <2>2, <2>3, ToldKept DEF NonStreamFails
<1>20. CASE ServeNonStream
  <2>1. IsOut(out')
    <3>1. \A t, e, b : IsOut([told |-> t, enc |-> e, body |-> b])
      BY OutFields DEF Shapes
    <3> QED BY <1>20, <3>1 DEF ServeNonStream
  <2>2. Shapes'
    BY <1>20, <2>1, Decisions DEF ServeNonStream, Shapes, Pcs
  <2>3. Control'
    BY <1>20, Decisions DEF ServeNonStream, Control, Streaming
  <2>4. out'.told = out'.enc
    <3>1. PICK m : m = FinalBody /\ EncodedAs(m)
      BY FinalBodyEncoded
    <3>2. out' = [told |-> IF m.changed THEN "" ELSE x.enc, enc |-> m.enc,
                  body |-> IF client = "here" THEN <<m.body>> ELSE <<>>]
      BY <1>20, <3>1 DEF ServeNonStream
    <3>3. out'.told = (IF m.changed THEN "" ELSE x.enc) /\ out'.enc = m.enc
      BY <3>2
    <3> QED BY <3>1, <3>3 DEF EncodedAs
  <2>5. Told'
    BY <2>4 DEF Told
  <2> QED BY <2>2, <2>3, <2>5
<1>21. CASE CloseBody
  <2>1. IsOut(out') /\ out'.told = out.told /\ out'.enc = out.enc
    BY <1>21 DEF CloseBody, Shapes
  <2>2. Shapes'
    BY <1>21, <2>1, Decisions DEF CloseBody, Shapes, Pcs, Conns
  <2>3. Control'
    BY <1>21, Decisions DEF CloseBody, Shapes, Control, Streaming, Conns
  <2> QED BY <1>21, <2>1, <2>2, <2>3, ToldKept DEF CloseBody
<1>22. CASE CancelUpstream
  <2>1. IsOut(out') /\ out'.told = out.told /\ out'.enc = out.enc
    BY <1>22 DEF CancelUpstream, Shapes
  <2>2. Shapes'
    BY <1>22, <2>1, Decisions DEF CancelUpstream, Shapes, Pcs, Conns
  <2>3. Control'
    BY <1>22, Decisions DEF CancelUpstream, Shapes, Control, Streaming, Conns
  <2> QED BY <1>22, <2>1, <2>2, <2>3, ToldKept DEF CancelUpstream
<1>23. CASE PumpRead
  <2>1. IsOut(out') /\ out'.told = out.told /\ out'.enc = out.enc
    BY <1>23 DEF PumpRead, Shapes
  <2>2. Shapes'
    <3>1. Len(Events) \in Nat
      BY EventsFacts DEF Shapes
    <3>2. pos' \in 0 .. Len(Events)
      BY <1>23, <3>1 DEF PumpRead, Shapes
    <3>3. pump' \in Pumps
      <4>1. CASE pos < Len(Events)
        <5>1. pump' = [pump EXCEPT !.at = "writing", !.ev = Events[pos + 1]]
          BY <1>23, <4>1 DEF PumpRead
        <5>2. pos + 1 \in 1 .. Len(Events)
          BY <3>1, <4>1 DEF Shapes
        <5> QED BY <5>1, <5>2 DEF Shapes, Pumps
      <4>2. CASE ~(pos < Len(Events))
        <5>1. pump' = [pump EXCEPT !.at = "writing", !.ev = PipeDone]
          BY <1>23, <4>2 DEF PumpRead
        <5> QED BY <5>1 DEF Shapes, Pumps
      <4> QED BY <4>1, <4>2
    <3> QED BY <1>23, <2>1, <3>2, <3>3, Decisions DEF PumpRead, Shapes
  <2>3. Control'
    BY <1>23, Decisions DEF PumpRead, Control
  <2> QED BY <1>23, <2>1, <2>2, <2>3, ToldKept DEF PumpRead
<1>24. CASE PumpWriteFails
  <2>1. IsOut(out') /\ out'.told = out.told /\ out'.enc = out.enc
    BY <1>24 DEF PumpWriteFails, Shapes
  <2>2. Shapes'
    BY <1>24, <2>1, Decisions DEF PumpWriteFails, Shapes, Pcs, Pumps
  <2>3. Control'
    BY <1>24, Decisions DEF PumpWriteFails, Shapes, Control, Streaming, Pumps
  <2> QED BY <1>24, <2>1, <2>2, <2>3, ToldKept DEF PumpWriteFails
<1>25. ASSUME NEW f \in Faults, PumpFails(f) PROVE Frame'
  <2>1. IsOut(out') /\ out'.told = out.told /\ out'.enc = out.enc
    BY <1>25 DEF PumpFails, Shapes
  <2>2. Shapes'
    BY <1>25, <2>1, Decisions DEF PumpFails, Shapes, Pcs, Pumps, Faults
  <2>3. Control'
    BY <1>25, Decisions DEF PumpFails, Control
  <2> QED BY <1>25, <2>1, <2>2, <2>3, ToldKept DEF PumpFails
<1>26. CASE ClientLeaves
  <2>1. IsOut(out') /\ out'.told = out.told /\ out'.enc = out.enc
    BY <1>26 DEF ClientLeaves, Shapes
  <2>2. Shapes'
    BY <1>26, <2>1, Decisions DEF ClientLeaves, Shapes, Pcs
  <2>3. Control'
    BY <1>26, Decisions DEF ClientLeaves, Control
  <2> QED BY <1>26, <2>1, <2>2, <2>3, ToldKept DEF ClientLeaves
<1>27. CASE PrepareAnswer
  <2>1. IsOut(out') /\ out'.told = out.told /\ out'.enc = out.enc
    BY <1>27 DEF PrepareAnswer, Shapes
  <2>2. Shapes'
    BY <1>27, <2>1, Decisions DEF PrepareAnswer, Shapes, Pcs
  <2>3. Control'
    BY <1>27, Decisions DEF PrepareAnswer, Shapes, Control, Streaming
  <2> QED BY <1>27, <2>1, <2>2, <2>3, ToldKept DEF PrepareAnswer
<1>28. CASE WriteAnswerFails
  <2>1. IsOut(out') /\ out'.told = out.told /\ out'.enc = out.enc
    BY <1>28, FailFields DEF WriteAnswerFails, Shapes
  <2>2. Shapes'
    BY <1>28, <2>1, Decisions DEF WriteAnswerFails, Shapes, Pcs
  <2>3. Control'
    BY <1>28, Decisions DEF WriteAnswerFails, Shapes, Control, Streaming
  <2> QED BY <1>28, <2>1, <2>2, <2>3, ToldKept DEF WriteAnswerFails
<1> QED BY <1>0, <1>1, <1>2, <1>3, <1>4, <1>5, <1>6, <1>7, <1>8, <1>9, <1>10, <1>11, <1>12, <1>13, <1>14, <1>15, <1>16, <1>17, <1>18, <1>19, <1>20, <1>21, <1>22, <1>23, <1>24, <1>25, <1>26, <1>27, <1>28 DEF Next, ProxyStep, PumpStep, Faults

THEOREM FrameSafe == Spec => []Frame
<1>1. Init => Frame
  BY FrameInit
<1>2. Frame /\ [Next]_vars => Frame'
  BY FrameNext
<1> QED BY <1>1, <1>2, PTL DEF Spec

\* The Content-Encoding that handleNonStreamResponse tells is that of the
\* body it wrote, whichever of mapping, inlining and json ops rewrote it.
THEOREM EncodingSafe == Spec => []EncodingIsTold
<1>1. Frame => EncodingIsTold
  BY DEF Frame, Told, EncodingIsTold
<1> QED BY <1>1, FrameSafe, PTL

\* What EverythingIsReleased says of the call itself: ProxyJSON has returned
\* only when its deferred calls closed the body and cancelled the context.
Released == pc = "done" => conn.ctx \in {"none", "cancelled"} /\ conn.body \in {"none", "closed"}

\* ProxyJSON never returns with the body open or the context live.
THEOREM ReleaseSafe == Spec => []Released
<1>1. Frame => Released
  BY DEF Frame, Control, Released
<1> QED BY <1>1, FrameSafe, PTL

-----------------------------------------------------------------------------
(* Metering.  The script is s; the counts of its first n events. *)

Fields == {"in", "out", "read", "write"}
Use(s, i) == UsageOf(s[i])

\* v is the largest count of a field the first n events name.
HighMark(v, s, f, n) ==
    /\ v \in Nat
    /\ \A i \in 1 .. n : Use(s, i)[f] <= v
    /\ v = 0 \/ \E i \in 1 .. n : Use(s, i)[f] = v

Known(a) == IF a.last = None THEN NoUsage ELSE a.last

\* What the aggregator knows after the first n events: the high marks, the
\* input of a provider that counts the cache apart put together from them.
Counts(a, s, w, n) ==
    /\ a \in [last : Usages \cup {None}, maxFresh : Nat, finish : {a.finish}]
    /\ \A f \in {"out", "read", "write"} : HighMark(Known(a)[f], s, f, n)
    /\ HighMark(IF w THEN a.maxFresh ELSE Known(a).in, s, "in", n)
    /\ w => Known(a).in = a.maxFresh + Known(a).read + Known(a).write
    /\ ~w => a.maxFresh = 0

Metered == x.metrics /\ IsSSE /\ Readable
Fed(s) == {s[i] : i \in 1 .. Len(s)} \cup {PipeDone}

\* Events the tap has seen: the goroutine may hold one that it has not.
Holding == Piped /\ pump.at = "writing" /\ pump.ev # PipeDone
Tapped == IF Holding THEN pos - 1 ELSE pos

\* Chunks with no count above those of the first n events.
Covered(s, n) ==
    {c \in Fed(s) \cup {StripUsage(e) : e \in Fed(s)} :
       /\ UsageOf(c) \in Usages
       /\ \A f \in {"in", "out"} :
            UsageOf(c)[f] > 0 => \E i \in 1 .. n : UsageOf(c)[f] <= Use(s, i)[f]}

PumpInOrder ==
    /\ pump.at = "writing" => \/ pump.ev = PipeDone /\ pos = Len(x.script)
                              \/ pos >= 1 /\ pump.ev = x.script[pos]
    /\ pump.at = "closed" => pos = Len(x.script)

IsTap(t) == t \in [name : {t.name}, data : {t.data}, events : {t.events}]

\* The last event may wait in the tap for its blank line.
TapCounts ==
    /\ IsTap(tap)
    /\ \/ tap.data = <<>> /\ Counts(agg, x.script, x.withCache, Tapped)
       \/ /\ pc # "account" /\ ~Piped /\ pos > 0 /\ pos = Len(x.script)
          /\ tap.data = <<DataLine(x.script[pos]).v>>
          /\ Counts(agg, x.script, x.withCache, pos - 1)

Feeding ==
    /\ TapCounts
    /\ tail \in Seq(Fed(x.script)) /\ (tail = <<>> => Tapped = 0)
    /\ buf \in Seq(Fed(x.script) \cap Covered(x.script, Tapped))
    /\ ~UseStrategyTransform => /\ pend \in Seq(Covered(x.script, Tapped))
                                /\ out.body \in Seq(Covered(x.script, Tapped))
    /\ fault = "eof" => Tapped = Len(x.script)

Settled ==
    result # None /\ result.ok /\ x.status = 200 /\ IsEffectiveStream =>
      /\ fault = "eof" => BilledIsSpent(x, result)
      /\ ~UseStrategyTransform => \A j \in DOMAIN out.body : BilledCovers(result, out.body[j])

Live == Streaming \cup {"start", "upstream"}

Metering ==
    Metered =>
      /\ PumpInOrder
      /\ fault # "" => IsEffectiveStream
      /\ pc \in Live => Feeding
      /\ pc \in {"close", "cancel", "done"} => Settled

\* The counts of the first n events are numbers, and running totals.
Totals(s, n) ==
    /\ \A i \in 1 .. n : Use(s, i) \in Usages
    /\ \A f \in Fields : \A i, j \in 1 .. n :
         i < j /\ Use(s, j)[f] > 0 => Use(s, i)[f] <= Use(s, j)[f]

LEMMA MarkSteps ==
    ASSUME NEW s, NEW n \in Nat, Totals(s, n + 1), NEW f \in Fields, NEW v, HighMark(v, s, f, n)
    PROVE  LET u == Use(s, n + 1)[f]
           IN /\ HighMark(IF u > 0 THEN u ELSE v, s, f, n + 1)
              /\ HighMark(IF u > v THEN u ELSE v, s, f, n + 1)
<1> DEFINE u == Use(s, n + 1)[f]
<1>1. /\ n + 1 \in 1 .. n + 1 /\ u \in Nat
      /\ \A i \in 1 .. n + 1 : Use(s, i)[f] \in Nat
  BY DEF Totals, Usages, Fields
<1>2. \A i \in 1 .. n + 1 : i \in 1 .. n \/ i = n + 1
  OBVIOUS
<1>3. \A i \in 1 .. n : i \in 1 .. n + 1 /\ i < n + 1
  OBVIOUS
<1>4. u > 0 => \A i \in 1 .. n : Use(s, i)[f] <= u
  BY <1>1, <1>3 DEF Totals
<1> HIDE DEF u
<1>5. /\ v \in Nat /\ \A i \in 1 .. n : Use(s, i)[f] <= v
      /\ v = 0 \/ \E i \in 1 .. n : Use(s, i)[f] = v
  BY DEF HighMark
<1>6. ASSUME NEW m \in Nat, u <= m, \A i \in 1 .. n : Use(s, i)[f] <= m, m \in {0, u, v}
      PROVE  HighMark(m, s, f, n + 1)
  <2>1. \A i \in 1 .. n + 1 : Use(s, i)[f] <= m
    BY <1>1, <1>2, <1>6 DEF u
  <2>2. m = 0 \/ \E i \in 1 .. n + 1 : Use(s, i)[f] = m
    BY <1>1, <1>3, <1>5, <1>6 DEF u
  <2> QED BY <2>1, <2>2 DEF HighMark
<1>7. CASE u > 0
  <2>1. HighMark(u, s, f, n + 1)
    BY <1>1, <1>4, <1>6, <1>7
  <2>2. CASE u > v
    BY <1>7, <2>1, <2>2 DEF u
  <2>3. CASE ~(u > v)
    <3>1. HighMark(v, s, f, n + 1)
      BY <1>1, <1>5, <1>6, <2>3
    <3> QED BY <1>7, <2>1, <2>3, <3>1 DEF u
  <2> QED BY <2>2, <2>3
<1>8. CASE ~(u > 0)
  <2>1. u = 0 /\ ~(u > v)
    BY <1>1, <1>5, <1>8
  <2>2. HighMark(v, s, f, n + 1)
    BY <1>1, <1>5, <1>6, <2>1
  <2> QED BY <1>8, <2>1, <2>2 DEF u
<1> QED BY <1>7, <1>8

LEMMA AggCounts ==
    ASSUME NEW s, NEW n \in Nat, Totals(s, n + 1), NEW a, NEW w, NEW fin, Counts(a, s, w, n)
    PROVE  Counts(AggStep(a, Use(s, n + 1), fin, w), s, w, n + 1)
<1> DEFINE u == Use(s, n + 1)
           e == ExtractEvent(u, w)
           k == Known(a)
           r == AggStep(a, u, fin, w)
<1>1. u \in Usages
  <2>1. n + 1 \in 1 .. n + 1
    OBVIOUS
  <2> QED BY <2>1 DEF Totals
<1>2. a \in [last : Usages \cup {None}, maxFresh : Nat, finish : {a.finish}]
  BY DEF Counts
<1>3. k \in Usages
  BY <1>2 DEF Known, NoUsage, Usages
<1> HIDE DEF u, k
<1>4. /\ e \in Usages /\ e.out = u.out /\ e.read = u.read /\ e.write = u.write
      /\ e.in = IF w THEN u.in + u.read + u.write ELSE u.in
  <2>1. u.in \in Nat /\ u.out \in Nat /\ u.read \in Nat /\ u.write \in Nat
    BY <1>1 DEF Usages
  <2> QED BY <2>1 DEF ExtractEvent, Usages
<1>5. IsAllZeroUsage(e) <=> e.in = 0 /\ e.out = 0 /\ e.read = 0 /\ e.write = 0
  BY <1>4 DEF IsAllZeroUsage, Usages
<1>6. \A f \in {"out", "read", "write"} : HighMark(IF u[f] > 0 THEN u[f] ELSE k[f], s, f, n + 1)
  <2>1. \A f \in {"out", "read", "write"} : f \in Fields /\ HighMark(k[f], s, f, n)
    BY DEF Counts, Fields, k
  <2> QED BY <2>1, MarkSteps DEF u
<1>7. w => /\ HighMark(IF u.in > a.maxFresh THEN u.in ELSE a.maxFresh, s, "in", n + 1)
           /\ k.in = a.maxFresh + k.read + k.write
  <2>1. w => HighMark(a.maxFresh, s, "in", n)
    BY DEF Counts
  <2>2. "in" \in Fields
    BY DEF Fields
  <2> QED BY <2>1, <2>2, MarkSteps DEF u, Counts, k
<1>8. ~w => HighMark(IF u.in > 0 THEN u.in ELSE k.in, s, "in", n + 1) /\ a.maxFresh = 0
  <2>1. ~w => HighMark(k.in, s, "in", n) /\ a.maxFresh = 0
    BY DEF Counts, k
  <2>2. "in" \in Fields
    BY DEF Fields
  <2> QED BY <2>1, <2>2, MarkSteps DEF u
<1> HIDE DEF e
<1> DEFINE a1 == [a EXCEPT !.finish = IF @ = "" THEN fin ELSE @]
           mx == RecordFreshInputTokens(a.maxFresh, e, w)
           m  == IF a.last = None THEN e ELSE MergeUsagePreferNonZero(a.last, e)
           R  == RecomputeMergedInput(m, mx, w)
<1>9. r = IF IsAllZeroUsage(e) THEN a1 ELSE [a1 EXCEPT !.maxFresh = mx, !.last = R]
  BY DEF AggStep, e
<1>10. /\ a1 \in [last : Usages \cup {None}, maxFresh : Nat, finish : {a1.finish}]
       /\ a1.last = a.last /\ a1.maxFresh = a.maxFresh
  BY <1>2
<1>11. CASE IsAllZeroUsage(e)
  <2>1. u.in = 0 /\ u.out = 0 /\ u.read = 0 /\ u.write = 0
    BY <1>1, <1>4, <1>5, <1>11 DEF Usages
  <2>2. Known(a1) = k
    BY <1>10 DEF Known, k
  <2>3. a.maxFresh \in Nat /\ k.in \in Nat
    BY <1>2, <1>3 DEF Usages
  <2>4. \A f \in {"out", "read", "write"} : HighMark(k[f], s, f, n + 1)
    BY <1>6, <2>1
  <2>5. HighMark(IF w THEN a.maxFresh ELSE k.in, s, "in", n + 1)
    BY <1>7, <1>8, <2>1, <2>3
  <2> HIDE DEF a1
  <2>6. Counts(a1, s, w, n + 1)
    BY <1>7, <1>8, <1>10, <2>2, <2>4, <2>5 DEF Counts
  <2> QED BY <1>9, <1>11, <2>6 DEF u
<1>12. CASE ~IsAllZeroUsage(e)
  <2>1. a.maxFresh \in Nat
    BY <1>2
  <2>2. mx \in Nat /\ mx = IF w /\ u.in > a.maxFresh THEN u.in ELSE a.maxFresh
    BY <1>1, <1>4, <2>1 DEF RecordFreshInputTokens, Usages
  <2>3. /\ m \in Usages
        /\ \A f \in Fields : m[f] = IF e[f] > 0 THEN e[f] ELSE k[f]
    <3>1. CASE a.last = None
      BY <1>4, <3>1 DEF k, Known, NoUsage, Usages, Fields
    <3>2. CASE a.last # None
      BY <1>2, <1>4, <3>2 DEF k, Known, MergeUsagePreferNonZero, Usages, Fields
    <3> QED BY <3>1, <3>2
  <2> HIDE DEF mx, m
  <2>4. /\ R \in Usages /\ R.out = m.out /\ R.read = m.read /\ R.write = m.write
        /\ R.in = IF w /\ mx + m.read + m.write > 0 THEN mx + m.read + m.write ELSE m.in
    BY <2>2, <2>3 DEF RecomputeMergedInput, Usages
  <2> HIDE DEF R
  <2>5. \A f \in {"out", "read", "write"} : HighMark(R[f], s, f, n + 1)
    BY <1>4, <1>6, <2>3, <2>4 DEF Fields
  <2>6. w => R.in = mx + R.read + R.write
    <3>1. /\ m.read = (IF u.read > 0 THEN u.read ELSE k.read)
          /\ m.write = (IF u.write > 0 THEN u.write ELSE k.write)
          /\ m.in = (IF e.in > 0 THEN e.in ELSE k.in)
      BY <1>4, <2>3 DEF Fields
    <3> QED BY <1>1, <1>3, <1>4, <1>7, <2>1, <2>2, <2>4, <3>1 DEF Usages
  <2>7. ~w => R.in = (IF u.in > 0 THEN u.in ELSE k.in) /\ mx = 0
    BY <1>4, <1>8, <2>2, <2>3, <2>4 DEF Fields
  <2>8. HighMark(IF w THEN mx ELSE R.in, s, "in", n + 1)
    BY <1>7, <1>8, <2>2, <2>7
  <2>9. /\ r \in [last : Usages \cup {None}, maxFresh : Nat, finish : {r.finish}]
        /\ r.last = R /\ r.maxFresh = mx
    <3> HIDE DEF a1
    <3> QED BY <1>9, <1>10, <1>12, <2>2, <2>4
  <2> HIDE DEF r
  <2>10. Known(r) = R
    BY <2>4, <2>9, NoneIsNoUsage DEF Known
  <2>11. Counts(r, s, w, n + 1)
    BY <2>5, <2>6, <2>7, <2>8, <2>9, <2>10 DEF Counts
  <2> QED BY <2>11 DEF r, u
<1> QED BY <1>11, <1>12

\* [DONE] names no counts and is not metered.
LEMMA SkipCounts ==
    ASSUME NEW s, NEW n \in Nat, Totals(s, n + 1), NEW a, NEW w, Counts(a, s, w, n),
           \A f \in Fields : Use(s, n + 1)[f] = 0
    PROVE  Counts(a, s, w, n + 1)
<1>1. ASSUME NEW f \in Fields, NEW v, HighMark(v, s, f, n) PROVE HighMark(v, s, f, n + 1)
  <2>1. HighMark(IF Use(s, n + 1)[f] > 0 THEN Use(s, n + 1)[f] ELSE v, s, f, n + 1)
    BY <1>1, MarkSteps
  <2> QED BY <2>1
<1>2. \A f \in {"out", "read", "write"} : HighMark(Known(a)[f], s, f, n + 1)
  BY <1>1 DEF Counts, Fields
<1>3. HighMark(IF w THEN a.maxFresh ELSE Known(a).in, s, "in", n + 1)
  BY <1>1 DEF Counts, Fields
<1> QED BY <1>2, <1>3 DEF Counts

LEMMA ScriptTotals ==
    ASSUME x \in Exchanges, NEW n \in 0 .. Len(x.script)
    PROVE  /\ Totals(x.script, n)
           /\ \A i \in 1 .. n : /\ x.script[i] \notin {None, PipeDone}
                                /\ IsDone(x.script[i]) => \A f \in Fields : Use(x.script, i)[f] = 0
<1>1. 1 .. n \subseteq DOMAIN x.script
  BY EventsFacts
<1>2. \A i \in 1 .. n : /\ x.script[i] \notin {None, PipeDone} /\ Use(x.script, i) \in Usages
                        /\ IsDone(x.script[i]) => Use(x.script, i) = NoUsage
  BY <1>1, ScriptsAreEvents DEF Use
<1>3. Fields = DOMAIN NoUsage /\ \A f \in Fields : NoUsage[f] = 0
  BY DEF Fields, NoUsage
<1>4. \A f \in Fields : \A i, j \in 1 .. n :
        i < j /\ Use(x.script, j)[f] > 0 => Use(x.script, i)[f] <= Use(x.script, j)[f]
  BY <1>1, <1>3, CountsAreCumulative DEF Use
<1> QED BY <1>2, <1>3, <1>4 DEF Totals

LEMMA FlushMeters ==
    ASSUME NEW t, IsTap(t), t.events = <<>>, NEW a
    PROVE  LET r == TapFlush(t)
           IN /\ IsTap(r) /\ r.data = <<>>
              /\ t.data = <<>> => MeterClosed(a, r) = a
              /\ \A v : t.data = <<v>> => MeterClosed(a, r) = IF v = None THEN a ELSE MeterEvent(a, v)
<1> DEFINE r == TapFlush(t)
<1>1. IsTap(r) /\ r.data = <<>>
  BY DEF IsTap, TapFlush
<1>2. t.data = <<>> => MeterClosed(a, r) = a
  BY DEF TapFlush, MeterClosed
<1>3. ASSUME NEW v, t.data = <<v>> PROVE MeterClosed(a, r) = IF v = None THEN a ELSE MeterEvent(a, v)
  <2>1. CASE v = None
    BY <1>3, <2>1 DEF TapFlush, MeterClosed
  <2>2. CASE v # None
    <3>1. t.data \notin {<<>>, <<None>>}
      BY <1>3, <2>2
    <3>2. r.events = <<[name |-> t.name, data |-> t.data]>>
      BY <3>1 DEF TapFlush
    <3>3. r.events # <<>> /\ r.events[1].data[1] = v
      BY <1>3, <3>2
    <3> HIDE DEF r
    <3>4. MeterClosed(a, r) = MeterEvent(a, v)
      BY <3>3 DEF MeterClosed
    <3> QED BY <2>2, <3>4
  <2> QED BY <2>1, <2>2
<1> QED BY <1>1, <1>2, <1>3

\* One event through the tap: its counts are merged unless it stays open.
LEMMA TapMeters ==
    ASSUME NEW t, IsTap(t), t.data = <<>>, NEW e, e # None, NEW last, NEW a, Metered
    PROVE  LET r == TapFrame(t, e, last)
           IN /\ IsTap(r)
              /\ last /\ x.unterminated => r.data = <<DataLine(e).v>> /\ MeterClosed(a, r) = a
              /\ ~(last /\ x.unterminated) =>
                   /\ r.data = <<>>
                   /\ MeterClosed(a, r) = IF IsDone(e) THEN a
                                          ELSE AggStep(a, UsageOf(e), FinishOf(e), x.withCache)
<1> DEFINE v == DataLine(e).v
           open == TapLine([t EXCEPT !.events = <<>>], DataLine(e))
<1>1. DataLine(e).l = "data" /\ v = IF IsDone(e) THEN None ELSE e
  BY DEF DataLine
<1>2. IsTap(open) /\ open.data = <<v>> /\ open.events = <<>>
  <2> DEFINE t0 == [t EXCEPT !.events = <<>>]
             d == DataLine(e)
  <2>1. IsTap(t0) /\ t0.data = <<>> /\ t0.events = <<>>
    BY DEF IsTap
  <2>2. d.l = "data" /\ d.v = v
    BY <1>1
  <2> HIDE DEF t0, d, v
  <2>3. TapLine(t0, d) = [t0 EXCEPT !.data = Append(@, v)]
    BY <2>2 DEF TapLine
  <2>4. [t0 EXCEPT !.data = Append(@, v)].data = <<v>>
    BY <2>1 DEF IsTap
  <2>5. IsTap([t0 EXCEPT !.data = Append(@, v)]) /\ [t0 EXCEPT !.data = Append(@, v)].events = <<>>
    BY <2>1 DEF IsTap
  <2> QED BY <2>3, <2>4, <2>5 DEF t0, d
<1> HIDE DEF v
<1>3. TapFrame(t, e, last) = IF last /\ x.unterminated THEN open ELSE TapFlush(open)
  BY DEF TapFrame, TapLine
<1> HIDE DEF open
<1>4. MeterClosed(a, open) = a
  BY <1>2 DEF MeterClosed
<1>5. /\ IsTap(TapFlush(open)) /\ TapFlush(open).data = <<>>
      /\ MeterClosed(a, TapFlush(open)) = IF v = None THEN a ELSE MeterEvent(a, v)
  BY <1>2, FlushMeters
<1>6. MeterEvent(a, e) = AggStep(a, UsageOf(e), FinishOf(e), x.withCache)
  BY DEF MeterEvent, Metered
<1>7. (v = None <=> IsDone(e)) /\ (~IsDone(e) => v = e)
  BY <1>1
<1>8. MeterClosed(a, TapFlush(open)) = IF IsDone(e) THEN a
                                       ELSE AggStep(a, UsageOf(e), FinishOf(e), x.withCache)
  BY <1>5, <1>6, <1>7
<1>9. CASE last /\ x.unterminated
  BY <1>2, <1>3, <1>4, <1>9 DEF v
<1>10. CASE ~(last /\ x.unterminated)
  BY <1>3, <1>5, <1>8, <1>10
<1> QED BY <1>9, <1>10

-----------------------------------------------------------------------------
(* What is billed *)

LEMMA TrueCountIs ==
    ASSUME NEW s, Len(s) \in Nat, Totals(s, Len(s)), NEW f \in Fields, NEW v,
           HighMark(v, s, f, Len(s))
    PROVE  TrueCount(s, f) = v
<1> DEFINE vs == {UsageOf(s[j])[f] : j \in 1 .. Len(s)} \cup {0}
<1>1. \A w \in vs : w \in Nat /\ w <= v
  BY DEF HighMark, Totals, Usages, Fields, Use
<1>2. v \in vs
  BY DEF HighMark, Use
<1> HIDE DEF vs
<1>3. \A m \in vs : (\A w \in vs : w <= m) => m = v
  BY <1>1, <1>2
<1>4. (CHOOSE m \in vs : \A w \in vs : w <= m) = v
  BY <1>1, <1>2, <1>3
<1> QED BY <1>4 DEF TrueCount, vs

\* Each token is paid once, at the rate of its kind.
LEMMA PriceIsCost ==
    ASSUME x \in Exchanges, NEW b \in Usages, NEW spent \in Usages,
           b.out = spent.out, b.read = spent.read, b.write = spent.write,
           b.in = IF x.withCache THEN spent.in + spent.read + spent.write ELSE spent.in
    PROVE  ComputeCost(b) = PriceOf(x.bill, x.withCache, spent)
<1> DEFINE bill == x.bill
           model == CostModel(bill)
           rates == EffectiveRates(bill.prices, bill.provider, bill.key, model)
           fresh == IF x.withCache THEN spent.in ELSE BillableInput(spent)
<1>1. /\ spent.in \in Nat /\ spent.out \in Nat /\ spent.read \in Nat /\ spent.write \in Nat
      /\ b.in \in Nat
  BY DEF Usages
<1>2. b # None
  BY NoneIsNoUsage
<1>3. BillableInput(b) = fresh /\ fresh \in Nat
  BY <1>1 DEF BillableInput
<1>4. CASE ~bill.on \/ bill.prices = NoResolver
  BY <1>2, <1>4 DEF ComputeCost, PriceOf
<1>5. CASE bill.on /\ bill.prices # NoResolver
  <2>1. model \in {bill.model, bill.mapped}
    BY DEF CostModel
  <2>2. \A name \in DOMAIN rates : rates[name] \in Nat
    BY <1>5, <2>1, RatesAreNumbers
  <2> HIDE DEF rates
  <2>3. \A name : RateOf(rates, name) \in Nat /\ CacheRate(rates, name) \in Nat
    BY <2>2 DEF RateOf, CacheRate
  <2>4. \A t, q \in Nat : Cost(t, q) = t * q
    BY DEF Cost
  <2>5. ComputeCost(b) = IF bill.provider = "" \/ model = "" \/ ~Priced(bill.flat, rates) THEN NoCost
                         ELSE WithTotal(Costs(b, bill.flat, rates))
    BY <1>2, <1>5 DEF ComputeCost, Compute, rates
  <2>6. PriceOf(bill, x.withCache, spent) =
          IF bill.provider = "" \/ model = "" \/ ~Priced(bill.flat, rates) THEN NoCost
          ELSE WithTotal([input |-> fresh * RateOf(rates, "input"),
                          output |-> spent.out * RateOf(rates, "output"),
                          read |-> spent.read * CacheRate(rates, "cache_read"),
                          write |-> spent.write * CacheRate(rates, "cache_write"),
                          extra |-> ExtraCost(bill.flat, rates), billable |-> fresh])
    BY <1>5 DEF PriceOf, rates
  <2> HIDE DEF fresh, model, bill
  <2>7. /\ Cost(BillableInput(b), RateOf(rates, "input")) = fresh * RateOf(rates, "input")
        /\ Cost(b.out, RateOf(rates, "output")) = spent.out * RateOf(rates, "output")
        /\ Cost(b.read, CacheRate(rates, "cache_read")) = spent.read * CacheRate(rates, "cache_read")
        /\ Cost(b.write, CacheRate(rates, "cache_write")) = spent.write * CacheRate(rates, "cache_write")
    BY <1>1, <1>3, <2>3, <2>4
  <2>8. Costs(b, bill.flat, rates) =
          [input |-> fresh * RateOf(rates, "input"), output |-> spent.out * RateOf(rates, "output"),
           read |-> spent.read * CacheRate(rates, "cache_read"),
           write |-> spent.write * CacheRate(rates, "cache_write"),
           extra |-> ExtraCost(bill.flat, rates), billable |-> fresh]
    BY <1>3, <2>7, Zenon DEF Costs
  <2>9. ComputeCost(b) = PriceOf(bill, x.withCache, spent)
    BY <2>5, <2>6, <2>8, Zenon
  <2> QED BY <2>9 DEF bill
<1> QED BY <1>4, <1>5

\* The result of a stream that named counts: the aggregator's, which only an
\* estimate of a side that is not known may complete.
LEMMA ResultCounts ==
    ASSUME NEW s, NEW n \in Nat, Counts(agg, s, x.withCache, n), tail # <<>>,
           Known(agg).in > 0 \/ Known(agg).out > 0, ShouldEstimateUsage,
           MakeResult(IF tail = <<>> THEN None ELSE StreamUsage)
    PROVE  /\ Known(agg) \in Usages
           /\ result'.usage # None
           /\ result'.usage.in >= Known(agg).in /\ result'.usage.out >= Known(agg).out
           /\ Known(agg).in > 0 => result'.usage.in = Known(agg).in
           /\ Known(agg).out > 0 => result'.usage.out = Known(agg).out
           /\ Known(agg).in > 0 /\ Known(agg).out > 0 =>
                \E b \in Usages : /\ \A f \in Fields : b[f] = Known(agg)[f]
                                  /\ result'.cost = ComputeCost(b)
<1> DEFINE k == Known(agg)
           w == x.withCache
<1>1. /\ agg.last \in Usages \cup {None} /\ agg.maxFresh \in Nat
      /\ w => k.in = agg.maxFresh + k.read + k.write
  BY DEF Counts
<1>2. agg.last # None /\ k = agg.last /\ k \in Usages
  BY <1>1 DEF Known, NoUsage
<1>3. k.in \in Nat /\ k.out \in Nat /\ k.read \in Nat /\ k.write \in Nat
  BY <1>2 DEF Usages
<1> DEFINE u == RecomputeMergedInput(agg.last, agg.maxFresh, w)
           R == [in |-> u.in, out |-> u.out, read |-> u.read, write |-> u.write, total |-> u.in + u.out]
<1>4. u.in = k.in /\ u.out = k.out /\ u.read = k.read /\ u.write = k.write
  BY <1>1, <1>2, <1>3 DEF RecomputeMergedInput, Usages
<1>5. AggResult(agg, w) = R
  BY <1>2 DEF AggResult
<1> HIDE DEF u
<1>6. /\ R \in [in : Nat, out : Nat, read : Nat, write : Nat, total : Nat]
      /\ \A f \in Fields : R[f] = k[f]
  BY <1>3, <1>4 DEF Fields
<1> HIDE DEF R, k, w
<1>7. R # None
  BY <1>6, NoneIsNoUsage
<1>8. StreamUsage = R
  BY <1>5, <1>7 DEF StreamUsage, w
<1> DEFINE base == [f \in DOMAIN NoUsage |-> R[f]]
           est  == [base EXCEPT !.in = IF @ = 0 THEN 1 ELSE @, !.out = IF @ = 0 THEN 1 ELSE @]
           e    == Estimate(R)
<1>9. base \in Usages /\ \A f \in Fields : base[f] = k[f]
  <2>1. DOMAIN NoUsage = Fields
    BY DEF NoUsage, Fields
  <2> QED BY <1>3, <1>6, <2>1 DEF Fields, Usages
<1>10. base.in = k.in /\ base.out = k.out
  BY <1>9 DEF Fields
<1>11. e.usage = IF x.estimate THEN est ELSE base
  BY <1>7 DEF Estimate
<1> HIDE DEF base
<1>12. /\ est \in Usages
       /\ est.in = (IF k.in = 0 THEN 1 ELSE k.in) /\ est.out = (IF k.out = 0 THEN 1 ELSE k.out)
       /\ est.read = base.read /\ est.write = base.write
  BY <1>3, <1>9, <1>10 DEF Usages
<1> HIDE DEF est, e
<1>13. e.usage \in {base, est} /\ (k.in > 0 /\ k.out > 0 => \A f \in Fields : e.usage[f] = k[f])
  <2>1. k.in > 0 /\ k.out > 0 => \A f \in Fields : est[f] = k[f]
    BY <1>3, <1>9, <1>12 DEF Fields
  <2> QED BY <1>9, <1>11, <2>1
<1>14. e.usage \in Usages /\ e.usage # None
  BY <1>9, <1>12, <1>13, NoneIsNoUsage
<1>15. /\ e.usage.in >= k.in /\ e.usage.out >= k.out
       /\ k.in > 0 => e.usage.in = k.in
       /\ k.out > 0 => e.usage.out = k.out
  BY <1>3, <1>10, <1>12, <1>13
<1>16. result'.usage = e.usage /\ result'.cost = ComputeCost(e.usage)
  BY <1>8 DEF MakeResult, e
<1>17. k.in > 0 /\ k.out > 0 => \E b \in Usages : /\ \A f \in Fields : b[f] = k[f]
                                                  /\ result'.cost = ComputeCost(b)
  BY <1>13, <1>14, <1>16
<1> QED BY <1>2, <1>14, <1>15, <1>16, <1>17 DEF k

\* A count the first n events name is known to the aggregator.
LEMMA KnownCovers ==
    ASSUME NEW s, NEW n \in Nat, NEW a, NEW w, Counts(a, s, w, n), Totals(s, n), NEW i \in 1 .. n
    PROVE  Use(s, i).in <= Known(a).in /\ Use(s, i).out <= Known(a).out
<1>1. Use(s, i) \in Usages
  BY DEF Totals
<1>2. Known(a) \in Usages /\ a.maxFresh \in Nat
  BY DEF Counts, Known, Usages, NoUsage
<1>3. Use(s, i).out <= Known(a).out
  BY DEF Counts, HighMark
<1>4. Use(s, i).in <= (IF w THEN a.maxFresh ELSE Known(a).in)
  BY DEF Counts, HighMark
<1>5. w => Known(a).in = a.maxFresh + Known(a).read + Known(a).write
  BY DEF Counts
<1> QED BY <1>1, <1>2, <1>3, <1>4, <1>5 DEF Usages

LEMMA SettleCovers ==
    ASSUME x \in Exchanges, NEW n \in 0 .. Len(x.script), Counts(agg, x.script, x.withCache, n),
           tail = <<>> => n = 0, ShouldEstimateUsage,
           MakeResult(IF tail = <<>> THEN None ELSE StreamUsage), NEW c \in Covered(x.script, n)
    PROVE  BilledCovers(result', c)
<1>1. n \in Nat /\ Totals(x.script, n)
  BY ScriptTotals, EventsFacts
<1>2. ASSUME NEW f \in {"in", "out"}, UsageOf(c)[f] > 0
      PROVE  result'.usage # None /\ result'.usage[f] >= UsageOf(c)[f]
  <2>1. PICK i \in 1 .. n : UsageOf(c)[f] <= Use(x.script, i)[f]
    BY <1>2 DEF Covered
  <2>2. tail # <<>>
    BY <1>1, <2>1
  <2>3. Use(x.script, i)[f] <= Known(agg)[f]
    BY <1>1, <2>1, KnownCovers
  <2>4. Known(agg) \in Usages
    BY DEF Counts, Known, Usages, NoUsage
  <2>5. Known(agg).in \in Nat /\ Known(agg).out \in Nat /\ Use(x.script, i)[f] \in Nat
    BY <1>1, <2>1, <2>4 DEF Totals, Usages
  <2>6. UsageOf(c)[f] \in Nat
    BY DEF Covered, Usages
  <2>7. Known(agg).in > 0 \/ Known(agg).out > 0
    BY <1>2, <2>1, <2>3, <2>5, <2>6
  <2>8. /\ result'.usage # None
        /\ result'.usage.in >= Known(agg).in /\ result'.usage.out >= Known(agg).out
        /\ Known(agg).in > 0 => result'.usage.in = Known(agg).in
        /\ Known(agg).out > 0 => result'.usage.out = Known(agg).out
    BY <1>1, <2>2, <2>7, ResultCounts
  <2>9. Known(agg)[f] > 0 /\ Known(agg)[f] >= UsageOf(c)[f]
    BY <1>2, <2>1, <2>3, <2>5, <2>6
  <2> QED BY <2>8, <2>9
<1> QED BY <1>2 DEF BilledCovers

LEMMA SettleIsExact ==
    ASSUME x \in Exchanges, Counts(agg, x.script, x.withCache, Len(x.script)),
           tail = <<>> => Len(x.script) = 0, ShouldEstimateUsage,
           MakeResult(IF tail = <<>> THEN None ELSE StreamUsage)
    PROVE  BilledIsSpent(x, result')
<1> DEFINE s == x.script
           k == Known(agg)
           spent == Spent(s)
<1>1. Len(s) \in Nat /\ Totals(s, Len(s))
  BY ScriptTotals, EventsFacts
<1>2. /\ k \in Usages /\ agg.maxFresh \in Nat
      /\ x.withCache => k.in = agg.maxFresh + k.read + k.write
  BY DEF Counts, Known, Usages, NoUsage
<1>3. /\ HighMark(k.out, s, "out", Len(s)) /\ HighMark(k.read, s, "read", Len(s))
      /\ HighMark(k.write, s, "write", Len(s))
      /\ HighMark(IF x.withCache THEN agg.maxFresh ELSE k.in, s, "in", Len(s))
  BY DEF Counts
<1>4. Fields = DOMAIN NoUsage
  BY DEF Fields, NoUsage
<1> HIDE DEF s, k
<1>5. /\ spent \in Usages /\ spent.out = k.out /\ spent.read = k.read /\ spent.write = k.write
      /\ spent.in = IF x.withCache THEN agg.maxFresh ELSE k.in
  <2>1. /\ TrueCount(s, "out") = k.out /\ TrueCount(s, "read") = k.read /\ TrueCount(s, "write") = k.write
        /\ TrueCount(s, "in") = IF x.withCache THEN agg.maxFresh ELSE k.in
    BY <1>1, <1>3, TrueCountIs DEF Fields
  <2>2. \A f \in Fields : TrueCount(s, f) \in Nat
    BY <1>2, <2>1 DEF Fields, Usages
  <2> QED BY <1>4, <2>1, <2>2 DEF Spent, Usages, Fields
<1> HIDE DEF spent
<1> DEFINE input == IF x.withCache THEN spent.in + spent.read + spent.write ELSE spent.in
<1>6. k.in = input
  BY <1>2, <1>5
<1>7. SUFFICES ASSUME Total(spent) > 0
      PROVE  /\ result'.usage # None
             /\ input > 0 => result'.usage.in = input
             /\ spent.out > 0 => result'.usage.out = spent.out
             /\ spent.in > 0 /\ spent.out > 0 => result'.cost = PriceOf(x.bill, x.withCache, spent)
  BY DEF BilledIsSpent, spent, s
<1> HIDE DEF input
<1>8. k.in \in Nat /\ k.out \in Nat /\ spent.in \in Nat /\ spent.read \in Nat /\ spent.write \in Nat
  BY <1>2, <1>5 DEF Usages
<1>9. k.in >= spent.in
  BY <1>6, <1>8 DEF input
<1>10. k.in > 0 \/ k.out > 0
  BY <1>5, <1>7, <1>8, <1>9 DEF Total
<1>11. tail # <<>>
  <2>1. \A f, v : HighMark(v, s, f, 0) => v = 0
    BY DEF HighMark
  <2>2. Len(s) = 0 => k.out = 0 /\ k.read = 0 /\ k.write = 0 /\ spent.in = 0
    BY <1>3, <1>5, <2>1
  <2>3. Len(s) = 0 => k.in = 0
    BY <1>5, <1>6, <2>2 DEF input
  <2> QED BY <1>10, <2>2, <2>3 DEF s
<1>12. Counts(agg, s, x.withCache, Len(s))
  BY DEF s
<1>13. /\ result'.usage # None
       /\ k.in > 0 => result'.usage.in = k.in
       /\ k.out > 0 => result'.usage.out = k.out
       /\ k.in > 0 /\ k.out > 0 => \E b \in Usages : /\ \A f \in Fields : b[f] = k[f]
                                                     /\ result'.cost = ComputeCost(b)
  BY <1>1, <1>10, <1>11, <1>12, ResultCounts DEF k
<1>14. ASSUME spent.in > 0 /\ spent.out > 0
       PROVE  result'.cost = PriceOf(x.bill, x.withCache, spent)
  <2>1. k.in > 0 /\ k.out > 0
    BY <1>5, <1>8, <1>9, <1>14
  <2>2. PICK b \in Usages : (\A f \in Fields : b[f] = k[f]) /\ result'.cost = ComputeCost(b)
    BY <1>13, <2>1
  <2>3. /\ b.out = spent.out /\ b.read = spent.read /\ b.write = spent.write
        /\ b.in = IF x.withCache THEN spent.in + spent.read + spent.write ELSE spent.in
    BY <1>5, <1>6, <2>2 DEF Fields, input
  <2>4. ComputeCost(b) = PriceOf(x.bill, x.withCache, spent)
    BY <1>5, <2>3, PriceIsCost
  <2> QED BY <2>2, <2>4
<1> QED BY <1>5, <1>6, <1>13, <1>14

-----------------------------------------------------------------------------
(* The chunks on their way *)

LEMMA CoveredGrows ==
    ASSUME NEW s, NEW n \in Nat
    PROVE  /\ Covered(s, n) \subseteq Covered(s, n + 1)
           /\ Seq(Covered(s, n)) \subseteq Seq(Covered(s, n + 1))
           /\ Seq(Fed(s) \cap Covered(s, n)) \subseteq Seq(Fed(s) \cap Covered(s, n + 1))
<1>1. 1 .. n \subseteq 1 .. n + 1
  OBVIOUS
<1>2. Covered(s, n) \subseteq Covered(s, n + 1)
  BY <1>1 DEF Covered
<1>3. Fed(s) \cap Covered(s, n) \subseteq Fed(s) \cap Covered(s, n + 1)
  BY <1>2
<1> QED BY <1>2, <1>3, SeqMonotonic

LEMMA NoUsageTyped == NoUsage \in Usages /\ \A f \in Fields : ~(NoUsage[f] > 0)
BY DEF NoUsage, Usages, Fields

\* What names no counts is covered from the start.
LEMMA QuietCovered ==
    ASSUME NEW s, NEW n \in Nat
    PROVE  /\ PipeDone \in Fed(s) \cap Covered(s, n)
           /\ \A e \in Fed(s) : StripUsage(e) \in Covered(s, n)
<1>1. ASSUME NEW c, UsageOf(c) = NoUsage, c \in Fed(s) \cup {StripUsage(e) : e \in Fed(s)}
      PROVE  c \in Covered(s, n)
  BY <1>1, NoUsageTyped DEF Covered, Fields
<1>2. UsageOf(PipeDone) = NoUsage /\ PipeDone \in Fed(s)
  BY DEF UsageOf, PipeDone, Fed
<1>3. ASSUME NEW e PROVE UsageOf(StripUsage(e)) = NoUsage
  <2>1. CASE "usage" \in DOMAIN e
    <3>1. StripUsage(e) = [e EXCEPT !.usage = NoUsage]
      BY <2>1 DEF StripUsage
    <3>2. "usage" \in DOMAIN [e EXCEPT !.usage = NoUsage] /\ [e EXCEPT !.usage = NoUsage].usage = NoUsage
      BY <2>1
    <3> QED BY <3>1, <3>2 DEF UsageOf
  <2>2. CASE "usage" \notin DOMAIN e /\ "k" \in DOMAIN e /\ e.k = "usage"
    <3>1. StripUsage(e) = [k |-> "empty"]
      BY <2>2 DEF StripUsage
    <3> QED BY <3>1 DEF UsageOf
  <2>3. CASE "usage" \notin DOMAIN e /\ ~("k" \in DOMAIN e /\ e.k = "usage")
    <3>1. StripUsage(e) = e
      BY <2>3 DEF StripUsage
    <3> QED BY <2>3, <3>1 DEF UsageOf
  <2> QED BY <2>1, <2>2, <2>3
<1> QED BY <1>1, <1>2, <1>3

LEMMA EventCovered ==
    ASSUME x \in Exchanges, NEW n \in 1 .. Len(x.script)
    PROVE  x.script[n] \in Fed(x.script) \cap Covered(x.script, n)
<1>1. n \in 0 .. Len(x.script) /\ n \in 1 .. n
  BY EventsFacts
<1>2. Use(x.script, n) \in Usages
  BY <1>1, ScriptTotals DEF Totals
<1>3. \A f \in {"in", "out"} : Use(x.script, n)[f] <= Use(x.script, n)[f]
  BY <1>2 DEF Usages
<1> QED BY <1>1, <1>2, <1>3 DEF Fed, Covered, Use

\* The tail keeps something of what it was given.
LEMMA TailKeeps ==
    ASSUME NEW S, NEW s \in Seq(S), NEW e \in S
    PROVE  TailBuffer(Append(s, e), TailLimit) \in Seq(S) /\ TailBuffer(Append(s, e), TailLimit) # <<>>
<1> DEFINE q == Append(s, e)
           m == Len(q) - TailLimit + 1
<1>1. q \in Seq(S) /\ Len(q) = Len(s) + 1 /\ Len(s) \in Nat /\ TailLimit \in Nat /\ TailLimit > 0
  BY BoundsAreNatural
<1> HIDE DEF q
<1>2. CASE Len(q) <= TailLimit
  <2>1. q # <<>>
    BY <1>1
  <2> QED BY <1>1, <1>2, <2>1 DEF TailBuffer, q
<1>3. CASE ~(Len(q) <= TailLimit)
  <2>1. m \in 1 .. Len(q)
    BY <1>1, <1>3
  <2>2. SubSeq(q, m, Len(q)) \in Seq(S) /\ Len(SubSeq(q, m, Len(q))) = Len(q) - m + 1
    BY <1>1, <2>1
  <2>3. SubSeq(q, m, Len(q)) # <<>>
    BY <1>1, <2>1, <2>2
  <2> QED BY <1>3, <2>2, <2>3 DEF TailBuffer, q
<1> QED BY <1>2, <1>3

-----------------------------------------------------------------------------
(* The steps *)

LEMMA ExchangeKept == [Next]_vars => x' = x
BY DEF Next, ProxyStep, PumpStep, vars, BuildCtxFails, BuildCtx, UpstreamFails, RetryUnauthorized, Respond,
       StartStream, ReadEvent, ReadPipe, ReadEOF, ReadFails, TransformEvent, WriteChunk, WriteFails,
       FinishTransform, FlushChunk, FinishTap, SettleStream, ReadAllFails, NonStreamFails, PrepareAnswer,
       WriteAnswerFails, ServeNonStream,
       CloseBody, CancelUpstream, PumpRead, PumpWriteFails, PumpFails, ClientLeaves

LEMMA MeterDecisions ==
    ASSUME x' = x
    PROVE  /\ Metered' <=> Metered
           /\ UseStrategyTransform' <=> UseStrategyTransform
BY DEF Metered, IsSSE, Readable, NeedsDecoding, UseStrategyTransform

LEMMA PumpInOrderNext ==
    ASSUME Frame, Metered, PumpInOrder, [Next]_vars
    PROVE  PumpInOrder'
<1>1. x' = x /\ Len(x.script) \in Nat /\ Events = x.script /\ pos \in 0 .. Len(x.script)
  BY ExchangeKept, EventsFacts DEF Frame, Shapes, Metered, Events
<1>2. pump \in Pumps
  BY DEF Frame, Shapes
<1>3. CASE UNCHANGED <<pump, pos>>
  BY <1>1, <1>3 DEF PumpInOrder
<1>4. CASE Respond
  <2>1. pump'.at # "writing" /\ pump'.at # "closed"
    BY <1>2, <1>4 DEF Respond, Pumps, Frame, Control
  <2> QED BY <2>1 DEF PumpInOrder
<1>5. CASE ReadEvent
  <2>1. pump'.at = "none"
    BY <1>2, <1>5 DEF ReadEvent, Pumps, Frame, Control
  <2> QED BY <2>1 DEF PumpInOrder
<1>6. CASE ReadPipe
  <2>1. /\ pump.at = "writing" /\ pos' = pos
        /\ pump'.at = IF pump.ev = PipeDone THEN "closed" ELSE "reading"
    BY <1>2, <1>6 DEF ReadPipe, Pumps
  <2>2. pump.ev = PipeDone => pos = Len(x.script)
    <3>1. pos >= 1 => x.script[pos] # PipeDone
      <4>1. Len(x.script) \in 0 .. Len(x.script)
        BY <1>1
      <4>2. pos >= 1 => pos \in 1 .. Len(x.script)
        BY <1>1
      <4> QED BY <4>1, <4>2, ScriptTotals DEF Frame, Shapes
    <3> QED BY <2>1, <3>1 DEF PumpInOrder
  <2> QED BY <1>1, <2>1, <2>2 DEF PumpInOrder
<1>7. CASE PumpRead
  <2>1. CASE pos < Len(x.script)
    <3>1. pump' = [pump EXCEPT !.at = "writing", !.ev = x.script[pos + 1]] /\ pos' = pos + 1
      BY <1>1, <1>7, <2>1 DEF PumpRead
    <3>2. pump'.at = "writing" /\ pump'.ev = x.script[pos']
      BY <1>2, <3>1 DEF Pumps
    <3> QED BY <1>1, <3>1, <3>2 DEF PumpInOrder
  <2>2. CASE ~(pos < Len(x.script))
    <3>1. pump' = [pump EXCEPT !.at = "writing", !.ev = PipeDone] /\ pos' = pos
      BY <1>1, <1>7, <2>2 DEF PumpRead
    <3>2. pump'.at = "writing" /\ pump'.ev = PipeDone
      BY <1>2, <3>1 DEF Pumps
    <3> QED BY <1>1, <2>2, <3>1, <3>2 DEF PumpInOrder
  <2> QED BY <2>1, <2>2
<1>8. CASE PumpWriteFails \/ \E f \in Faults : PumpFails(f)
  <2>1. pump'.at = "failed"
    BY <1>2, <1>8 DEF PumpWriteFails, PumpFails, Pumps
  <2> QED BY <2>1 DEF PumpInOrder
<1> QED BY <1>3, <1>4, <1>5, <1>6, <1>7, <1>8
        DEF Next, ProxyStep, PumpStep, Faults, vars, BuildCtxFails, BuildCtx, UpstreamFails,
            RetryUnauthorized, StartStream, ReadEOF, ReadFails, TransformEvent, WriteChunk, WriteFails,
            FinishTransform, FlushChunk, FinishTap, SettleStream, ReadAllFails, NonStreamFails,
            PrepareAnswer, WriteAnswerFails, ServeNonStream, CloseBody, CancelUpstream, ClientLeaves

\* A step that meters nothing and hands on only what was metered.
LEMMA FeedKept ==
    ASSUME Feeding, x' = x, UNCHANGED <<tap, agg, tail>>, Tapped' = Tapped, pos' = pos \/ Piped,
           pc' = "account" => pc = "account",
           buf' \in Seq(Fed(x.script) \cap Covered(x.script, Tapped)),
           ~UseStrategyTransform => /\ pend' \in Seq(Covered(x.script, Tapped))
                                    /\ out'.body \in Seq(Covered(x.script, Tapped)),
           fault' = "eof" => Tapped = Len(x.script)
    PROVE  Feeding'
<1>1. TapCounts'
  BY Decisions DEF Feeding, TapCounts
<1>2. (tail \in Seq(Fed(x.script)) /\ (tail = <<>> => Tapped = 0))'
  BY DEF Feeding
<1> QED BY <1>1, <1>2, MeterDecisions DEF Feeding

LEMMA TransformEventFeeds ==
    ASSUME Feeding, TransformEvent, Tapped \in Nat
    PROVE  Feeding'
<1> DEFINE C == Covered(x.script, Tapped)
           F == Fed(x.script) \cap C
<1>1. buf \in Seq(F) /\ buf # <<>> /\ buf' = Tail(buf)
  BY DEF TransformEvent, Feeding
<1>2. Tail(buf) \in Seq(F) /\ Head(buf) \in F
  <2> HIDE DEF F
  <2> QED BY <1>1
<1>3. ~UseStrategyTransform => pend' \in Seq(C)
  <2> SUFFICES ASSUME ~UseStrategyTransform PROVE pend' \in Seq(C)
    OBVIOUS
  <2>1. Transform(st, Head(buf)).out = <<Head(buf)>>
    BY DEF Transform, Emit
  <2>2. pend' = ApplySSEOps(<<Head(buf)>>)
    BY <2>1 DEF TransformEvent
  <2> DEFINE e == Head(buf)
  <2>3. e \in C /\ StripUsage(e) \in C
    BY <1>2, QuietCovered
  <2>4. CASE x.ops
    <3>1. pend' = [j \in DOMAIN <<e>> |-> StripUsage(<<e>>[j])]
      BY <2>2, <2>4 DEF ApplySSEOps
    <3>2. DOMAIN <<e>> = 1 .. 1 /\ <<e>>[1] = e
      OBVIOUS
    <3> HIDE DEF C, e
    <3>3. pend' \in [1 .. 1 -> C]
      BY <2>3, <3>1, <3>2
    <3> QED BY <3>3, SeqDef
  <2>5. CASE ~x.ops
    <3>1. pend' = <<e>>
      BY <2>2, <2>5 DEF ApplySSEOps
    <3> HIDE DEF C, e
    <3> QED BY <2>3, <3>1
  <2> QED BY <2>4, <2>5
<1>4. x' = x /\ UNCHANGED <<tap, agg, tail>> /\ pos' = pos /\ pc' # "account" /\ fault' = fault /\ out' = out
  BY DEF TransformEvent
<1>5. Tapped' = Tapped
  BY DEF TransformEvent, Tapped, Holding, Piped
<1>6. ~UseStrategyTransform => out'.body \in Seq(C)
  BY <1>4 DEF Feeding
<1>7. fault' = "eof" => Tapped = Len(x.script)
  BY <1>4 DEF Feeding
<1> QED BY <1>1, <1>2, <1>3, <1>4, <1>5, <1>6, <1>7, FeedKept

\* A chunk is written: what goes to the client comes from the pending ones.
LEMMA WriteFeeds ==
    ASSUME Feeding, Frame, WriteChunk \/ FlushChunk, Metered
    PROVE  Feeding'
<1> DEFINE C == Covered(x.script, Tapped)
<1>1. /\ x' = x /\ UNCHANGED <<tap, agg, buf>> /\ pos' = pos /\ pc' # "account"
      /\ fault' = "eof" => fault = "eof"
  BY DEF WriteChunk, FlushChunk
<1>2. Tapped' = Tapped
  BY DEF WriteChunk, FlushChunk, Tapped, Holding, Piped
<1>3. tail' = tail
  BY DEF WriteChunk, FlushChunk, TapRaw, Metered
<1>4. ~UseStrategyTransform => pend \in Seq(C) /\ out.body \in Seq(C)
  BY DEF Feeding
<1>5. pend # <<>>
  BY DEF WriteChunk, FlushChunk, Frame, Control
<1>6. ~UseStrategyTransform => pend' \in Seq(C) /\ out'.body \in Seq(C)
  <2> SUFFICES ASSUME ~UseStrategyTransform PROVE pend' \in Seq(C) /\ out'.body \in Seq(C)
    OBVIOUS
  <2>1. IsOut(out)
    BY DEF Frame, Shapes
  <2> HIDE DEF C
  <2>2. Head(pend) \in C /\ Tail(pend) \in Seq(C) /\ <<>> \in Seq(C)
    BY <1>4, <1>5
  <2>3. pend' = Tail(pend) \/ pend' = <<>>
    BY DEF WriteChunk, FlushChunk
  <2>4. out' = out \/ out' = [out EXCEPT !.body = Append(@, Head(pend))]
    BY DEF WriteChunk, FlushChunk
  <2>5. Append(out.body, Head(pend)) \in Seq(C)
    BY <1>4, <2>2
  <2>6. CASE out' = out
    BY <1>4, <2>2, <2>3, <2>6
  <2>7. CASE out' = [out EXCEPT !.body = Append(out.body, Head(pend))]
    <3>1. out'.body = Append(out.body, Head(pend))
      BY <2>1, <2>7, OutFields
    <3> QED BY <2>2, <2>3, <2>5, <3>1
  <2> QED BY <2>4, <2>6, <2>7
<1>7. fault' = "eof" => Tapped = Len(x.script)
  BY <1>1 DEF Feeding
<1>8. buf' \in Seq(Fed(x.script) \cap C)
  BY <1>1 DEF Feeding
<1> QED BY <1>1, <1>2, <1>3, <1>6, <1>7, <1>8, FeedKept

LEMMA StartStreamFeeds ==
    ASSUME Feeding, Frame, StartStream
    PROVE  Feeding'
<1>1. /\ x' = x /\ UNCHANGED <<tap, agg, tail, buf, pend>> /\ pos' = pos /\ pc' # "account"
      /\ fault' # "eof"
  BY DEF StartStream
<1>2. Tapped' = Tapped
  BY DEF StartStream, Tapped, Holding, Piped
<1>3. out'.body = out.body
  <2>1. PICK T, E, B : out \in [told : T, enc : E, body : B]
    BY DEF Frame, Shapes, IsOut
  <2> QED BY <2>1 DEF StartStream
<1> QED BY <1>1, <1>2, <1>3, FeedKept DEF Feeding

\* The end of the stream is read when every event was.
LEMMA ReadEOFFeeds ==
    ASSUME Feeding, Frame, ReadEOF, PumpInOrder, Metered
    PROVE  Feeding'
<1>1. /\ x' = x /\ UNCHANGED <<tap, agg, tail, buf, pend, out>> /\ pos' = pos /\ pc' # "account"
  BY DEF ReadEOF
<1>2. Tapped' = Tapped
  BY DEF ReadEOF, Tapped, Holding, Piped
<1>3. Events = x.script
  BY DEF Metered, Events
<1>4. Tapped = Len(x.script)
  <2>1. CASE Piped
    BY <2>1 DEF ReadEOF, Tapped, Holding, PumpInOrder
  <2>2. CASE ~Piped
    BY <1>3, <2>2 DEF ReadEOF, Tapped, Holding
  <2> QED BY <2>1, <2>2
<1> QED BY <1>1, <1>2, <1>4, FeedKept DEF Feeding

LEMMA FinishTransformFeeds ==
    ASSUME Feeding, FinishTransform
    PROVE  Feeding'
<1>1. /\ x' = x /\ UNCHANGED <<tap, agg, tail, buf, out>> /\ pos' = pos /\ pc' # "account" /\ fault' = fault
  BY DEF FinishTransform
<1>2. Tapped' = Tapped
  BY DEF FinishTransform, Tapped, Holding, Piped
<1>3. ~UseStrategyTransform => pend' = <<>>
  <2> SUFFICES ASSUME ~UseStrategyTransform PROVE pend' = <<>>
    OBVIOUS
  <2>1. TransformEnd(st) = <<>>
    BY DEF TransformEnd
  <2>2. ApplySSEOps(<<>>) = <<>>
    BY DEF ApplySSEOps
  <2> QED BY <2>1, <2>2 DEF FinishTransform
<1>4. ~UseStrategyTransform => pend' \in Seq(Covered(x.script, Tapped))
  BY <1>3
<1> QED BY <1>1, <1>2, <1>4, FeedKept DEF Feeding

\* Steps that touch neither the meter nor the chunks, beside dropping them.
LEMMA OtherFeeds ==
    ASSUME Feeding, Frame, Metered,
           \/ BuildCtx \/ RetryUnauthorized \/ Respond \/ WriteFails \/ ClientLeaves \/ PumpRead
           \/ \E f \in Faults : ReadFails(f) \/ PumpFails(f)
    PROVE  Feeding'
<1>1. /\ x' = x /\ UNCHANGED <<tap, agg, tail, out>>
      /\ fault' = fault \/ fault' # "eof"
      /\ UNCHANGED <<buf, pend>> \/ (buf' = <<>> /\ pend' = <<>>)
  BY DEF BuildCtx, RetryUnauthorized, Respond, WriteFails, ClientLeaves, PumpRead, ReadFails, PumpFails, Faults
<1>2. pump \in Pumps /\ pos \in 0 .. Len(Events) /\ (pump.at # "none" => Piped)
      /\ Len(Events) \in Nat
  BY EventsFacts DEF Frame, Shapes, Control
<1>3. Tapped' = Tapped /\ (pos' = pos \/ Piped)
  <2>1. CASE UNCHANGED <<pump, pos>>
    BY <1>1, <2>1, Decisions DEF Tapped, Holding
  <2>2. CASE Respond
    <3>1. pump'.at # "writing" /\ pump.at # "writing" /\ pos' = pos
      BY <1>2, <2>2 DEF Respond, Pumps, Frame, Control
    <3> QED BY <3>1 DEF Tapped, Holding
  <2>3. CASE \E f \in Faults : PumpFails(f)
    <3>1. pump'.at # "writing" /\ pump.at # "writing" /\ pos' = pos
      BY <1>2, <2>3 DEF PumpFails, Pumps
    <3> QED BY <3>1 DEF Tapped, Holding
  <2>4. CASE PumpRead
    <3>1. pump.at = "reading" /\ Piped /\ Piped'
      BY <1>1, <1>2, <2>4, Decisions DEF PumpRead
    <3>2. Tapped = pos
      BY <3>1 DEF Tapped, Holding
    <3>3. CASE pos < Len(Events)
      <4>1. pump' = [pump EXCEPT !.at = "writing", !.ev = Events[pos + 1]] /\ pos' = pos + 1
        BY <2>4, <3>3 DEF PumpRead
      <4>2. pump'.at = "writing" /\ pump'.ev = Events[pos + 1]
        BY <1>2, <4>1 DEF Pumps
      <4>3. Events[pos + 1] # PipeDone
        <5>1. Events = x.script /\ pos + 1 \in 1 .. Len(x.script) /\ Len(x.script) \in 0 .. Len(x.script)
          BY <1>2, <3>3 DEF Metered, Events
        <5> QED BY <5>1, ScriptTotals DEF Frame, Shapes
      <4> QED BY <1>2, <3>1, <3>2, <4>1, <4>2, <4>3 DEF Tapped, Holding
    <3>4. CASE ~(pos < Len(Events))
      <4>1. pump' = [pump EXCEPT !.at = "writing", !.ev = PipeDone] /\ pos' = pos
        BY <2>4, <3>4 DEF PumpRead
      <4>2. pump'.ev = PipeDone
        BY <1>2, <4>1 DEF Pumps
      <4> QED BY <3>1, <3>2, <4>1, <4>2 DEF Tapped, Holding
    <3> QED BY <3>3, <3>4
  <2> QED BY <2>1, <2>2, <2>3, <2>4 DEF BuildCtx, RetryUnauthorized, WriteFails, ClientLeaves, ReadFails
<1>4. pc' = "account" => pc = "account"
  BY DEF BuildCtx, RetryUnauthorized, Respond, WriteFails, ClientLeaves, PumpRead, ReadFails, PumpFails
<1> DEFINE C == Covered(x.script, Tapped)
           F == Fed(x.script) \cap C
<1>5. buf' \in Seq(F) /\ (~UseStrategyTransform => pend' \in Seq(C) /\ out'.body \in Seq(C))
  <2>1. buf \in Seq(F) /\ (~UseStrategyTransform => pend \in Seq(C) /\ out.body \in Seq(C))
    BY DEF Feeding
  <2> HIDE DEF C, F
  <2>2. <<>> \in Seq(F) /\ <<>> \in Seq(C)
    OBVIOUS
  <2> QED BY <1>1, <2>1, <2>2
<1>6. fault' = "eof" => Tapped = Len(x.script)
  BY <1>1 DEF Feeding
<1> QED BY <1>1, <1>3, <1>4, <1>5, <1>6, FeedKept

\* What is on its way stays covered when event e is metered and joins it.
LEMMA CarriesMore ==
    ASSUME Feeding, x' = x, NEW n \in Nat, Tapped = n, NEW m \in {n, n + 1}, Tapped' = m, NEW e,
           e \in Fed(x.script) \cap Covered(x.script, m), TapCounts',
           tail' = TailBuffer(Append(tail, e), TailLimit), buf' = Append(buf, e),
           UNCHANGED <<pend, out>>, fault' # "eof"
    PROVE  Feeding'
<1> DEFINE F == Fed(x.script)
           C == Covered(x.script, m)
<1>1. buf \in Seq(F \cap C) /\ (~UseStrategyTransform => pend \in Seq(C) /\ out.body \in Seq(C))
  <2>1. CASE m = n
    BY <2>1 DEF Feeding
  <2>2. CASE m = n + 1
    BY <2>2, CoveredGrows DEF Feeding
  <2> QED BY <2>1, <2>2
<1>2. tail \in Seq(F)
  BY DEF Feeding
<1>3. tail' \in Seq(F) /\ tail' # <<>>
  <2> HIDE DEF F
  <2> QED BY <1>2, TailKeeps DEF F
<1>4. buf' \in Seq(F \cap C)
  <2> DEFINE FC == F \cap C
  <2>1. buf \in Seq(FC) /\ e \in FC
    BY <1>1
  <2> HIDE DEF FC
  <2>2. Append(buf, e) \in Seq(FC)
    BY <2>1
  <2> QED BY <2>2 DEF FC
<1> QED BY <1>1, <1>3, <1>4, MeterDecisions DEF Feeding

\* One event more is read and metered.
LEMMA ReadEventFeeds ==
    ASSUME Feeding, Frame, Metered, ReadEvent
    PROVE  Feeding'
<1> DEFINE s == x.script
           e == s[pos + 1]
           w == x.withCache
           last == ~Piped /\ pos' = Len(Events)
<1>1. /\ x \in Exchanges /\ Events = s /\ Len(s) \in Nat /\ pos \in Nat /\ pos < Len(s)
      /\ Tapped = pos /\ ~Piped /\ TapRaw
  <2>1. x \in Exchanges /\ pos \in 0 .. Len(Events)
    BY DEF Frame, Shapes
  <2>2. Events = s /\ Len(s) \in Nat
    BY <2>1, EventsFacts DEF Metered, Events
  <2>3. pos < Len(Events) /\ ~Piped
    BY DEF ReadEvent
  <2>4. Tapped = pos /\ TapRaw
    BY <2>3 DEF Tapped, Holding, TapRaw, Metered
  <2> HIDE DEF s
  <2> QED BY <2>1, <2>2, <2>3, <2>4
<1>2. /\ x' = x /\ pos' = pos + 1 /\ buf' = Append(buf, e) /\ UNCHANGED <<pend, out, fault, pc>>
      /\ pc = "stream" /\ fault = ""
  BY <1>1 DEF ReadEvent
<1>3. tap' = TapFrame(tap, e, last) /\ agg' = MeterClosed(agg, tap')
      /\ tail' = TailBuffer(Append(tail, e), TailLimit)
  BY <1>1 DEF ReadEvent, Tap, Seen, Metered
<1>4. Tapped' = pos + 1
  BY <1>1, <1>2, Decisions DEF Tapped, Holding
<1>5. /\ e # None /\ e # PipeDone /\ Totals(s, pos + 1)
      /\ IsDone(e) => \A f \in Fields : Use(s, pos + 1)[f] = 0
  <2>1. pos + 1 \in 0 .. Len(s) /\ pos + 1 \in 1 .. pos + 1
    BY <1>1
  <2> QED BY <1>1, <2>1, ScriptTotals
<1>6. IsTap(tap) /\ tap.data = <<>> /\ Counts(agg, s, w, pos)
  BY <1>1 DEF Feeding, TapCounts
<1>7. /\ IsTap(tap')
      /\ last /\ x.unterminated => tap'.data = <<DataLine(e).v>> /\ agg' = agg
      /\ ~(last /\ x.unterminated) =>
           /\ tap'.data = <<>>
           /\ agg' = IF IsDone(e) THEN agg ELSE AggStep(agg, UsageOf(e), FinishOf(e), w)
  <2> HIDE DEF e, s, last
  <2> QED BY <1>3, <1>5, <1>6, TapMeters
<1>8. ~(last /\ x.unterminated) => Counts(agg', s, w, pos + 1)
  <2>1. IsDone(e) => Counts(agg, s, w, pos + 1)
    BY <1>1, <1>5, <1>6, SkipCounts
  <2>2. Counts(AggStep(agg, Use(s, pos + 1), FinishOf(e), w), s, w, pos + 1)
    BY <1>1, <1>5, <1>6, AggCounts
  <2>3. Use(s, pos + 1) = UsageOf(e)
    BY DEF Use
  <2> HIDE DEF e, s, w, last
  <2> QED BY <1>7, <2>1, <2>2, <2>3
<1>9. TapCounts'
  <2>1. CASE last /\ x.unterminated
    <3>1. pos' > 0 /\ pos' = Len(s) /\ pos' - 1 = pos
      <4>1. pos' = Len(s)
        BY <1>1, <2>1
      <4>2. pos \in Nat /\ pos' = pos + 1
        BY <1>1, <1>2
      <4> HIDE DEF s
      <4> QED BY <4>1, <4>2
    <3>2. tap'.data = <<DataLine(s[pos']).v>> /\ Counts(agg', s, w, pos' - 1)
      <4>1. s[pos'] = e
        BY <1>2
      <4> HIDE DEF e, s, w, last
      <4> QED BY <1>6, <1>7, <2>1, <3>1, <4>1
    <3>3. pc' # "account" /\ ~Piped'
      BY <1>1, <1>2, Decisions
    <3> QED BY <1>2, <1>7, <3>1, <3>2, <3>3 DEF TapCounts
  <2>2. CASE ~(last /\ x.unterminated)
    <3>1. tap'.data = <<>> /\ Counts(agg', s, w, Tapped')
      BY <1>4, <1>7, <1>8, <2>2
    <3> QED BY <1>2, <1>7, <3>1 DEF TapCounts
  <2> QED BY <2>1, <2>2
<1>10. e \in Fed(s) \cap Covered(s, pos + 1)
  <2>1. pos + 1 \in 1 .. Len(s)
    BY <1>1
  <2> QED BY <1>1, <2>1, EventCovered
<1> HIDE DEF e, s, w, last
<1>11. fault' # "eof"
  BY <1>2
<1> QED BY <1>1, <1>2, <1>3, <1>4, <1>9, <1>10, <1>11, CarriesMore DEF s

\* The goroutine's message, or its end mark, comes out of the pipe.
LEMMA ReadPipeFeeds ==
    ASSUME Feeding, Frame, Metered, PumpInOrder, ReadPipe
    PROVE  Feeding'
<1> DEFINE s == x.script
           e == pump.ev
           w == x.withCache
           last == ~Piped /\ pos' = Len(Events)
<1>1. x \in Exchanges /\ pump \in Pumps /\ pos \in 0 .. Len(Events)
  BY DEF Frame, Shapes
<1>2. Len(s) \in Nat /\ pos \in Nat /\ pos <= Len(s)
  <2>1. Events = s /\ Len(s) \in Nat
    BY <1>1, EventsFacts DEF Metered, Events
  <2> QED BY <1>1, <2>1
<1>3. /\ x' = x /\ pos' = pos /\ buf' = Append(buf, e) /\ UNCHANGED <<pend, out, fault, pc>>
      /\ pc = "stream" /\ fault = "" /\ Piped /\ pump.at = "writing" /\ Tap(e)
      /\ pump' = [pump EXCEPT !.at = IF pump.ev = PipeDone THEN "closed" ELSE "reading", !.ev = None]
  BY DEF ReadPipe
<1>4. pump'.at # "writing"
  BY <1>1, <1>3 DEF Pumps
<1>5. Tapped' = pos
  BY <1>3, <1>4 DEF Tapped, Holding
<1>6. TapRaw
  BY DEF TapRaw, Metered
<1>7. tap' = TapFrame(tap, e, last) /\ agg' = MeterClosed(agg, tap')
      /\ tail' = TailBuffer(Append(tail, e), TailLimit)
  BY <1>3, <1>6 DEF Tap, Seen, Metered
<1>8. IsTap(tap) /\ tap.data = <<>> /\ Counts(agg, s, w, Tapped)
  BY <1>3 DEF Feeding, TapCounts
<1>9. ASSUME e # None
      PROVE  /\ IsTap(tap') /\ tap'.data = <<>>
             /\ agg' = IF IsDone(e) THEN agg ELSE AggStep(agg, UsageOf(e), FinishOf(e), w)
  <2>1. ~(last /\ x.unterminated)
    BY <1>3
  <2> HIDE DEF e, s, last
  <2> QED BY <1>7, <1>8, <1>9, <2>1, TapMeters
<1>10. CASE e = PipeDone
  <2>1. Tapped = pos
    BY <1>10 DEF Tapped, Holding
  <2>2. e # None /\ IsDone(e)
    BY <1>10, NoneIsNoUsage DEF IsDone, PipeDone
  <2>3. TapCounts'
    <3>1. IsTap(tap') /\ tap'.data = <<>> /\ agg' = agg
      BY <1>9, <2>2
    <3> QED BY <1>3, <1>5, <1>8, <2>1, <3>1 DEF TapCounts
  <2>4. e \in Fed(s) \cap Covered(s, pos)
    BY <1>2, <1>10, QuietCovered
  <2>5. fault' # "eof"
    BY <1>3
  <2> QED BY <1>2, <1>3, <1>5, <1>7, <2>1, <2>3, <2>4, <2>5, CarriesMore
<1>11. CASE e # PipeDone
  <2>1. Tapped = pos - 1 /\ pos >= 1 /\ e = s[pos]
    BY <1>3, <1>11 DEF Tapped, Holding, PumpInOrder
  <2> DEFINE n == pos - 1
  <2>2. n \in Nat /\ n + 1 = pos /\ pos \in 0 .. Len(s) /\ pos \in 1 .. pos /\ pos \in 1 .. Len(s)
    BY <1>2, <2>1
  <2>3. /\ e # None /\ Totals(s, n + 1)
        /\ IsDone(e) => \A f \in Fields : Use(s, n + 1)[f] = 0
    BY <1>1, <2>1, <2>2, ScriptTotals
  <2>4. Counts(agg, s, w, n)
    BY <1>8, <2>1
  <2> HIDE DEF n
  <2>5. IsDone(e) => Counts(agg, s, w, n + 1)
    BY <2>2, <2>3, <2>4, SkipCounts
  <2>6. Counts(AggStep(agg, Use(s, n + 1), FinishOf(e), w), s, w, n + 1)
    BY <2>2, <2>3, <2>4, AggCounts
  <2>7. Use(s, n + 1) = UsageOf(e)
    BY <2>1, <2>2 DEF Use
  <2>8. TapCounts'
    <3>1. IsTap(tap') /\ tap'.data = <<>>
      BY <1>9, <2>3
    <3>2. Counts(agg', s, w, n + 1)
      <4> HIDE DEF e, s, w, last
      <4> QED BY <1>9, <2>3, <2>5, <2>6, <2>7
    <3>3. Counts(agg', s, w, Tapped')
      BY <1>5, <2>2, <3>2
    <3> QED BY <1>3, <3>1, <3>3 DEF TapCounts
  <2>9. e \in Fed(s) \cap Covered(s, n + 1)
    BY <1>1, <2>1, <2>2, EventCovered
  <2>10. fault' # "eof" /\ Tapped = n
    BY <1>3, <2>1 DEF n
  <2> HIDE DEF e
  <2> QED BY <1>3, <1>5, <1>7, <2>2, <2>8, <2>9, <2>10, CarriesMore
<1> QED BY <1>10, <1>11

\* metricsTap.Finish meters what is still open.
LEMMA FinishTapFeeds ==
    ASSUME Feeding, Frame, Metered, FinishTap
    PROVE  Feeding'
<1> DEFINE s == x.script
           w == x.withCache
           t == [tap EXCEPT !.events = <<>>]
<1>1. x \in Exchanges /\ pos \in 0 .. Len(Events) /\ Events = s /\ Len(s) \in Nat
  BY EventsFacts DEF Frame, Shapes, Metered, Events
<1>2. /\ x' = x /\ UNCHANGED <<pump, pos, buf, pend, out, tail, fault>>
      /\ tap' = TapFlush(t) /\ agg' = MeterClosed(agg, tap')
  BY DEF FinishTap, TapFinish
<1>3. Tapped' = Tapped
  BY <1>2, Decisions DEF Tapped, Holding
<1>4. IsTap(tap) /\ IsTap(t) /\ t.data = tap.data /\ t.events = <<>>
  BY DEF Feeding, TapCounts, IsTap
<1> HIDE DEF t
<1>5. /\ IsTap(tap') /\ tap'.data = <<>>
      /\ t.data = <<>> => agg' = agg
      /\ \A v : t.data = <<v>> => agg' = IF v = None THEN agg ELSE MeterEvent(agg, v)
  BY <1>2, <1>4, FlushMeters
<1>6. Counts(agg', s, w, Tapped)
  <2>1. CASE tap.data = <<>> /\ Counts(agg, s, w, Tapped)
    BY <1>4, <1>5, <2>1
  <2>2. CASE /\ ~Piped /\ pos > 0 /\ pos = Len(s) /\ tap.data = <<DataLine(s[pos]).v>>
             /\ Counts(agg, s, w, pos - 1)
    <3> DEFINE n == pos - 1
               e == s[pos]
    <3>1. /\ n \in Nat /\ n + 1 = pos /\ pos \in 0 .. Len(s) /\ pos \in 1 .. pos /\ Tapped = pos
      <4>1. Tapped = pos
        BY <2>2 DEF Tapped, Holding
      <4>2. pos \in Nat /\ pos > 0 /\ pos = Len(s)
        BY <1>1, <2>2
      <4> HIDE DEF s
      <4> QED BY <4>1, <4>2
    <3>2. /\ e # None /\ Totals(s, n + 1)
          /\ IsDone(e) => \A f \in Fields : Use(s, n + 1)[f] = 0
      BY <1>1, <3>1, ScriptTotals
    <3>3. Counts(agg, s, w, n)
      BY <2>2
    <3> HIDE DEF n
    <3>4. IsDone(e) => Counts(agg, s, w, n + 1)
      BY <3>1, <3>2, <3>3, SkipCounts
    <3>5. Counts(AggStep(agg, Use(s, n + 1), FinishOf(e), w), s, w, n + 1)
      BY <3>1, <3>2, <3>3, AggCounts
    <3>6. DataLine(e).v = IF IsDone(e) THEN None ELSE e
      BY DEF DataLine
    <3>7. MeterEvent(agg, e) = AggStep(agg, Use(s, n + 1), FinishOf(e), w)
      BY <3>1 DEF MeterEvent, Metered, Use
    <3>8. t.data = <<DataLine(e).v>>
      BY <1>4, <2>2
    <3> HIDE DEF e, s, w
    <3>9. agg' = IF IsDone(e) THEN agg ELSE MeterEvent(agg, e)
      BY <1>5, <3>2, <3>6, <3>8
    <3> QED BY <3>1, <3>4, <3>5, <3>7, <3>9
  <2> QED BY <2>1, <2>2 DEF Feeding, TapCounts
<1>7. TapCounts'
  BY <1>2, <1>3, <1>5, <1>6 DEF TapCounts
<1> QED BY <1>2, <1>3, <1>7, MeterDecisions DEF Feeding

LEMMA FeedingNext ==
    ASSUME Feeding, Frame, Metered, PumpInOrder, Next, pc' \in Live
    PROVE  Feeding'
<1>1. Tapped \in Nat
  <2>1. Events = x.script /\ Len(x.script) \in Nat /\ pos \in 0 .. Len(Events)
    BY EventsFacts DEF Frame, Shapes, Metered, Events
  <2>2. pos \in Nat
    BY <2>1
  <2>3. Holding => pos >= 1
    BY DEF Holding, PumpInOrder
  <2> QED BY <2>2, <2>3 DEF Tapped
<1>2. CASE TransformEvent
  BY <1>1, <1>2, TransformEventFeeds
<1>3. CASE PumpWriteFails
  BY <1>3 DEF PumpWriteFails, Frame, Control, Live, Streaming
<1>4. CASE BuildCtxFails \/ UpstreamFails \/ SettleStream \/ ReadAllFails \/ NonStreamFails
           \/ PrepareAnswer \/ WriteAnswerFails \/ ServeNonStream \/ CloseBody \/ CancelUpstream
  BY <1>4 DEF BuildCtxFails, UpstreamFails, SettleStream, ReadAllFails, NonStreamFails, PrepareAnswer,
     WriteAnswerFails, ServeNonStream, CloseBody, CancelUpstream, Live, Streaming
<1> QED BY <1>2, <1>3, <1>4, WriteFeeds, StartStreamFeeds, ReadEOFFeeds, FinishTransformFeeds, OtherFeeds,
           ReadEventFeeds, ReadPipeFeeds, FinishTapFeeds DEF Next, ProxyStep, PumpStep, Faults

LEMMA SettleStreamSettles ==
    ASSUME Feeding, Frame, Metered, PumpInOrder, SettleStream
    PROVE  Settled'
<1>1. x' = x /\ fault' = fault /\ pc = "account"
  BY DEF SettleStream
<1>2. CASE Fail
  BY <1>2 DEF Fail, Settled
<1>3. CASE MakeResult(IF tail = <<>> THEN None ELSE StreamUsage) /\ UNCHANGED out
  <2>1. x \in Exchanges /\ Events = x.script /\ Len(x.script) \in Nat /\ pos \in 0 .. Len(Events)
    BY EventsFacts DEF Frame, Shapes, Metered, Events
  <2>2. Tapped \in 0 .. Len(x.script)
    <3>1. Holding => pos >= 1
      BY DEF Holding, PumpInOrder
    <3>2. pos \in 0 .. Len(x.script)
      BY <2>1
    <3>3. Tapped = pos \/ (Tapped = pos - 1 /\ pos >= 1)
      BY <3>1 DEF Tapped
    <3> QED BY <2>1, <3>2, <3>3
  <2>3. Counts(agg, x.script, x.withCache, Tapped) /\ (tail = <<>> => Tapped = 0)
    BY <1>1 DEF Feeding, TapCounts
  <2>4. ShouldEstimateUsage' <=> ShouldEstimateUsage
    BY <1>1 DEF ShouldEstimateUsage
  <2>5. ASSUME ShouldEstimateUsage, fault = "eof" PROVE BilledIsSpent(x, result')
    <3>1. Tapped = Len(x.script)
      BY <2>5 DEF Feeding
    <3>2. Counts(agg, x.script, x.withCache, Len(x.script)) /\ (tail = <<>> => Len(x.script) = 0)
      BY <2>3, <3>1
    <3> QED BY <1>3, <2>1, <2>5, <3>2, SettleIsExact
  <2>6. ASSUME ShouldEstimateUsage, ~UseStrategyTransform, NEW j \in DOMAIN out.body
        PROVE  BilledCovers(result', out.body[j])
    <3> DEFINE C == Covered(x.script, Tapped)
    <3>1. out.body \in Seq(C)
      BY <2>6 DEF Feeding
    <3> HIDE DEF C
    <3>2. out.body[j] \in C
      BY <2>6, <3>1
    <3> QED BY <1>3, <2>1, <2>2, <2>3, <2>6, <3>2, SettleCovers DEF C
  <2> QED BY <1>1, <1>3, <2>5, <2>6, MeterDecisions DEF Settled, ShouldEstimateUsage
<1> QED BY <1>2, <1>3 DEF SettleStream

LEMMA SettledNext ==
    ASSUME Metering, Frame, Metered, Next, pc' \in {"close", "cancel", "done"}
    PROVE  Settled'
<1>1. x' = x
  BY ExchangeKept
<1>2. CASE BuildCtxFails \/ UpstreamFails \/ ReadAllFails \/ NonStreamFails \/ WriteAnswerFails
  <2>1. Fail
    BY <1>2 DEF BuildCtxFails, UpstreamFails, ReadAllFails, NonStreamFails, WriteAnswerFails
  <2> QED BY <2>1 DEF Fail, Settled
<1>3. CASE SettleStream
  <2>1. pc \in Live
    BY <1>3 DEF SettleStream, Live, Streaming
  <2> QED BY <1>3, <2>1, SettleStreamSettles DEF Metering
<1>4. CASE ServeNonStream
  <2>1. ~IsEffectiveStream'
    BY <1>1, <1>4, Decisions DEF ServeNonStream, Frame, Control
  <2> QED BY <2>1 DEF Settled
<1>5. CASE pc \in {"close", "cancel", "done"} /\ UNCHANGED <<result, fault, out>>
  BY <1>1, <1>5, Decisions, MeterDecisions DEF Metering, Settled
<1>6. pc \in Pcs
  BY DEF Frame, Shapes
<1> QED BY <1>2, <1>3, <1>4, <1>5, <1>6
        DEF Next, ProxyStep, PumpStep, BuildCtx, RetryUnauthorized, Respond, StartStream, ReadEvent,
            ReadPipe, ReadEOF, ReadFails, TransformEvent, WriteChunk, WriteFails, FinishTransform,
            FlushChunk, FinishTap, PrepareAnswer, CloseBody, CancelUpstream, PumpRead, PumpWriteFails, PumpFails,
            ClientLeaves, Pcs, Streaming

LEMMA MeteringInit == Init => Metering
<1> SUFFICES ASSUME Init, Metered PROVE Metering
  BY DEF Metering
<1>1. /\ x \in Exchanges /\ pc = "start" /\ pos = 0 /\ fault = "" /\ buf = <<>> /\ pend = <<>> /\ tail = <<>>
      /\ pump.at = "none" /\ out.body = <<>> /\ tap = TapInit /\ agg = AggInit
  BY DEF Init
<1>2. Tapped = 0
  BY <1>1 DEF Tapped, Holding
<1>3. Counts(agg, x.script, x.withCache, 0)
  <2>1. agg \in [last : Usages \cup {None}, maxFresh : Nat, finish : {agg.finish}] /\ agg.last = None /\ agg.maxFresh = 0
    BY <1>1 DEF AggInit
  <2>2. Known(agg) = NoUsage
    BY <2>1 DEF Known
  <2>3. \A f : HighMark(0, x.script, f, 0)
    BY DEF HighMark
  <2> QED BY <2>1, <2>2, <2>3 DEF Counts, NoUsage
<1>4. TapCounts
  <2>1. IsTap(tap) /\ tap.data = <<>>
    BY <1>1 DEF TapInit, IsTap
  <2> QED BY <1>2, <1>3, <2>1 DEF TapCounts
<1>5. \A S : <<>> \in Seq(S)
  OBVIOUS
<1>6. Feeding
  BY <1>1, <1>2, <1>4, <1>5 DEF Feeding
<1> QED BY <1>1, <1>6 DEF Metering, PumpInOrder

LEMMA MeteringNext == Frame /\ Metering /\ [Next]_vars => Metering'
<1> SUFFICES ASSUME Frame, Metering, [Next]_vars, Metered' PROVE Metering'
  BY DEF Metering
<1>1. x' = x /\ Metered /\ PumpInOrder
  BY ExchangeKept, MeterDecisions DEF Metering
<1>2. PumpInOrder'
  BY <1>1, PumpInOrderNext
<1>3. (fault # "" => IsEffectiveStream)'
  <2>1. fault' = fault \/ pc \in Streaming
    BY DEF Next, ProxyStep, PumpStep, vars, BuildCtxFails, BuildCtx, UpstreamFails, RetryUnauthorized, Respond,
       StartStream, ReadEvent, ReadPipe, ReadEOF, ReadFails, TransformEvent, WriteChunk, WriteFails,
       FinishTransform, FlushChunk, FinishTap, SettleStream, ReadAllFails, NonStreamFails, PrepareAnswer,
       WriteAnswerFails, ServeNonStream,
       CloseBody, CancelUpstream, PumpRead, PumpWriteFails, PumpFails, ClientLeaves, Streaming
  <2> QED BY <1>1, <2>1, Decisions DEF Metering, Frame, Control
<1>4. CASE UNCHANGED vars
  <2>1. Tapped' = Tapped
    BY <1>1, <1>4, Decisions DEF vars, Tapped, Holding
  <2>2. pc \in Live => Feeding'
    BY <1>1, <1>4, <2>1, FeedKept DEF vars, Metering, Feeding
  <2>3. pc \in {"close", "cancel", "done"} => Settled'
    BY <1>1, <1>4, Decisions, MeterDecisions DEF vars, Metering, Settled
  <2> QED BY <1>2, <1>3, <1>4, <2>2, <2>3 DEF Metering, vars
<1>5. CASE Next
  <2>1. pc' \in Live => pc \in Live
    BY <1>5 DEF Next, ProxyStep, PumpStep, BuildCtxFails, BuildCtx, UpstreamFails, RetryUnauthorized, Respond,
       StartStream, ReadEvent, ReadPipe, ReadEOF, ReadFails, TransformEvent, WriteChunk, WriteFails,
       FinishTransform, FlushChunk, FinishTap, SettleStream, ReadAllFails, NonStreamFails, PrepareAnswer,
       WriteAnswerFails, ServeNonStream,
       CloseBody, CancelUpstream, PumpRead, PumpWriteFails, PumpFails, ClientLeaves, Live, Streaming
  <2>2. pc' \in Live => Feeding'
    BY <1>1, <1>5, <2>1, FeedingNext DEF Metering
  <2>3. pc' \in {"close", "cancel", "done"} => Settled'
    BY <1>1, <1>5, SettledNext
  <2> QED BY <1>2, <1>3, <2>2, <2>3 DEF Metering
<1> QED BY <1>4, <1>5

THEOREM MeteringSafe == Spec => []Metering
<1>1. Init => Metering
  BY MeteringInit
<1>2. Frame /\ Metering /\ [Next]_vars => Metering'
  BY MeteringNext
<1> QED BY <1>1, <1>2, FrameSafe, PTL DEF Spec

\* For any script of running totals, any cut into events and any prices, a
\* stream that the tees can read and that was delivered whole is billed the
\* upstream's own counts, each token once.
THEOREM UsageSafe == Spec => []UsageIsExact
<1>1. Frame /\ Metering => UsageIsExact
  <2> SUFFICES ASSUME Frame, Metering, Complete, x.metrics, IsSSE, Readable PROVE BilledIsSpent(x, result)
    BY DEF UsageIsExact
  <2>1. Metered /\ pc = "done" /\ fault = "eof" /\ result # None /\ result.ok /\ x.status = 200
    BY DEF Metered, Complete
  <2> QED BY <2>1 DEF Metering, Settled
<1> QED BY <1>1, FrameSafe, MeteringSafe, PTL

\* Whenever the client leaves: when a stream that the tees can read is passed
\* on and its call ends with a result, at least what reached the client is
\* billed.
THEOREM DeliverySafe == Spec => []MeteredCoversDelivered
<1>1. Metering => MeteredCoversDelivered
  BY DEF Metering, Metered, Settled, MeteredCoversDelivered
<1> QED BY <1>1, MeteringSafe, PTL

-----------------------------------------------------------------------------
\* The collectors of a stream, each the fold of one step over its events:
\* collectAnthropicMessages and collectOpenAIResponses, which read a stream
\* whole, and the chunk collectors, which follow it.
Start(by) == IF by \in {"claude", "claude chunks"} THEN AnthInit ELSE NoItems

Add(c, e, by) ==
    CASE by = "claude"           -> AnthAdd(c, e, FALSE)
      [] by = "claude chunks"    -> AnthAdd(c, e, TRUE)
      [] by = "responses"        -> RespAdd(c, e)
      [] by = "responses chunks" -> RespChunkAdd(c, e)

\* g is the fold's own function on sets of positions, Collected the state
\* after the events at the positions in S.
IsCollected(g, S, s, by) ==
    g = [t \in SUBSET S |->
           IF t = {} THEN Start(by) ELSE Add(g[t \ {Max(t)}], s[Max(t)], by)]

Collected(S, s, by) == (CHOOSE g : IsCollected(g, S, s, by))[S]

\* The fold takes the last position first.
LEMMA MaxIn ==
    ASSUME NEW n \in Nat, NEW t \in SUBSET (1..n), t # {}
    PROVE  Max(t) \in t /\ \A k \in t : k <= Max(t)
<1> DEFINE U == {k \in Nat : \A y \in t : y <= k}
<1>1. U \in SUBSET Nat /\ U # {}
  <2>1. n \in U
    OBVIOUS
  <2> QED BY <2>1
<1>2. PICK m \in U : \A k \in U : m <= k
  <2> HIDE DEF U
  <2> QED BY <1>1, Smallest
<1>3. m \in t
  <2> SUFFICES ASSUME m \notin t PROVE FALSE
    OBVIOUS
  <2>0. m \in Nat
    BY <1>2
  <2>1. \A y \in t : y \in Nat /\ y < m
    BY <1>2
  <2>2. m - 1 \in Nat
    <3> PICK y \in t : TRUE
      OBVIOUS
    <3> QED BY <2>0, <2>1
  <2>3. \A y \in t : y <= m - 1
    BY <2>1
  <2>4. m - 1 \in U
    BY <2>2, <2>3
  <2> QED BY <1>2, <2>0, <2>4
<1>4. \E k \in t : \A y \in t : k >= y
  BY <1>2, <1>3
<1> QED BY <1>4 DEF Max

\* The positions T are among S, which are those of n events.
Nested(T, S, n) == n \in Nat /\ S \in SUBSET (1..n) /\ T \in SUBSET S

\* The fold has one function at most, and one for every set of positions.
LEMMA CollectedUnique ==
    ASSUME NEW n, NEW S, NEW T, Nested(T, S, n), NEW s, NEW by,
           NEW g, NEW h, IsCollected(g, S, s, by), IsCollected(h, T, s, by)
    PROVE  \A t \in SUBSET T : g[t] = h[t]
<1>0. n \in Nat /\ S \in SUBSET (1..n) /\ T \in SUBSET S
  BY DEF Nested
<1> DEFINE X == {t \in SUBSET T : g[t] = h[t]}
<1>1. IsFiniteSet(T)
  <2>1. IsFiniteSet(1..n)
    BY <1>0, FS_Interval
  <2> QED BY <1>0, <2>1, FS_Subset
<1>2. ASSUME NEW t \in SUBSET T, \A r \in SUBSET t : r # t => r \in X PROVE t \in X
  <2>0. /\ g[t] = IF t = {} THEN Start(by) ELSE Add(g[t \ {Max(t)}], s[Max(t)], by)
        /\ h[t] = IF t = {} THEN Start(by) ELSE Add(h[t \ {Max(t)}], s[Max(t)], by)
    <3>1. t \in SUBSET S
      BY <1>0
    <3> QED BY <3>1 DEF IsCollected
  <2>1. CASE t = {}
    BY <2>0, <2>1
  <2>2. CASE t # {}
    <3>1. t \ {Max(t)} \in SUBSET t /\ t \ {Max(t)} # t
      BY <1>0, <2>2, MaxIn
    <3>2. t \ {Max(t)} \in X
      BY <1>2, <3>1
    <3> QED BY <2>0, <2>2, <3>2
  <2> QED BY <2>1, <2>2
<1> HIDE DEF X
<1>3. \A t \in SUBSET T : t \in X
  BY <1>1, <1>2, InductSets
<1> QED BY <1>3 DEF X

LEMMA CollectedExists ==
    ASSUME NEW n \in Nat, NEW s, NEW by
    PROVE  \A S \in SUBSET (1..n) : IsCollected(CHOOSE g : IsCollected(g, S, s, by), S, s, by)
<1> DEFINE X == {S \in SUBSET (1..n) : \E g : IsCollected(g, S, s, by)}
<1>0. IsFiniteSet(1..n)
  BY FS_Interval
<1>1. ASSUME NEW S \in SUBSET (1..n), \A T \in SUBSET S : T # S => T \in X PROVE S \in X
  <2> DEFINE G == [t \in SUBSET S |->
                     IF t = {} THEN Start(by)
                     ELSE Add(Collected(t \ {Max(t)}, s, by), s[Max(t)], by)]
  <2>1. ASSUME NEW T \in SUBSET S, T # S PROVE G[T] = Collected(T, s, by)
    <3> DEFINE c == CHOOSE g : IsCollected(g, T, s, by)
    <3>1. IsCollected(c, T, s, by) /\ Collected(T, s, by) = c[T]
      BY <1>1, <2>1 DEF Collected
    <3> HIDE DEF c
    <3>2. c[T] = IF T = {} THEN Start(by) ELSE Add(c[T \ {Max(T)}], s[Max(T)], by)
      BY <3>1 DEF IsCollected
    <3>3. CASE T = {}
      BY <3>1, <3>2, <3>3
    <3>4. CASE T # {}
      <4> DEFINE U == T \ {Max(T)}
                 d == CHOOSE g : IsCollected(g, U, s, by)
      <4>1. U \in SUBSET T /\ U # S
        BY <2>1, <3>4, MaxIn
      <4>2. IsCollected(d, U, s, by) /\ Collected(U, s, by) = d[U]
        BY <1>1, <4>1 DEF Collected
      <4> HIDE DEF d, U
      <4>3. T \in SUBSET (1..n)
        OBVIOUS
      <4>4. \A t \in SUBSET U : c[t] = d[t]
        <5>1. Nested(U, T, n)
          BY <4>1, <4>3 DEF Nested
        <5> QED BY ONLY <3>1, <4>2, <5>1, CollectedUnique
      <4> QED BY <3>1, <3>2, <3>4, <4>2, <4>4 DEF U
    <3> QED BY <3>3, <3>4
  <2>2. ASSUME NEW t \in SUBSET S, t # {}
        PROVE  Collected(t \ {Max(t)}, s, by) = G[t \ {Max(t)}]
    <3>1. t \ {Max(t)} \in SUBSET S /\ t \ {Max(t)} # S
      BY <2>2, MaxIn
    <3> QED BY <2>1, <3>1
  <2>3. IsCollected(G, S, s, by)
    BY <2>2 DEF IsCollected
  <2> QED BY <2>3
<1> HIDE DEF X
<1>2. \A S \in SUBSET (1..n) : S \in X
  BY <1>0, <1>1, InductSets
<1> QED BY <1>2 DEF X

\* The collector's state after n events is that after one less and the step of the last.
LEMMA CollectedStep ==
    ASSUME NEW s, NEW by, NEW n \in Nat
    PROVE  /\ Collected(1..0, s, by) = Start(by)
           /\ Collected(1..(n+1), s, by) = Add(Collected(1..n, s, by), s[n+1], by)
<1> DEFINE S == 1..(n+1)
           U == 1..n
           c == CHOOSE g : IsCollected(g, S, s, by)
           d == CHOOSE g : IsCollected(g, U, s, by)
           z == CHOOSE g : IsCollected(g, {}, s, by)
<1>0. /\ n + 1 \in Nat /\ S \in SUBSET (1..(n + 1)) /\ U \in SUBSET S
      /\ U \in SUBSET (1..n) /\ {} \in SUBSET (1..n) /\ n + 1 \in S /\ S \ {n + 1} = U
  OBVIOUS
<1> HIDE DEF S, U
<1>1. IsCollected(c, S, s, by) /\ Collected(S, s, by) = c[S]
  BY <1>0, CollectedExists DEF Collected
<1>2. IsCollected(d, U, s, by) /\ Collected(U, s, by) = d[U]
  BY <1>0, CollectedExists DEF Collected
<1>3. IsCollected(z, {}, s, by) /\ Collected({}, s, by) = z[{}]
  BY <1>0, CollectedExists DEF Collected
<1> HIDE DEF c, d, z
<1>4. Max(S) = n + 1 /\ S # {}
  <2>1. Max(S) \in S /\ \A k \in S : k <= Max(S)
    BY <1>0, MaxIn
  <2> QED BY <1>0, <2>1 DEF S
<1>5. c[U] = d[U]
  <2>1. Nested(U, S, n + 1) /\ U \in SUBSET U
    BY <1>0 DEF Nested
  <2> QED BY ONLY <1>1, <1>2, <2>1, CollectedUnique
<1>6. c[S] = Add(c[U], s[n + 1], by)
  BY <1>0, <1>1, <1>4 DEF IsCollected
<1>7. z[{}] = Start(by)
  BY <1>3 DEF IsCollected
<1>8. 1..0 = {}
  OBVIOUS
<1> QED BY <1>1, <1>2, <1>3, <1>5, <1>6, <1>7, <1>8 DEF S, U


\* The four collectors are such folds.
LEMMA CollectedFold ==
    ASSUME NEW s
    PROVE  /\ FoldLeft(LAMBDA a, e : AnthAdd(a, e, FALSE), AnthInit, s) = Collected(DOMAIN s, s, "claude")
           /\ FoldLeft(LAMBDA a, e : AnthAdd(a, e, TRUE), AnthInit, s) = Collected(DOMAIN s, s, "claude chunks")
           /\ FoldLeft(RespAdd, NoItems, s) = Collected(DOMAIN s, s, "responses")
           /\ FoldLeft(RespChunkAdd, NoItems, s) = Collected(DOMAIN s, s, "responses chunks")
<1>1. FoldLeft(LAMBDA a, e : AnthAdd(a, e, FALSE), AnthInit, s) = Collected(DOMAIN s, s, "claude")
  BY DEF FoldLeft, MapThenFoldSet, Collected, IsCollected, Start, Add
<1>2. FoldLeft(LAMBDA a, e : AnthAdd(a, e, TRUE), AnthInit, s) = Collected(DOMAIN s, s, "claude chunks")
  BY DEF FoldLeft, MapThenFoldSet, Collected, IsCollected, Start, Add
<1>3. FoldLeft(RespAdd, NoItems, s) = Collected(DOMAIN s, s, "responses")
  BY DEF FoldLeft, MapThenFoldSet, Collected, IsCollected, Start, Add
<1>4. FoldLeft(RespChunkAdd, NoItems, s) = Collected(DOMAIN s, s, "responses chunks")
  BY DEF FoldLeft, MapThenFoldSet, Collected, IsCollected, Start, Add
<1> QED BY <1>1, <1>2, <1>3, <1>4

\* A collector's record: its fields, and whether it failed.
IsAnth(c) ==
    /\ c = [f \in {"msg", "blocks", "stop", "usage", "seenStop", "bad"} |-> c[f]]
    /\ c.bad \in BOOLEAN

LEMMA AnthFields ==
    ASSUME NEW c, IsAnth(c), NEW b \in BOOLEAN, NEW v
    PROVE  /\ IsAnth([c EXCEPT !.bad = b]) /\ [c EXCEPT !.bad = b].bad = b
           /\ [c EXCEPT !.bad = b].blocks = c.blocks
           /\ IsAnth([c EXCEPT !.bad = b, !.blocks = v])
           /\ [c EXCEPT !.bad = b, !.blocks = v].bad = b
           /\ [c EXCEPT !.bad = b, !.blocks = v].blocks = v
BY DEF IsAnth

LEMMA AnthOthers ==
    ASSUME NEW c, IsAnth(c), NEW v, NEW w
    PROVE  /\ IsAnth([c EXCEPT !.msg = TRUE, !.usage = v])
           /\ [c EXCEPT !.msg = TRUE, !.usage = v].blocks = c.blocks
           /\ IsAnth([c EXCEPT !.msg = TRUE, !.stop = w, !.usage = v])
           /\ [c EXCEPT !.msg = TRUE, !.stop = w, !.usage = v].blocks = c.blocks
           /\ IsAnth([c EXCEPT !.seenStop = TRUE])
           /\ [c EXCEPT !.seenStop = TRUE].blocks = c.blocks
BY DEF IsAnth

\* The events that name a block.
BlockEvents == {"block_start", "block_delta"}

\* A collector that has not failed has a block for every index named.
LEMMA AnthBlocks ==
    ASSUME NEW c, IsAnth(c), ~c.bad, NEW e
    PROVE  DOMAIN AnthAdd(c, e, TRUE).blocks =
               IF e.t \in BlockEvents THEN {e.i} \cup DOMAIN c.blocks ELSE DOMAIN c.blocks
<1> USE DEF BlockEvents
<1>1. CASE e.t = "error"
  <2>1. AnthAdd(c, e, TRUE) = [c EXCEPT !.bad = TRUE]
    BY <1>1 DEF AnthAdd
  <2> QED BY <1>1, <2>1 DEF IsAnth
<1>2. CASE e.t = "message_start"
  BY <1>2, AnthOthers DEF AnthAdd
<1>3. CASE e.t = "block_start"
  <2> DEFINE v == Put(c.blocks, e.i, NewBlock(e.kind, e.id, e.name))
  <2>1. PICK b \in BOOLEAN : AnthAdd(c, e, TRUE) = [c EXCEPT !.bad = b, !.blocks = v]
    BY <1>3 DEF AnthAdd
  <2>2. AnthAdd(c, e, TRUE).blocks = v
    <3> HIDE DEF v
    <3> QED BY <2>1 DEF IsAnth
  <2> QED BY <1>3, <2>2 DEF Put
<1>4. CASE e.t = "block_delta"
  <2> DEFINE v == Put(c.blocks, e.i, ApplyAnthropicDelta(Get(c.blocks, e.i, UnstartedBlock(TRUE)), e))
  <2>1. PICK b \in BOOLEAN : AnthAdd(c, e, TRUE) = [c EXCEPT !.bad = b, !.blocks = v]
    BY <1>4 DEF AnthAdd
  <2>2. AnthAdd(c, e, TRUE).blocks = v
    <3> HIDE DEF v
    <3> QED BY <2>1 DEF IsAnth
  <2> QED BY <1>4, <2>2 DEF Put
<1>5. CASE e.t = "message_delta"
  <2>1. PICK v, w : AnthAdd(c, e, TRUE) = [c EXCEPT !.msg = TRUE, !.stop = w, !.usage = v]
    BY <1>5 DEF AnthAdd
  <2> QED BY <1>5, <2>1 DEF IsAnth
<1>6. CASE e.t = "message_stop"
  BY <1>6, AnthOthers DEF AnthAdd
<1>7. CASE e.t \notin {"error", "message_start", "block_start", "block_delta", "message_delta", "message_stop"}
  BY <1>7 DEF AnthAdd
<1> QED BY <1>1, <1>2, <1>3, <1>4, <1>5, <1>6, <1>7

\* What one event does to a collector that has not failed.
Rejects(c, e) ==
    \/ e.t = "block_start" /\ e.i \in DOMAIN c.blocks /\ c.blocks[e.i].kind \notin {"", e.kind}
    \/ e.t = "block_delta" /\ e.i \notin DOMAIN c.blocks /\ e.kind # "text"

LEMMA AnthAddIs ==
    ASSUME NEW c, IsAnth(c), ~c.bad, NEW e
    PROVE  /\ IsAnth(AnthAdd(c, e, TRUE)) /\ IsAnth(AnthAdd(c, e, FALSE))
           /\ Rejects(c, e) => AnthAdd(c, e, TRUE).bad
           /\ ~Rejects(c, e) /\ (e.t = "block_delta" => e.i \in DOMAIN c.blocks)
                => AnthAdd(c, e, TRUE) = AnthAdd(c, e, FALSE)
<1>1. CASE e.t = "error"
  BY <1>1, AnthFields DEF AnthAdd, Rejects
<1>2. CASE e.t = "message_start"
  BY <1>2, AnthOthers DEF AnthAdd, Rejects
<1>3. CASE e.t = "block_start"
  BY <1>3, AnthFields DEF AnthAdd, Rejects
<1>4. CASE e.t = "block_delta"
  BY <1>4, AnthFields DEF AnthAdd, Rejects, Get
<1>5. CASE e.t = "message_delta"
  BY <1>5, AnthOthers DEF AnthAdd, Rejects
<1>6. CASE e.t = "message_stop"
  BY <1>6, AnthOthers DEF AnthAdd, Rejects
<1>7. CASE e.t \notin {"error", "message_start", "block_start", "block_delta", "message_delta", "message_stop"}
  BY <1>7 DEF AnthAdd, Rejects
<1> QED BY <1>1, <1>2, <1>3, <1>4, <1>5, <1>6, <1>7

\* Both collectors on the first n events of any stream.
LEMMA AnthBoth ==
    ASSUME NEW s
    PROVE  \A n \in Nat : /\ IsAnth(Collected(1..n, s, "claude chunks"))
                          /\ IsAnth(Collected(1..n, s, "claude"))
<1> DEFINE a(n) == Collected(1..n, s, "claude chunks")
           b(n) == Collected(1..n, s, "claude")
           X == {n \in Nat : IsAnth(a(n)) /\ IsAnth(b(n))}
<1>1. 0 \in X
  <2>1. a(0) = AnthInit /\ b(0) = AnthInit
    BY CollectedStep DEF Add, Start
  <2>2. IsAnth(AnthInit)
    BY DEF IsAnth, AnthInit
  <2> QED BY <2>1, <2>2
<1>2. ASSUME NEW n \in Nat, n \in X PROVE n + 1 \in X
  <2> DEFINE e == s[n + 1]
  <2>1. a(n + 1) = AnthAdd(a(n), e, TRUE) /\ b(n + 1) = AnthAdd(b(n), e, FALSE)
    BY CollectedStep DEF Add, Start
  <2>2. PICK c, d : c = a(n) /\ d = b(n) /\ IsAnth(c) /\ IsAnth(d)
    BY <1>2
  <2> HIDE DEF a, b, e
  <2>3. IsAnth(AnthAdd(c, e, TRUE)) /\ IsAnth(AnthAdd(d, e, FALSE))
    <3>1. c.bad => AnthAdd(c, e, TRUE) = c
      BY DEF AnthAdd
    <3>2. d.bad => AnthAdd(d, e, FALSE) = d
      BY DEF AnthAdd
    <3> QED BY <2>2, <3>1, <3>2, AnthAddIs
  <2>4. PICK k, g, h : k = n + 1 /\ g = a(k) /\ h = b(k)
    OBVIOUS
  <2>5. IsAnth(g) /\ IsAnth(h)
    BY <2>1, <2>2, <2>3, <2>4
  <2> QED BY <2>4, <2>5
<1> HIDE DEF X
<1>3. \A n \in Nat : n \in X
  BY <1>1, <1>2, InductNat
<1> QED BY <1>3 DEF X

\* A delta's block was started before, in whatever order and however often.
DeltasFollowStarts(s) ==
    \A k \in DOMAIN s : s[k].t = "block_delta" =>
      \E j \in 1..(k - 1) : s[j].t = "block_start" /\ s[j].i = s[k].i

\* The indexes the first n events name are the blocks of a collector that has
\* not failed.
NamedBlocks(s, n) == {s[j].i : j \in {k \in 1..n : s[k].t \in BlockEvents}}

LEMMA NamedStep ==
    ASSUME NEW s, NEW n \in Nat
    PROVE  /\ NamedBlocks(s, 0) = {}
           /\ NamedBlocks(s, n + 1) = IF s[n + 1].t \in BlockEvents THEN {s[n + 1].i} \cup NamedBlocks(s, n)
                                      ELSE NamedBlocks(s, n)
<1>1. {k \in 1..(n + 1) : s[k].t \in BlockEvents} =
        {k \in 1..n : s[k].t \in BlockEvents} \cup (IF s[n + 1].t \in BlockEvents THEN {n + 1} ELSE {})
  OBVIOUS
<1> QED BY <1>1 DEF NamedBlocks

\* Until the chunk collector refuses an event the two hold the same.
LEMMA AnthStarted ==
    ASSUME NEW T, NEW s \in Seq(T), DeltasFollowStarts(s)
    PROVE  \/ Collected(1..Len(s), s, "claude chunks").bad
           \/ Collected(1..Len(s), s, "claude chunks") = Collected(1..Len(s), s, "claude")
<1> DEFINE a(n) == Collected(1..n, s, "claude chunks")
           b(n) == Collected(1..n, s, "claude")
           Same(n) == a(n).bad \/ (a(n) = b(n) /\ DOMAIN a(n).blocks = NamedBlocks(s, n))
           X == {n \in Nat : n <= Len(s) => Same(n)}
<1>0. Len(s) \in Nat /\ DOMAIN s = 1..Len(s)
  OBVIOUS
<1>1. 0 \in X
  <2>1. a(0) = AnthInit /\ b(0) = AnthInit
    BY CollectedStep DEF Add, Start
  <2>2. DOMAIN AnthInit.blocks = {} /\ NamedBlocks(s, 0) = {}
    <3>1. DOMAIN AnthInit.blocks = {}
      BY DEF AnthInit
    <3>2. 0 \in Nat
      OBVIOUS
    <3> QED BY <3>1, <3>2, NamedStep
  <2> QED BY <2>1, <2>2
<1>2. ASSUME NEW n \in Nat, n \in X PROVE n + 1 \in X
  <2>0. n + 1 \in Nat
    OBVIOUS
  <2> HIDE DEF Same
  <2> SUFFICES ASSUME n + 1 <= Len(s) PROVE Same(n + 1)
    BY <2>0
  <2> DEFINE e == s[n + 1]
  <2>1. a(n + 1) = AnthAdd(a(n), e, TRUE) /\ b(n + 1) = AnthAdd(b(n), e, FALSE)
    BY CollectedStep DEF Add, Start
  <2>2. Same(n) /\ IsAnth(a(n))
    <3>1. n <= Len(s)
      BY <1>0
    <3>2. IsAnth(a(n))
      BY AnthBoth
    <3> QED BY <1>2, <3>1, <3>2
  <2>3. PICK c : c = a(n)
    OBVIOUS
  <2>4. IsAnth(c) /\ (c.bad \/ (c = b(n) /\ DOMAIN c.blocks = NamedBlocks(s, n)))
    BY <2>2, <2>3 DEF Same
  <2>5. NamedBlocks(s, n + 1) = IF e.t \in BlockEvents THEN {e.i} \cup NamedBlocks(s, n) ELSE NamedBlocks(s, n)
    BY NamedStep
  <2>6. n + 1 \in DOMAIN s /\ (n + 1) - 1 = n
    BY <1>0
  <2>7. e.t = "block_delta" => e.i \in NamedBlocks(s, n)
    BY <2>6 DEF DeltasFollowStarts, NamedBlocks, BlockEvents
  <2> HIDE DEF a, b, e
  <2>8. CASE c.bad
    <3>1. AnthAdd(c, e, TRUE) = c
      BY <2>8 DEF AnthAdd
    <3> QED BY <2>1, <2>3, <2>8, <3>1 DEF Same
  <2>9. CASE ~c.bad
    <3>1. Rejects(c, e) => AnthAdd(c, e, TRUE).bad
      BY <2>4, <2>9, AnthAddIs
    <3>2. ~Rejects(c, e) => AnthAdd(c, e, TRUE) = AnthAdd(c, e, FALSE)
      BY <2>4, <2>7, <2>9, AnthAddIs
    <3>3. DOMAIN AnthAdd(c, e, TRUE).blocks = NamedBlocks(s, n + 1)
      BY <2>4, <2>5, <2>9, AnthBlocks
    <3> QED BY <2>1, <2>3, <2>4, <2>9, <3>1, <3>2, <3>3 DEF Same
  <2> QED BY <2>8, <2>9
<1> HIDE DEF X
<1>3. \A n \in Nat : n \in X
  BY <1>1, <1>2, InductNat
<1>4. Same(Len(s))
  <2> HIDE DEF Same
  <2> QED BY <1>0, <1>3 DEF X
<1> QED BY <1>4

\* What the two Claude collectors return.
LEMMA CollectorsEnd ==
    ASSUME NEW T, NEW s \in Seq(T)
    PROVE  LET a == Collected(1..Len(s), s, "claude chunks")
               b == Collected(1..Len(s), s, "claude")
           IN  /\ SnapshotAnthropic(s) =
                     IF a.bad THEN Failed
                     ELSE [blocks |-> Ordered(a.blocks), stop |-> a.stop, usage |-> a.usage]
               /\ CollectAnthropicMessages(s) =
                     IF b.bad \/ ~b.msg \/ ~b.seenStop THEN Failed
                     ELSE [blocks |-> Ordered(b.blocks), stop |-> b.stop, usage |-> b.usage]
<1>1. DOMAIN s = 1..Len(s)
  OBVIOUS
<1> QED BY <1>1, CollectedFold DEF SnapshotAnthropic, CollectAnthropicMessages

\* Whatever the events of a Claude stream, however often a block is started
\* and with whatever types, as long as the deltas of a block come behind a
\* start of it: the chunk collector (anthropicMessagesChunkCollector) and
\* collectAnthropicMessages return the same message, or one of them reports an
\* error.  (Of a text delta without a start the one makes a text block and the
\* other a block without a type.)
THEOREM ClaudeCollectorsSafe ==
    ASSUME NEW T, NEW s \in Seq(T), DeltasFollowStarts(s)
    PROVE  \/ IsFailed(SnapshotAnthropic(s)) \/ IsFailed(CollectAnthropicMessages(s))
           \/ SnapshotAnthropic(s) = CollectAnthropicMessages(s)
<1> PICK a, b : a = Collected(1..Len(s), s, "claude chunks") /\ b = Collected(1..Len(s), s, "claude")
  OBVIOUS
<1>1. a.bad \/ a = b
  BY AnthStarted
<1>2. IsFailed(Failed)
  BY DEF IsFailed, Failed
<1> QED BY <1>1, <1>2, CollectorsEnd

\* On a stream in the protocol's order the chunk collector has nothing to
\* refuse, so the two stay equal: the blocks they hold are those started.
LEMMA AnthInOrder ==
    ASSUME NEW T, NEW s \in Seq(T), BlocksInOrder(s)
    PROVE  Collected(1..Len(s), s, "claude chunks") = Collected(1..Len(s), s, "claude")
<1> DEFINE a(n) == Collected(1..n, s, "claude chunks")
           b(n) == Collected(1..n, s, "claude")
           Same(n) == a(n) = b(n) /\ (a(n).bad \/ DOMAIN a(n).blocks = NamedBlocks(s, n))
           X == {n \in Nat : n <= Len(s) => Same(n)}
<1>0. Len(s) \in Nat /\ DOMAIN s = 1..Len(s)
  OBVIOUS
<1>1. 0 \in X
  <2>1. a(0) = AnthInit /\ b(0) = AnthInit
    BY CollectedStep DEF Add, Start
  <2>2. DOMAIN AnthInit.blocks = {} /\ NamedBlocks(s, 0) = {}
    <3>1. DOMAIN AnthInit.blocks = {}
      BY DEF AnthInit
    <3>2. 0 \in Nat
      OBVIOUS
    <3> QED BY <3>1, <3>2, NamedStep
  <2> QED BY <2>1, <2>2
<1>2. ASSUME NEW n \in Nat, n \in X PROVE n + 1 \in X
  <2>0. n + 1 \in Nat
    OBVIOUS
  <2> HIDE DEF Same
  <2> SUFFICES ASSUME n + 1 <= Len(s) PROVE Same(n + 1)
    BY <2>0
  <2> DEFINE e == s[n + 1]
  <2>1. a(n + 1) = AnthAdd(a(n), e, TRUE) /\ b(n + 1) = AnthAdd(b(n), e, FALSE)
    BY CollectedStep DEF Add, Start
  <2>2. Same(n) /\ IsAnth(a(n))
    <3>1. n <= Len(s)
      BY <1>0
    <3>2. IsAnth(a(n))
      BY AnthBoth
    <3> QED BY <1>2, <3>1, <3>2
  <2>3. PICK c : c = a(n)
    OBVIOUS
  <2>4. c = b(n) /\ (c.bad \/ DOMAIN c.blocks = NamedBlocks(s, n)) /\ IsAnth(c)
    BY <2>2, <2>3 DEF Same
  <2>5. NamedBlocks(s, n + 1) = IF e.t \in BlockEvents THEN {e.i} \cup NamedBlocks(s, n) ELSE NamedBlocks(s, n)
    BY NamedStep
  <2>6. n + 1 \in DOMAIN s /\ (n + 1) - 1 = n
    BY <1>0
  <2>7. /\ e.t = "block_start" => e.i \notin NamedBlocks(s, n)
        /\ e.t = "block_delta" => e.i \in NamedBlocks(s, n)
    BY <2>6 DEF BlocksInOrder, NamedBlocks, BlockEvents
  <2> HIDE DEF a, b, e
  <2>8. CASE c.bad
    <3>1. AnthAdd(c, e, TRUE) = c /\ AnthAdd(c, e, FALSE) = c
      BY <2>8 DEF AnthAdd
    <3> QED BY <2>1, <2>3, <2>4, <2>8, <3>1 DEF Same
  <2>9. CASE ~c.bad
    <3>1. ~Rejects(c, e)
      BY <2>4, <2>7, <2>9 DEF Rejects
    <3>2. AnthAdd(c, e, TRUE) = AnthAdd(c, e, FALSE)
      BY <2>4, <2>7, <2>9, <3>1, AnthAddIs
    <3>3. DOMAIN AnthAdd(c, e, TRUE).blocks = NamedBlocks(s, n + 1)
      BY <2>4, <2>5, <2>9, AnthBlocks
    <3> QED BY <2>1, <2>3, <2>4, <3>2, <3>3 DEF Same
  <2> QED BY <2>8, <2>9
<1> HIDE DEF X
<1>3. \A n \in Nat : n \in X
  BY <1>1, <1>2, InductNat
<1>4. Same(Len(s))
  <2> HIDE DEF Same
  <2> QED BY <1>0, <1>3 DEF X
<1> QED BY <1>4

\* A Claude stream in the protocol's order that collectAnthropicMessages
\* accepts: the chunk collector accepts it and holds the same message.
THEOREM ClaudeCollectorsAgree ==
    ASSUME NEW T, NEW s \in Seq(T), BlocksInOrder(s), ~IsFailed(CollectAnthropicMessages(s))
    PROVE  SnapshotAnthropic(s) = CollectAnthropicMessages(s)
<1> PICK a : a = Collected(1..Len(s), s, "claude chunks") /\ a = Collected(1..Len(s), s, "claude")
  BY AnthInOrder
<1>1. IsFailed(Failed)
  BY DEF IsFailed, Failed
<1> QED BY <1>1, CollectorsEnd

\* A Responses collector's record.
IsResp(c) ==
    /\ c = [f \in {"items", "resp", "bad"} |-> c[f]]
    /\ c.items = [i \in DOMAIN c.items |-> c.items[i]]
    /\ c.bad \in BOOLEAN

LEMMA SetItemIs ==
    ASSUME NEW c, IsResp(c), NEW i, NEW v
    PROVE  /\ IsResp(SetItem(c, i, v))
           /\ SetItem(c, i, v).bad = ~BoundedChunkIndex(i)
           /\ SetItem(c, i, v).items = Put(c.items, i, v)
           /\ SetItem(c, i, v).resp = c.resp
<1> DEFINE w == Put(c.items, i, v)
           b == ~BoundedChunkIndex(i)
<1>1. w = [j \in DOMAIN w |-> w[j]] /\ b \in BOOLEAN
  BY DEF Put
<1>2. SetItem(c, i, v) = [c EXCEPT !.items = w, !.bad = b]
  BY DEF SetItem
<1> HIDE DEF w, b
<1> SUFFICES /\ IsResp(SetItem(c, i, v)) /\ SetItem(c, i, v).bad = b
             /\ SetItem(c, i, v).items = w /\ SetItem(c, i, v).resp = c.resp
  BY DEF w, b
<1> QED BY <1>1, <1>2 DEF IsResp

LEMMA RespOthers ==
    ASSUME NEW c, IsResp(c), NEW v
    PROVE  /\ IsResp([c EXCEPT !.bad = TRUE]) /\ [c EXCEPT !.bad = TRUE].bad
           /\ [c EXCEPT !.bad = TRUE].items = c.items
           /\ [c EXCEPT !.bad = TRUE].resp = c.resp
           /\ IsResp([c EXCEPT !.resp = v]) /\ [c EXCEPT !.resp = v].bad = c.bad
           /\ [c EXCEPT !.resp = v].items = c.items
           /\ [c EXCEPT !.resp = v].resp = v
BY DEF IsResp

\* What one event does to a Responses collector that has not failed.
LEMMA RespAddIs ==
    ASSUME NEW c, IsResp(c), ~c.bad, NEW e
    PROVE  /\ IsResp(RespAdd(c, e))
           /\ RespAdd(c, e).bad <=> IsResponseFailure(e) \/ (ClosesItem(e) /\ ~BoundedChunkIndex(e.oi))
           /\ RespAdd(c, e).items = IF ClosesItem(e) THEN Put(c.items, e.oi, ResponseItem(e)) ELSE c.items
           /\ RespAdd(c, e).resp = IF e.t = "completed" THEN FinalResponse(e) ELSE c.resp
<1>1. CASE IsResponseFailure(e)
  <2>1. RespAdd(c, e) = [c EXCEPT !.bad = TRUE]
    BY <1>1 DEF RespAdd, IsResponseFailure, ClosesItem
  <2>2. PICK d : d = RespAdd(c, e) /\ IsResp(d) /\ d.bad = TRUE /\ d.items = c.items /\ d.resp = c.resp
    BY <2>1, RespOthers DEF IsResp
  <2> QED BY <1>1, <2>2 DEF IsResponseFailure, ClosesItem
<1>2. CASE ClosesItem(e)
  <2>1. RespAdd(c, e) = SetItem(c, e.oi, ResponseItem(e)) /\ ~IsResponseFailure(e) /\ e.t # "completed"
    BY <1>2 DEF RespAdd, IsResponseFailure, ClosesItem
  <2>2. PICK d : d = RespAdd(c, e) /\ IsResp(d) /\ d.bad = ~BoundedChunkIndex(e.oi)
          /\ d.items = Put(c.items, e.oi, ResponseItem(e)) /\ d.resp = c.resp
    BY <2>1, SetItemIs
  <2> QED BY <1>2, <2>1, <2>2
<1>3. CASE e.t = "completed"
  <2>1. RespAdd(c, e) = [c EXCEPT !.resp = FinalResponse(e)] /\ ~IsResponseFailure(e) /\ ~ClosesItem(e)
    BY <1>3 DEF RespAdd, IsResponseFailure, ClosesItem
  <2>2. PICK d : d = RespAdd(c, e) /\ IsResp(d) /\ d.bad = FALSE /\ d.items = c.items /\ d.resp = FinalResponse(e)
    <3>1. c.bad = FALSE
      BY DEF IsResp
    <3>2. PICK v : v = FinalResponse(e)
      OBVIOUS
    <3>3. PICK d : d = [c EXCEPT !.resp = v]
      OBVIOUS
    <3>4. IsResp(d) /\ d.bad = c.bad /\ d.items = c.items /\ d.resp = v
      BY <3>3 DEF IsResp
    <3> QED BY <2>1, <3>1, <3>2, <3>3, <3>4
  <2> QED BY <1>3, <2>1, <2>2
<1>4. CASE ~IsResponseFailure(e) /\ ~ClosesItem(e) /\ e.t # "completed"
  <2>1. RespAdd(c, e) = c
    BY <1>4 DEF RespAdd
  <2> QED BY <1>4, <2>1
<1> QED BY <1>1, <1>2, <1>3, <1>4

LEMMA RespChunkIs ==
    ASSUME NEW c, IsResp(c), ~c.bad, NEW e
    PROVE  /\ IsResp(RespChunkAdd(c, e))
           /\ RespChunkAdd(c, e).bad <=>
                IsResponseFailure(e) \/ (e.t \in ItemEvents /\ ~BoundedChunkIndex(e.oi))
           /\ e.t \in ItemEvents =>
                \E v : /\ RespChunkAdd(c, e).items = Put(c.items, e.oi, v)
                       /\ ClosesItem(e) => v = ResponseItem(e)
           /\ e.t \notin ItemEvents => RespChunkAdd(c, e).items = c.items
           /\ RespChunkAdd(c, e).resp = IF e.t = "completed" THEN FinalResponse(e) ELSE c.resp
<1>1. CASE IsResponseFailure(e)
  <2>1. RespChunkAdd(c, e) = [c EXCEPT !.bad = TRUE] /\ e.t \notin ItemEvents /\ e.t # "completed"
    BY <1>1 DEF RespChunkAdd, IsResponseFailure, ItemEvents
  <2>2. PICK d : d = RespChunkAdd(c, e) /\ IsResp(d) /\ d.bad = TRUE /\ d.items = c.items /\ d.resp = c.resp
    BY <2>1, RespOthers DEF IsResp
  <2> QED BY <1>1, <2>1, <2>2
<1>2. CASE e.t \in ItemEvents
  <2>1. ~IsResponseFailure(e) /\ e.t # "completed"
    BY <1>2 DEF ItemEvents, IsResponseFailure
  <2>2. PICK v : RespChunkAdd(c, e) = SetItem(c, e.oi, v) /\ (ClosesItem(e) => v = ResponseItem(e))
    <3>1. CASE e.t \in {"item", "message"}
      BY <2>1, <3>1 DEF RespChunkAdd, ApplyResponseOutputItem
    <3>2. CASE e.t \in {"text", "text_done"}
      BY <2>1, <3>2 DEF RespChunkAdd, ApplyResponseText, ClosesItem
    <3>3. CASE e.t \in {"args", "args_done"}
      BY <2>1, <3>3 DEF RespChunkAdd, ApplyResponseFunctionCallArguments, ClosesItem
    <3> QED BY <1>2, <3>1, <3>2, <3>3 DEF ItemEvents
  <2>3. PICK d : d = RespChunkAdd(c, e) /\ IsResp(d) /\ d.bad = ~BoundedChunkIndex(e.oi)
          /\ d.items = Put(c.items, e.oi, v) /\ d.resp = c.resp
    BY <2>2, SetItemIs
  <2> QED BY <1>2, <2>1, <2>2, <2>3
<1>3. CASE e.t = "completed"
  <2>1. RespChunkAdd(c, e) = [c EXCEPT !.resp = FinalResponse(e)] /\ ~IsResponseFailure(e) /\ e.t \notin ItemEvents
    BY <1>3 DEF RespChunkAdd, IsResponseFailure, ItemEvents
  <2>2. PICK d : d = RespChunkAdd(c, e) /\ IsResp(d) /\ d.bad = FALSE /\ d.items = c.items /\ d.resp = FinalResponse(e)
    <3>1. c.bad = FALSE
      BY DEF IsResp
    <3>2. PICK v : v = FinalResponse(e)
      OBVIOUS
    <3>3. PICK d : d = [c EXCEPT !.resp = v]
      OBVIOUS
    <3>4. IsResp(d) /\ d.bad = c.bad /\ d.items = c.items /\ d.resp = v
      BY <3>3 DEF IsResp
    <3> QED BY <2>1, <3>1, <3>2, <3>3, <3>4
  <2> QED BY <1>3, <2>1, <2>2
<1>4. CASE ~IsResponseFailure(e) /\ e.t \notin ItemEvents /\ e.t # "completed"
  <2>1. RespChunkAdd(c, e) = c
    BY <1>4 DEF RespChunkAdd, ItemEvents
  <2> QED BY <1>4, <2>1
<1> QED BY <1>1, <1>2, <1>3, <1>4

\* What the whole collector has not refused was in order.
Accepted(e) == ~IsResponseFailure(e) /\ (ClosesItem(e) => BoundedChunkIndex(e.oi))

LEMMA RespClean ==
    ASSUME NEW s
    PROVE  \A n \in Nat : LET a == Collected(1..n, s, "responses")
                          IN  /\ IsResp(a)
                              /\ a.bad \/ \A j \in 1..n : Accepted(s[j])
                              /\ a.resp # None => \E j \in 1..n : s[j].t = "completed"
<1> DEFINE a(n) == Collected(1..n, s, "responses")
           P(c, n) == /\ IsResp(c)
                      /\ c.bad \/ \A j \in 1..n : Accepted(s[j])
                      /\ c.resp # None => \E j \in 1..n : s[j].t = "completed"
           X == {n \in Nat : P(a(n), n)}
<1>1. 0 \in X
  <2>1. a(0) = NoItems
    BY CollectedStep DEF Start
  <2>2. P(NoItems, 0)
    BY DEF IsResp, NoItems
  <2> QED BY <2>1, <2>2
<1>2. ASSUME NEW n \in Nat, n \in X PROVE n + 1 \in X
  <2>0. n + 1 \in Nat
    OBVIOUS
  <2> DEFINE e == s[n + 1]
  <2>1. a(n + 1) = RespAdd(a(n), e)
    BY CollectedStep DEF Add
  <2>2. PICK c : c = a(n) /\ P(c, n)
    BY <1>2
  <2>3. PICK d : d = RespAdd(c, e) /\ d = a(n + 1)
    BY <2>1, <2>2
  <2> HIDE DEF a
  <2>4. P(d, n + 1)
    <3>1. CASE c.bad
      <4>1. d = c
        BY <2>3, <3>1 DEF RespAdd
      <4> QED BY <2>2, <3>1, <4>1
    <3>2. CASE ~c.bad
      <4>1. /\ IsResp(d)
            /\ d.bad <=> ~Accepted(e)
            /\ d.resp = IF e.t = "completed" THEN FinalResponse(e) ELSE c.resp
        <5>1. IsResp(c) /\ ~c.bad
          BY <2>2, <3>2
        <5>2. PICK f : f = e
          OBVIOUS
        <5>3. /\ IsResp(RespAdd(c, f))
              /\ RespAdd(c, f).bad <=> ~Accepted(f)
              /\ RespAdd(c, f).resp = IF f.t = "completed" THEN FinalResponse(f) ELSE c.resp
          BY ONLY <5>1, RespAddIs DEF Accepted
        <5> QED BY <2>3, <5>2, <5>3
      <4>2. \A j \in 1..(n + 1) : j \in 1..n \/ j = n + 1
        OBVIOUS
      <4>3. d.bad \/ \A j \in 1..(n + 1) : Accepted(s[j])
        BY <2>2, <3>2, <4>1, <4>2
      <4>4. d.resp # None => \E j \in 1..(n + 1) : s[j].t = "completed"
        <5>1. n + 1 \in 1..(n + 1) /\ 1..n \subseteq 1..(n + 1)
          OBVIOUS
        <5> QED BY <2>2, <4>1, <5>1
      <4> QED BY <4>1, <4>3, <4>4
    <3> QED BY <3>1, <3>2
  <2> HIDE DEF P
  <2> QED BY <2>0, <2>3, <2>4
<1> HIDE DEF X
<1>3. \A n \in Nat : n \in X
  BY <1>1, <1>2, InductNat
<1> QED BY <1>3 DEF X

\* Index i has been written to since its item was closed.
Dirty(s, n, i) ==
    \E k \in 1..n : /\ s[k].t \in ItemEvents /\ s[k].oi = i
                    /\ \A j \in k..n : ClosesItem(s[j]) => s[j].oi # i

Alike(f, g, i) == /\ i \in DOMAIN f <=> i \in DOMAIN g
                  /\ i \in DOMAIN f => f[i] = g[i]

\* An index stays dirty until its item is closed, and a delta makes it so.
LEMMA DirtyStep ==
    ASSUME NEW s, NEW n \in Nat, NEW i
    PROVE  /\ LET e == s[n + 1] IN
              Dirty(s, n, i) /\ ~(ClosesItem(e) /\ e.oi = i) => Dirty(s, n + 1, i)
           /\ LET e == s[n + 1] IN
              e.t \in ItemEvents /\ ~ClosesItem(e) => Dirty(s, n + 1, e.oi)
<1> DEFINE e == s[n + 1]
<1>1. ASSUME Dirty(s, n, i), ~(ClosesItem(e) /\ e.oi = i) PROVE Dirty(s, n + 1, i)
  <2>1. PICK k \in 1..n : /\ s[k].t \in ItemEvents /\ s[k].oi = i
                          /\ \A j \in k..n : ClosesItem(s[j]) => s[j].oi # i
    BY <1>1 DEF Dirty
  <2>2. k \in 1..(n + 1) /\ \A j \in k..(n + 1) : j \in k..n \/ j = n + 1
    OBVIOUS
  <2> QED BY <1>1, <2>1, <2>2 DEF Dirty
<1>2. ASSUME e.t \in ItemEvents, ~ClosesItem(e) PROVE Dirty(s, n + 1, e.oi)
  <2>1. n + 1 \in 1..(n + 1) /\ \A j \in (n + 1)..(n + 1) : j = n + 1
    OBVIOUS
  <2> QED BY <1>2, <2>1 DEF Dirty
<1> QED BY <1>1, <1>2

\* One event kept by both collectors: they still hold the same, but for the dirty items.
LEMMA RespPair ==
    ASSUME NEW s, NEW n \in Nat, NEW c, NEW d, IsResp(c), IsResp(d), ~c.bad, ~d.bad, c.resp = d.resp,
           \A i : Dirty(s, n, i) \/ Alike(c.items, d.items, i),
           NEW e, e = s[n + 1], ~IsResponseFailure(e), e.t \in ItemEvents => BoundedChunkIndex(e.oi)
    PROVE  LET c1 == RespAdd(c, e)
               d1 == RespChunkAdd(d, e)
           IN  /\ IsResp(c1) /\ IsResp(d1) /\ ~c1.bad /\ ~d1.bad /\ c1.resp = d1.resp
               /\ \A i : Dirty(s, n + 1, i) \/ Alike(c1.items, d1.items, i)
<1>0. ClosesItem(e) => e.t \in ItemEvents
  BY DEF ClosesItem, ItemEvents
<1>1. PICK c1 : /\ c1 = RespAdd(c, e) /\ IsResp(c1) /\ ~c1.bad
                /\ c1.items = IF ClosesItem(e) THEN Put(c.items, e.oi, ResponseItem(e)) ELSE c.items
                /\ c1.resp = IF e.t = "completed" THEN FinalResponse(e) ELSE c.resp
  <2>1. /\ IsResp(RespAdd(c, e))
        /\ RespAdd(c, e).bad <=> IsResponseFailure(e) \/ (ClosesItem(e) /\ ~BoundedChunkIndex(e.oi))
        /\ RespAdd(c, e).items = IF ClosesItem(e) THEN Put(c.items, e.oi, ResponseItem(e)) ELSE c.items
        /\ RespAdd(c, e).resp = IF e.t = "completed" THEN FinalResponse(e) ELSE c.resp
    BY ONLY IsResp(c), ~c.bad, RespAddIs
  <2>2. PICK c1 : c1 = RespAdd(c, e)
    OBVIOUS
  <2> QED BY <1>0, <2>1, <2>2
<1>2. PICK d1 : /\ d1 = RespChunkAdd(d, e) /\ IsResp(d1) /\ ~d1.bad
                /\ e.t \in ItemEvents => \E v : /\ d1.items = Put(d.items, e.oi, v)
                                                /\ ClosesItem(e) => v = ResponseItem(e)
                /\ e.t \notin ItemEvents => d1.items = d.items
                /\ d1.resp = IF e.t = "completed" THEN FinalResponse(e) ELSE d.resp
  <2>1. /\ IsResp(RespChunkAdd(d, e))
        /\ RespChunkAdd(d, e).bad <=>
             IsResponseFailure(e) \/ (e.t \in ItemEvents /\ ~BoundedChunkIndex(e.oi))
        /\ e.t \in ItemEvents =>
             \E v : /\ RespChunkAdd(d, e).items = Put(d.items, e.oi, v)
                    /\ ClosesItem(e) => v = ResponseItem(e)
        /\ e.t \notin ItemEvents => RespChunkAdd(d, e).items = d.items
        /\ RespChunkAdd(d, e).resp = IF e.t = "completed" THEN FinalResponse(e) ELSE d.resp
    BY ONLY IsResp(d), ~d.bad, RespChunkIs
  <2>2. PICK d1 : d1 = RespChunkAdd(d, e)
    OBVIOUS
  <2> QED BY <2>1, <2>2
<1>3. ASSUME NEW i PROVE Dirty(s, n + 1, i) \/ Alike(c1.items, d1.items, i)
  <2>0. Dirty(s, n, i) \/ Alike(c.items, d.items, i)
    OBVIOUS
  <2>1. CASE ClosesItem(e) /\ e.oi = i
    <3>1. c1.items = Put(c.items, i, ResponseItem(e)) /\ d1.items = Put(d.items, i, ResponseItem(e))
      BY <1>0, <1>1, <1>2, <2>1
    <3> QED BY <3>1 DEF Alike, Put
  <2>2. CASE e.t \in ItemEvents /\ ~ClosesItem(e) /\ e.oi = i
    BY <2>2, DirtyStep
  <2>3. CASE e.t \in ItemEvents /\ e.oi # i
    <3>1. Dirty(s, n, i) => Dirty(s, n + 1, i)
      BY <2>3, DirtyStep
    <3>2. PICK v : d1.items = Put(d.items, e.oi, v)
      BY <1>2, <2>3
    <3>3. c1.items = c.items \/ c1.items = Put(c.items, e.oi, ResponseItem(e))
      BY <1>1
    <3>4. Alike(c.items, d.items, i) => Alike(c1.items, d1.items, i)
      BY <2>3, <3>2, <3>3 DEF Alike, Put
    <3> QED BY <2>0, <3>1, <3>4
  <2>4. CASE e.t \notin ItemEvents
    <3>1. Dirty(s, n, i) => Dirty(s, n + 1, i)
      BY <1>0, <2>4, DirtyStep
    <3>2. c1.items = c.items /\ d1.items = d.items
      BY <1>0, <1>1, <1>2, <2>4
    <3> QED BY <2>0, <3>1, <3>2
  <2> QED BY <1>0, <2>1, <2>2, <2>3, <2>4
<1> QED BY <1>1, <1>2, <1>3

\* On a stream both accept.
LEMMA RespBoth ==
    ASSUME NEW T, NEW s \in Seq(T),
           \A j \in 1..Len(s) : /\ ~IsResponseFailure(s[j])
                                /\ s[j].t \in ItemEvents => BoundedChunkIndex(s[j].oi)
    PROVE  LET a == Collected(1..Len(s), s, "responses")
               b == Collected(1..Len(s), s, "responses chunks")
           IN  /\ IsResp(a) /\ IsResp(b) /\ ~a.bad /\ ~b.bad /\ a.resp = b.resp
               /\ \A i : Dirty(s, Len(s), i) \/ Alike(a.items, b.items, i)
<1> DEFINE a(n) == Collected(1..n, s, "responses")
           b(n) == Collected(1..n, s, "responses chunks")
           P(c, d, n) == /\ IsResp(c) /\ IsResp(d) /\ ~c.bad /\ ~d.bad /\ c.resp = d.resp
                         /\ \A i : Dirty(s, n, i) \/ Alike(c.items, d.items, i)
           X == {n \in Nat : n <= Len(s) => P(a(n), b(n), n)}
<1>0. Len(s) \in Nat
  OBVIOUS
<1>1. 0 \in X
  <2>1. a(0) = NoItems /\ b(0) = NoItems
    BY CollectedStep DEF Start
  <2>2. P(NoItems, NoItems, 0)
    BY DEF IsResp, NoItems, Alike
  <2> HIDE DEF P
  <2> QED BY <2>1, <2>2
<1>2. ASSUME NEW n \in Nat, n \in X PROVE n + 1 \in X
  <2>0. n + 1 \in Nat
    OBVIOUS
  <2> HIDE DEF P
  <2> SUFFICES ASSUME n + 1 <= Len(s) PROVE P(a(n + 1), b(n + 1), n + 1)
    BY <2>0
  <2>1. PICK e : e = s[n + 1]
    OBVIOUS
  <2>2. a(n + 1) = RespAdd(a(n), e) /\ b(n + 1) = RespChunkAdd(b(n), e)
    BY <2>1, CollectedStep DEF Add
  <2>3. PICK c, d : c = a(n) /\ d = b(n) /\ P(c, d, n)
    <3> HIDE DEF a, b
    <3>1. n <= Len(s)
      BY <1>0
    <3>2. P(a(n), b(n), n)
      BY <1>2, <3>1
    <3> QED BY <3>2
  <2>4. ~IsResponseFailure(e) /\ (e.t \in ItemEvents => BoundedChunkIndex(e.oi))
    <3>1. n + 1 \in 1..Len(s)
      BY <1>0
    <3> QED BY <2>1, <3>1
  <2> HIDE DEF a, b
  <2>5. P(RespAdd(c, e), RespChunkAdd(d, e), n + 1)
    <3>1. /\ IsResp(c) /\ IsResp(d) /\ ~c.bad /\ ~d.bad /\ c.resp = d.resp
          /\ \A i : Dirty(s, n, i) \/ Alike(c.items, d.items, i)
      BY <2>3 DEF P
    <3> QED BY ONLY n \in Nat, <2>1, <2>4, <3>1, RespPair DEF P
  <2> QED BY <2>2, <2>3, <2>5
<1> HIDE DEF X
<1>3. \A n \in Nat : n \in X
  BY <1>1, <1>2, InductNat
<1>4. P(a(Len(s)), b(Len(s)), Len(s))
  <2> HIDE DEF P, a, b
  <2> QED BY <1>0, <1>3 DEF X
<1> QED BY <1>4

\* What the two Responses collectors return.
LEMMA RespCollectors ==
    ASSUME NEW T, NEW s \in Seq(T)
    PROVE  LET a == Collected(1..Len(s), s, "responses")
               b == Collected(1..Len(s), s, "responses chunks")
           IN  /\ CollectOpenAIResponses(s) =
                    IF a.bad \/ a.resp = None THEN Failed
                    ELSE [output |-> IF a.items = <<>> THEN a.resp.output ELSE Ordered(a.items),
                          status |-> a.resp.status, usage |-> a.resp.usage]
               /\ SnapshotResponses(s) =
                    IF b.bad THEN Failed
                    ELSE [output |-> IF b.items # <<>> THEN Ordered(b.items)
                                     ELSE IF b.resp = None THEN <<>> ELSE b.resp.output,
                          status |-> IF b.resp = None THEN "" ELSE b.resp.status,
                          usage  |-> IF b.resp = None THEN NoUsage ELSE b.resp.usage]
<1>1. DOMAIN s = 1..Len(s)
  OBVIOUS
<1> QED BY <1>1, CollectedFold DEF CollectOpenAIResponses, SnapshotResponses

\* A Responses stream whose items are closed and that collectOpenAIResponses
\* accepts: the chunk collector, which has followed every delta, ends with the
\* same output items, status and usage.
THEOREM ResponsesCollectorsAgree ==
    ASSUME NEW T, NEW s \in Seq(T), ItemsAreClosed(s), ~IsFailed(CollectOpenAIResponses(s))
    PROVE  SnapshotResponses(s) = CollectOpenAIResponses(s)
<1>0. Len(s) \in Nat /\ DOMAIN s = 1..Len(s)
  OBVIOUS
<1> PICK a, b : /\ a = Collected(1..Len(s), s, "responses")
                /\ b = Collected(1..Len(s), s, "responses chunks")
  OBVIOUS
<1>1. ~a.bad /\ a.resp # None
  <2>1. IsFailed(Failed)
    BY DEF IsFailed, Failed
  <2> QED BY <2>1, RespCollectors
<1>2. (\A j \in 1..Len(s) : Accepted(s[j])) /\ \E j \in 1..Len(s) : s[j].t = "completed"
  BY <1>0, <1>1, RespClean
<1>3. \A k \in 1..Len(s) : s[k].t \in ItemEvents =>
        \E j \in k..Len(s) : ClosesItem(s[j]) /\ s[j].oi = s[k].oi
  BY <1>0, <1>2 DEF ItemsAreClosed
<1>4. \A j \in 1..Len(s) : /\ ~IsResponseFailure(s[j])
                           /\ s[j].t \in ItemEvents => BoundedChunkIndex(s[j].oi)
  <2>1. ASSUME NEW k \in 1..Len(s), s[k].t \in ItemEvents PROVE BoundedChunkIndex(s[k].oi)
    <3>1. PICK j \in k..Len(s) : ClosesItem(s[j]) /\ s[j].oi = s[k].oi
      BY <1>3, <2>1
    <3>2. j \in 1..Len(s)
      BY ONLY <1>0, k \in 1..Len(s), j \in k..Len(s)
    <3> QED BY <1>2, <3>1, <3>2 DEF Accepted
  <2> QED BY <1>2, <2>1 DEF Accepted
<1>5. /\ IsResp(a) /\ IsResp(b) /\ ~b.bad /\ a.resp = b.resp
      /\ \A i : Dirty(s, Len(s), i) \/ Alike(a.items, b.items, i)
  BY <1>4, RespBoth
<1>6. ASSUME NEW i PROVE ~Dirty(s, Len(s), i)
  BY <1>3 DEF Dirty
<1>7. a.items = b.items
  <2>1. \A i : Alike(a.items, b.items, i)
    BY <1>5, <1>6
  <2>2. DOMAIN a.items = DOMAIN b.items /\ \A i \in DOMAIN a.items : a.items[i] = b.items[i]
    BY <2>1 DEF Alike
  <2> QED BY <1>5, <2>2 DEF IsResp
<1> QED BY <1>1, <1>5, <1>7, RespCollectors

\* The chunk collectors of a stream agree with the collectors that read it
\* whole, for any scripts in the order of their protocol.
THEOREM CollectorsSafe == Spec => []CollectorsAgree
<1> DEFINE I == x \in Exchanges
<1>1. Init => I
  BY DEF Init
<1>2. I /\ [Next]_vars => I'
  BY ExchangeKept DEF vars
<1>3. I => CollectorsAgree
  <2> SUFFICES ASSUME I PROVE CollectorsAgree
    OBVIOUS
  <2>1. PICK T : x.script \in Seq(T)
    BY ScriptsAreEvents
  <2>2. x.proto = "claude" => BlocksInOrder(x.script)
    BY ScriptsInOrder
  <2>3. x.proto = "responses" => ItemsAreClosed(x.script)
    BY ScriptsInOrder
  <2> QED BY <2>1, <2>2, <2>3, ClaudeCollectorsAgree, ResponsesCollectorsAgree DEF CollectorsAgree
<1> QED BY <1>1, <1>2, <1>3, PTL DEF Spec
=============================================================================
