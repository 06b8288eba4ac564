----------------------------- MODULE MCExchange -----------------------------
(* The exchanges TLC looks at: every protocol's streams of up to two blocks *)
(* or items, every directive that applies to them, every head.              *)
EXTENDS Exchange

U(i, o, r, w) == [in |-> i, out |-> o, read |-> r, write |-> w]

Texts == {<<"v">>, <<"v", " w">>, <<" ", "w">>}
Args  == {<<"a">>, <<"a", "b">>}

\* Claude: text first, then tools; counts split over two events or repeated.
TextBlock(i, ds) == <<[t |-> "block_start", i |-> i, kind |-> "text", id |-> "", name |-> ""]>>
                    \o [j \in DOMAIN ds |-> [t |-> "block_delta", i |-> i, kind |-> "text", d |-> ds[j]]]
ToolBlock(i, id, as) == <<[t |-> "block_start", i |-> i, kind |-> "tool_use", id |-> id, name |-> "f"]>>
                    \o [j \in DOMAIN as |-> [t |-> "block_delta", i |-> i, kind |-> "json", d |-> as[j]]]
Claude(blocks, stop, u2) ==
  <<[t |-> "message_start", usage |-> U(3, 1, 1, 2)]>> \o blocks
  \o <<[t |-> "message_delta", stop |-> stop, usage |-> u2], [t |-> "message_stop"]>>
ClaudeScripts ==
  {Claude(b, "end_turn", u) :
     b \in {TextBlock(0, ds) : ds \in Texts}, u \in {U(0, 2, 0, 0), U(3, 2, 1, 2), U(0, 2, 1, 2)}}
  \cup {Claude(b, "tool_use", U(0, 2, 0, 0)) :
     b \in {TextBlock(0, <<"v">>) \o ToolBlock(1, "t1", as) : as \in Args}
           \cup {ToolBlock(0, "t1", <<"a", "b">>) \o ToolBlock(1, "t2", <<"a">>)}}
  \cup {<<[t |-> "message_start", usage |-> U(3, 1, 1, 2)]>> \o TextBlock(0, <<"v">>)
        \o <<[t |-> "message_delta", stop |-> "end_turn", usage |-> U(0, 2, 0, 0), named |-> {"in", "out"}],
             [t |-> "message_stop"]>>}

\* Responses: a message in deltas, calls whose arguments come in pieces and
\* once more as a whole, a call before, after and around a message; the final
\* event ends the stream or is missing.
Message(oi, ds) == [j \in DOMAIN ds |-> [t |-> "text", d |-> ds[j], oi |-> oi]]
                   \o <<[t |-> "text_done", oi |-> oi, text |-> ds],
                        [t |-> "message", oi |-> oi, text |-> ds, closed |-> TRUE]>>
CallItem(oi, id, call, as, closed) ==
  [t |-> "item", oi |-> oi, id |-> id, call |-> call, name |-> "f", args |-> as, closed |-> closed]
Call(oi, id, call, as) ==
  <<CallItem(oi, id, call, <<>>, FALSE)>>
  \o [j \in DOMAIN as |-> [t |-> "args", id |-> id, d |-> as[j], oi |-> oi]]
  \o <<[t |-> "args_done", oi |-> oi, args |-> as]>>
  \o <<CallItem(oi, id, call, as, TRUE)>>
Around(call, n, message) == SubSeq(call, 1, n) \o message \o SubSeq(call, n + 1, Len(call))
Completed(status) == <<[t |-> "completed", status |-> status, output |-> <<>>, usage |-> U(3, 2, 0, 0)]>>
ResponsesScripts ==
  {<<[t |-> "created"]>> \o Message(0, ds) \o Completed("completed") : ds \in Texts}
  \cup {Call(0, "i1", "c1", as) \o Completed("completed") : as \in Args}
  \cup {Call(0, "i1", "", <<"a">>) \o Call(1, "i2", "c2", <<"b">>) \o Completed("incomplete")}
  \cup {script \o Completed("completed") : script \in
           {Call(0, "i1", "c1", <<"a">>) \o Message(1, <<"v">>),
            Message(0, <<"v">>) \o Call(1, "i1", "c1", <<"a">>),
            Around(Call(0, "i1", "c1", <<"a", "b">>), 2, Message(1, <<" ", "w">>))}}
  \cup {Message(0, <<"v">>), Message(0, <<"v">>) \o <<[t |-> "error"]>>}

Part(d) == [p |-> "text", d |-> d]
CallPart(id) == [p |-> "call", id |-> id, name |-> "f", args |-> <<"a">>]
Content(parts, finish, o) == [t |-> "content", parts |-> parts, finish |-> finish, usage |-> U(3, o, 0, 0)]
GeminiScripts ==
  {<<Content(<<Part("v")>>, "", 1), Content(<<Part(" w")>>, "STOP", 2)>>,
   <<Content(<<Part("v"), CallPart("g1")>>, "", 0), Content(<<>>, "STOP", 2)>>,
   <<Content(<<CallPart("g1"), CallPart("g2")>>, "STOP", 2)>>}

ChatScripts ==
  {<<[k |-> "role"], [k |-> "text", i |-> 0, d |-> "v"], [k |-> "finish", r |-> "stop"],
     [k |-> "usage", prompt |-> 3, completion |-> 2, total |-> 5], [k |-> "done"]>>,
   <<[k |-> "tool", i |-> 0, id |-> "t1", name |-> "f", args |-> <<"a">>],
     [k |-> "finish", r |-> "tool_calls"], [k |-> "done"]>>}

Scripts == [responses |-> ResponsesScripts, claude |-> ClaudeScripts,
            gemini |-> GeminiScripts, chat |-> ChatScripts]

\* Prices: two providers synchronised from the catalog, one of them under its
\* alias, a wildcard, and overrides for a provider and for one of its keys.
Catalog == "p" :> ("m" :> ("input" :> 2 @@ "output" :> 4 @@ "cache_read" :> 1) @@ "n" :> ("output" :> 1))
           @@ "google" :> ("m" :> ("input" :> 9))
Wildcard == [provider |-> "*", model |-> "m", cost |-> "input" :> 3 @@ "output" :> 5 @@ "cache_write" :> 0]
MCPrices ==
  LoadResolver(SyncPrices(Catalog, {"p", "gemini", "q"}, {}, {}) \cup {Wildcard},
               [providers |-> "p" :> [multiplier |-> 2, models |-> "n" :> ("input" :> 1)],
                channels |-> <<"p", "k">> :> [multiplier |-> 3,
                                              models |-> "m" :> ("output" :> 7 @@ "images" :> 1)]])

\* A key with its own prices, and one of a provider only the wildcard prices,
\* under the name its model is mapped to.
Channel == [on |-> TRUE, prices |-> MCPrices, provider |-> "p", key |-> "k", model |-> "m", mapped |-> "n", flat |-> "images" :> 2]
Mapped  == [on |-> TRUE, prices |-> MCPrices, provider |-> "gemini", key |-> "k", model |-> "", mapped |-> "m", flat |-> "images" :> 2]

Plain == [client |-> TRUE, proto |-> "claude", to |-> "claude", op |-> "none", collect |-> FALSE,
          ops |-> FALSE, metrics |-> TRUE, withCache |-> FALSE, aws |-> FALSE, oauth |-> FALSE,
          dump |-> FALSE, inline |-> FALSE, estimate |-> TRUE, status |-> 200, ct |-> "sse",
          enc |-> "", unterminated |-> FALSE, script |-> <<>>, bill |-> Channel]

\* Streams: every script, passed through or transformed.
Streams ==
  UNION {{[Plain EXCEPT !.proto = p, !.script = s, !.op = o, !.withCache = w, !.ops = w,
                        !.bill = IF o = "none" THEN Channel ELSE Mapped,
                        !.unterminated = (o = "sse_parse")] :
            s \in Scripts[p], o \in {"none", "sse_parse"}, w \in BOOLEAN} : p \in DOMAIN Scripts}

FirstScript(p) == CHOOSE s \in Scripts[p] : TRUE

\* Encoded streams that are passed on, decoded only where the json ops ask it.
Encoded ==
  {[Plain EXCEPT !.proto = p, !.script = FirstScript(p), !.enc = e, !.ops = o, !.estimate = o] :
     p \in DOMAIN Scripts, e \in {"gzip", "br"}, o \in BOOLEAN}

\* One script of each protocol under the other heads and features.
Variants ==
  UNION {{[Plain EXCEPT !.proto = p, !.script = FirstScript(p), !.op = "sse_parse", !.to = "gemini",
                        !.metrics = m, !.dump = ~m, !.oauth = m, !.status = h[1], !.ct = h[2],
                        !.enc = h[3], !.estimate = m, !.bill.on = m] :
            m \in BOOLEAN,
            h \in {<<200, "sse", "gzip">>, <<200, "sse", "br">>, <<429, "json", "">>,
                   <<202, "sse", "">>}} : p \in DOMAIN Scripts}

Bedrock ==
  {[Plain EXCEPT !.script = s, !.op = o, !.aws = TRUE, !.status = h] :
     s \in {FirstScript("claude"), <<[t |-> "message_stop"]>>}, o \in {"none", "sse_parse"},
     h \in {200, 429}}

\* Clients that want one body.
NonStreams ==
  UNION {{[Plain EXCEPT !.proto = p, !.client = FALSE, !.script = s, !.op = o, !.collect = c,
                        !.ct = IF c THEN "sse" ELSE "json", !.ops = f[1], !.inline = f[2],
                        !.dump = f[1], !.enc = e, !.status = h] :
            s \in {FirstScript(p)}, o \in {"none", "resp_map"}, c \in BOOLEAN,
            f \in BOOLEAN \X BOOLEAN, e \in {"", "gzip", "br"}, h \in {200, 429}} : p \in DOMAIN Scripts}

MCExchanges == Streams \cup Encoded \cup Variants \cup Bedrock \cup NonStreams
=============================================================================
