------------------------------ MODULE DslExpr ------------------------------
(***************************************************************************)
(* The string expressions of a provider file: what the validator accepts   *)
(* (validate_routing.go, expr_if_present.go) and what a request evaluates  *)
(* (routing.go).  The two walk the same text independently.                *)
(*                                                                         *)
(* An expression is the sequence of tokens between a directive and its     *)
(* semicolon.  A token is [k |-> kind, t |-> text]; the text is a sequence *)
(* of atoms, so that "starts with /" or "contains a placeholder" can be    *)
(* asked of it: the path literal "/v1/${request.model}" is                 *)
(* <<"/", "v1", "${", "request.model", "}">>.                              *)
(***************************************************************************)
EXTENDS Integers, Sequences, SequencesExt

Builtins == {"channel.base_url", "channel.key", "channel.location", "credential.project_id",
             "oauth.access_token", "request.model", "request.model_mapped", "task.id",
             "task.upstream_id"}

NumberVariables == {"model_channel.max_price.prompt", "model_channel.max_price.completion",
                    "model_channel.max_price.request", "model_channel.max_price.image"}

Text(e) == FlattenSeq([i \in 1..Len(e) |-> e[i].t])

IsPunct(tok, c) == tok.k = "other" /\ tok.t = <<c>>

\* isQuotedStringExpr looks at the first and the last character only.
IsQuoted(e) == e # <<>> /\ e[1].k = "string" /\ e[Len(e)].k = "string"

\* The scanner splits $channel.key into "$" and an identifier.
IsVariable(e, names) == /\ Len(e) = 2
                        /\ IsPunct(e[1], "$")
                        /\ e[2].k = "ident"
                        /\ e[2].t[1] \in names

IsCall(e, f) == /\ Len(e) >= 3
                /\ e[1].k = "ident" /\ e[1].t = <<f>>
                /\ IsPunct(e[2], "(")
                /\ IsPunct(e[Len(e)], ")")

SplitTopLevelArgs(s) ==
    LET Flush(st) == IF st.cur = <<>> THEN st
                     ELSE [st EXCEPT !.parts = Append(@, st.cur), !.cur = <<>>]
        Take(st, tok) == [st EXCEPT !.cur = Append(@, tok)]
        Step(st, tok) ==
            IF IsPunct(tok, "(") THEN [Take(st, tok) EXCEPT !.depth = @ + 1]
            ELSE IF IsPunct(tok, ")")
                 THEN [Take(st, tok) EXCEPT !.depth = IF @ > 0 THEN @ - 1 ELSE 0]
            ELSE IF IsPunct(tok, ",") /\ st.depth = 0 THEN Flush(st)
            ELSE Take(st, tok)
    IN  Flush(FoldLeft(Step, [depth |-> 0, cur |-> <<>>, parts |-> <<>>], s)).parts

CallArgs(e) == SplitTopLevelArgs(SubSeq(e, 3, Len(e) - 1))

StartsWith(text, atom) == text # <<>> /\ text[1] = atom

(***************************************************************************)
(* The validator.                                                          *)
(***************************************************************************)
\* Mutant: a placeholder may name anything.
AnyPlaceholder(text) ==
    \A i \in 1..Len(text) : text[i] = "${" => \E j \in i + 1..Len(text) : text[j] = "}"

\* validateTemplateString: every placeholder is closed and names a variable.
ValidTemplateString(text) ==
    \A i \in 1..Len(text) : text[i] = "${" =>
        /\ \E j \in i + 1..Len(text) : text[j] = "}"
        /\ i + 2 <= Len(text) /\ text[i + 1] \in Builtins /\ text[i + 2] = "}"

OnlyQuoted(args) == IF Len(args) = 1 /\ IsQuoted(args[1]) THEN args[1] ELSE <<>>
TemplateArg(e) == OnlyQuoted(CallArgs(e))

\* validateTemplateExpr, of the argument; how its text begins is the caller's check.
ValidTemplateArg(arg) == arg # <<>> /\ ValidTemplateString(Text(arg))

ValidIfPresentArgs(args) == Len(args) = 3 /\ IsQuoted(args[1]) /\ StartsWith(Text(args[1]), "$")

RECURSIVE ValidateStringExpr(_)
ValidateStringExpr(e) ==
    LET AllValid(args, from) == \A i \in from..Len(args) : ValidateStringExpr(args[i])
        IfPresent(args) == ValidIfPresentArgs(args) /\ AllValid(args, 2)
        Concat(args) == args # <<>> /\ AllValid(args, 1)
    IN  \/ IsQuoted(e)
        \/ IsVariable(e, Builtins)
        \/ IsCall(e, "if_present") /\ IfPresent(CallArgs(e))
        \/ IsCall(e, "concat") /\ Concat(CallArgs(e))
        \/ IsCall(e, "template") /\ ValidTemplateArg(TemplateArg(e))

RestValid(args) == args # <<>> /\ \A i \in 2..Len(args) : ValidateStringExpr(args[i])
ValidPathLiteral(text) == StartsWith(text, "/")

RECURSIVE ValidateSetPathExpr(_)
ValidateSetPathExpr(e) ==
    LET IfPresent(args) == ValidIfPresentArgs(args) /\ \A i \in 2..3 : ValidateSetPathExpr(args[i])
        Concat(args) == RestValid(args) /\ ValidateSetPathExpr(args[1])
    IN  IF e = <<>> THEN FALSE
        ELSE IF IsQuoted(e) THEN ValidPathLiteral(Text(e))
        ELSE IF StartsWith(Text(e), "/") THEN ~Contains(Text(e), "$") /\ ~Contains(Text(e), "${")
        ELSE IF IsCall(e, "if_present") THEN IfPresent(CallArgs(e))
        ELSE IF IsCall(e, "concat") THEN Concat(CallArgs(e))
        ELSE /\ IsCall(e, "template")
             /\ ValidTemplateArg(TemplateArg(e))
             /\ ValidPathLiteral(Text(TemplateArg(e)))

\* ValidatePathOrURLExpr: as above, with absolute URLs allowed and no if_present.
IsURLOrPath(text) == StartsWith(text, "/") \/ StartsWith(text, "http://") \/ StartsWith(text, "https://")

RECURSIVE ValidatePathOrURLExpr(_)
ValidatePathOrURLExpr(e) ==
    LET Concat(args) == RestValid(args) /\ ValidatePathOrURLExpr(args[1])
    IN  IF e = <<>> THEN FALSE
        ELSE IF IsQuoted(e) THEN IsURLOrPath(Text(e))
        ELSE IF IsURLOrPath(Text(e)) THEN ~Contains(Text(e), "$") /\ ~Contains(Text(e), "${")
        ELSE IF IsCall(e, "concat") THEN Concat(CallArgs(e))
        ELSE /\ IsCall(e, "template")
             /\ ValidTemplateArg(TemplateArg(e))
             /\ IsURLOrPath(Text(TemplateArg(e)))

IsNumberLiteral(e) == Len(e) = 1 /\ e[1].k = "number"

ValidateJSONValueExpr(e) ==
    \/ Len(e) = 1 /\ e[1].k = "ident" /\ e[1].t[1] \in {"true", "false", "null"}
    \/ IsQuoted(e)
    \/ IsNumberLiteral(e)
    \/ IsVariable(e, NumberVariables)
    \/ ValidateStringExpr(e)

\* validateBedrockRuntimePathExpr: the kind of call a path stands for.
BedrockPathKind(e) ==
    LET text == IF IsCall(e, "template") /\ ~IsQuoted(e) THEN Text(TemplateArg(e)) ELSE Text(e)
        n == Len(text)
    IN  IF (IsCall(e, "template") /\ ~ValidTemplateArg(TemplateArg(e))) \/ ~StartsWith(text, "/") THEN "error"
        ELSE IF n < 2 \/ text[2] # "model" THEN "http-passthrough"
        ELSE CASE n >= 4 /\ text[n] = "invoke-with-response-stream" -> "stream"
               [] n >= 4 /\ text[n] = "invoke" -> "invoke"
               [] OTHER -> "error"

(***************************************************************************)
(* The evaluator.  meta.vars gives the builtins their text (<<>> is the    *)
(* empty string), meta.body the paths at which the request carries a       *)
(* value, meta.files the uploaded form fields.  A result is                *)
(* [ok |-> BOOLEAN, v |-> text, why |-> "" | "empty" | "form"]; strict     *)
(* stands for requireNonEmptyVariables.                                    *)
(***************************************************************************)
Fine(v) == [ok |-> TRUE, v |-> v, why |-> ""]
Failed(why) == [ok |-> FALSE, v |-> <<>>, why |-> why]

\* $request.model_mapped falls back on the model the client asked for.
EvalVariable(name, meta) ==
    IF name = "request.model_mapped" /\ meta.vars[name] = <<>>
    THEN meta.vars["request.model"] ELSE meta.vars[name]

Then(v, rest) == IF rest.ok THEN Fine(v \o rest.v) ELSE rest
Variable(value, strict) == IF strict /\ value = <<>> THEN Failed("empty") ELSE Fine(value)

\* A placeholder: inner is what stands between the braces.
Placeholder(inner, meta, strict) ==
    IF Len(inner) = 1 /\ inner[1] \in Builtins THEN Variable(EvalVariable(inner[1], meta), strict)
    ELSE IF strict THEN Failed("form") ELSE Fine(<<>>)
Ahead(r, rest) == IF r.ok THEN Then(r.v, rest) ELSE r

EvalTemplateString(text, meta, strict) ==
    LET Closed(i) == \E j \in i + 1..Len(text) : text[j] = "}"
        Close(i) == CHOOSE j \in i + 1..Len(text) : text[j] = "}" /\ \A k \in i + 1..j - 1 : text[k] # "}"
        Eval[i \in 1..Len(text) + 1] ==
            IF i > Len(text) THEN Fine(<<>>)
            ELSE IF text[i] # "${" THEN Then(<<text[i]>>, Eval[i + 1])
            ELSE IF ~Closed(i) THEN Fine(SubSeq(text, i, Len(text)))
            ELSE Ahead(Placeholder(SubSeq(text, i + 1, Close(i) - 1), meta, strict), Eval[Close(i) + 1])
    IN  Eval[1]

\* Mutant: uploads are forgotten.
PathInBody(text, meta) == text \in meta.body

\* requestPathPresent: content in the request root, or an upload of that name.
PathPresent(text, meta) == \/ text \in meta.body
                           \/ Len(text) = 2 /\ text[1] = "$" /\ text[2] \in meta.files

\* The branch if_present takes, none when the call is malformed.
ChosenBranch(args, meta) == IF Len(args) # 3 \/ ~IsQuoted(args[1]) \/ Text(args[1]) = <<>> THEN <<>>
                            ELSE IF PathPresent(Text(args[1]), meta) THEN <<args[2]>> ELSE <<args[3]>>
Only(parts) == IF parts = <<>> THEN Failed("form") ELSE parts[1]
JoinParts(parts) == LET bad == SelectInSeq(parts, LAMBDA p : ~p.ok)
                    IN  IF bad # 0 THEN parts[bad] ELSE Fine(FlattenSeq([i \in 1..Len(parts) |-> parts[i].v]))

RECURSIVE EvalStringExpr(_, _, _)
EvalStringExpr(e, meta, strict) ==
    LET Parts(args) == [i \in 1..Len(args) |-> EvalStringExpr(args[i], meta, strict)]
    IN  IF e = <<>> THEN Fine(<<>>)
        ELSE IF IsCall(e, "template")
             THEN IF TemplateArg(e) = <<>> THEN Fine(Text(e))
                  ELSE EvalTemplateString(Text(TemplateArg(e)), meta, strict)
        ELSE IF IsCall(e, "if_present") THEN Only(Parts(ChosenBranch(CallArgs(e), meta)))
        ELSE IF IsCall(e, "concat") THEN JoinParts(Parts(CallArgs(e)))
        ELSE IF IsQuoted(e) THEN Fine(Text(e))
        ELSE IF IsVariable(e, Builtins) THEN Variable(EvalVariable(e[2].t[1], meta), strict)
        ELSE Fine(Text(e))
=============================================================================
