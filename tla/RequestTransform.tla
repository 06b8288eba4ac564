-------------------------- MODULE RequestTransform --------------------------
(***************************************************************************)
(* A client's request on its way to the upstream: read once                *)
(* (requestcanon.Inspect), its uploads put into the document, checked,     *)
(* rewritten and mapped (requesttransform.Apply).                          *)
(*                                                                         *)
(* A body is [k |-> "json", v |-> value], [k |-> "multipart", parts |->    *)
(* parts], or [k |-> "empty"] and [k |-> "bytes"] (neither of the two).  A *)
(* part is [name, file, declared, ext, sniffed, text]: file is the file    *)
(* name ("" for a form field), declared, ext and sniffed the media types   *)
(* its header, its file name and its bytes suggest ("" for none), and text *)
(* the content, one atom a byte.  The root is Missing or Found(object).    *)
(***************************************************************************)
EXTENDS DslSelect, ImageMaps

CONSTANT FieldLimit    \* multipartFieldValueLimit

ASSUME FieldLimitAssumption == FieldLimit \in Nat

IsMultipart(type) == type = "multipart/form-data"
DeclaresJSON(type) == type = "application/json"
AllowNonJSONRequestBodyAPI(api) == api \in {<<"images.edits">>, <<"audio.transcriptions">>, <<"audio.translations">>}

(***************************************************************************)
(* Inspect.                                                                *)
(***************************************************************************)
Snapshot(root, model, stream, files) ==
    [ok |-> TRUE, root |-> root, model |-> model, stream |-> stream, files |-> files]
Unreadable == [ok |-> FALSE, root |-> Missing, model |-> <<>>, stream |-> FALSE, files |-> {}]
Nothing == Snapshot(Missing, <<>>, FALSE, {})

IsFile(p) == p.file # ""
Fields(parts) == SelectSeq(parts, LAMBDA p : ~IsFile(p) /\ p.name # "")
Named(parts, name) == SelectSeq(parts, LAMBDA p : p.name = name)

\* multipartValuesRoot: one value is a string, several are a list of strings.
MultipartValuesRoot(fields) ==
    LET Value1(n) == LET ps == Named(fields, n)
                     IN  IF Len(ps) = 1 THEN Str(ps[1].text) ELSE Arr([i \in 1..Len(ps) |-> Str(ps[i].text)])
        names == {fields[i].name : i \in 1..Len(fields)}
    IN  IF names = {} THEN Missing ELSE Found(Obj([n \in names |-> Value1(n)]))

ParseBool == <<"true">> :> TRUE @@ <<"1">> :> TRUE @@ <<"false">> :> FALSE @@ <<"0">> :> FALSE

\* inspectMultipartBody: contents of files are dropped, their field names are kept.
InspectMultipart(parts) ==
    LET fields == Fields(parts)
        models == Named(fields, "model")
        streams == SelectSeq(Named(fields, "stream"), LAMBDA p : p.text # <<>>)
    IN  IF \/ \E i \in 1..Len(fields) : Len(fields[i].text) > FieldLimit
           \/ \E i \in 1..Len(streams) : streams[i].text \notin DOMAIN ParseBool
        THEN Unreadable
        ELSE Snapshot(MultipartValuesRoot(fields),
                      IF models = <<>> THEN <<>> ELSE models[Len(models)].text,
                      streams # <<>> /\ ParseBool[streams[Len(streams)].text],
                      {parts[i].name : i \in {j \in 1..Len(parts) : IsFile(parts[j]) /\ parts[j].name # ""}})

Inspect(body, type, allowNonJSON) ==
    IF body.k = "empty" THEN Nothing
    ELSE IF IsMultipart(type) THEN IF body.k = "multipart" THEN InspectMultipart(body.parts) ELSE Unreadable
    ELSE IF body.k # "json" THEN IF allowNonJSON /\ ~DeclaresJSON(type) THEN Nothing ELSE Unreadable
    ELSE IF body.v.t # "obj" THEN Nothing
    ELSE LET model == Value(body.v, "model", Str(<<>>))
             stream == Value(body.v, "stream", Bool(FALSE))
         IN  Snapshot(Found(body.v), IF model.t = "str" THEN model.s ELSE <<>>,
                      stream.t = "bool" /\ stream.b, {})

(***************************************************************************)
(* req_inline_file.                                                        *)
(***************************************************************************)
OctetStream == "application/octet-stream"
FilePartContentType(p) ==
    IF p.declared \notin {"", OctetStream} THEN p.declared
    ELSE IF p.ext # "" THEN p.ext
    ELSE IF p.text # <<>> /\ p.sniffed \notin {"", OctetStream} THEN p.sniffed
    ELSE OctetStream

\* The rules of one field, the tightest bound of each kind; 0 files is no bound.
Tightest(rules, field, bound, default) ==
    LET own == SelectSeq(rules, LAMBDA r : Opt(r.a[1], "field") = <<field>>)
        Bound(r) == Number(r.a[1], bound, default)
    IN  Min({Bound(own[i]) : i \in 1..Len(own)})
WantedFields(rules) == {Opt(rules[i].a[1], "field")[1] : i \in 1..Len(rules)}

\* ExtractMultipartFiles, field name to files; and what is refused of them.
WantedFiles(parts, rules) == SelectSeq(parts, LAMBDA p : IsFile(p) /\ p.name \in WantedFields(rules))
DefaultInlineMaxBytes == 20971520
DefaultInlineMaxCount == 4
FilesFit(parts, rules) ==
    LET files == WantedFiles(parts, rules)
    IN  \A f \in {files[i].name : i \in 1..Len(files)} :
            LET own == Named(files, f)
                most == Tightest(rules, f, "max_count", DefaultInlineMaxCount)
            IN  /\ most > 0 => Len(own) <= most
                /\ \A i \in 1..Len(own) : Len(own[i].text) <= Tightest(rules, f, "max_bytes", DefaultInlineMaxBytes)

\* base64 keeps the bytes, and keeps nothing of none.
EncodeToString(bytes) == IF bytes = <<>> THEN <<>> ELSE <<"b64:">> \o bytes
InlineEntry(p) == Obj("filename" :> Str(<<p.file>>) @@ "content_type" :> Str(<<FilePartContentType(p)>>) @@
                      "b64" :> Str(EncodeToString(p.text)))

\* applyInlineFiles: the field of an upload becomes the list of its files.
ApplyInlineFiles(rules, body, type, root) ==
    IF rules = <<>> \/ ~IsMultipart(type) \/ body.k # "multipart" THEN Mapped(root)
    ELSE IF ~FilesFit(body.parts, rules) THEN Refused("client")
    ELSE LET files == WantedFiles(body.parts, rules)
             names == {files[i].name : i \in 1..Len(files)}
             Entries(n) == LET own == Named(files, n) IN Arr([i \in 1..Len(own) |-> InlineEntry(own[i])])
         IN  IF names = {} THEN Mapped(root)
             ELSE Mapped(Found(Obj([n \in names |-> Entries(n)] @@ (IF root.ok THEN root.v.f ELSE NoFields))))

(***************************************************************************)
(* req_map.                                                                *)
(***************************************************************************)
ApplyReqMapObject(mode, root) ==
    CASE mode = "openai_chat_to_openai_responses" -> MapOpenAIToResponses(root)
      [] mode = "openai_chat_to_anthropic_messages" -> MapOpenAIToClaude(root)
      [] mode = "openai_chat_to_gemini_generate_content" -> MapOpenAIToGemini(root)
      [] mode = "openai_videos_to_ppio" -> MapOpenAIVideosToPPIO(root)
      [] mode = "openai_images_to_qwen_image" -> MapOpenAIImagesToQwen(root)
      [] mode = "openai_images_to_minimax_image" -> MapOpenAIImagesToMinimax(root)
      [] mode = "openai_images_to_gemini_generate_content" -> MapOpenAIImagesToGemini(root)
      [] mode = "openai_images_edits_to_gemini_generate_content" -> MapOpenAIImagesEditsToGemini(root)
      [] mode = "anthropic_to_openai_chat" -> MapClaudeToOpenAI(root)
      [] mode = "gemini_to_openai_chat" -> MapGeminiToOpenAI(root)

\* parseReqMapInputObject: the body is parsed again when there is no root.
ParseReqMapInputObject(body) == IF body.k = "json" /\ body.v.t = "obj" THEN Found(body.v) ELSE Missing

ApplyReqMap(mode, body, root, encoding) ==
    LET given == IF root.ok THEN root ELSE ParseReqMapInputObject(body)
    IN  IF encoding \notin {"", "identity"} \/ ~given.ok THEN Refused("form")
        ELSE ApplyReqMapObject(mode, given.v)

(***************************************************************************)
(* Apply.  request is [body, type, root, encoding, query].                 *)
(***************************************************************************)
JsonBody(v) == [k |-> "json", v |-> v]
\* marshalBody: an upload is forwarded as it came.
MarshalBody(body, root, type) == IF ~root.ok \/ IsMultipart(type) THEN body ELSE JsonBody(root.v)

\* seen is the client's document as later phases read it: the rules change it in place,
\* and what a request without one had made for it they do not see.
Outgoing(body, root, type, seen) ==
    [ok |-> TRUE, why |-> "", body |-> body, root |-> root, type |-> type, seen |-> seen]
Stopped(why) ==
    [ok |-> FALSE, why |-> why, body |-> [k |-> "empty"], root |-> Missing, type |-> "", seen |-> Missing]

ReplaceModel(root, mapped) ==
    IF root.ok /\ mapped # <<>> /\ Has(root.v, "model") THEN Found(Obj(("model" :> Str(mapped)) @@ root.v.f)) ELSE root

RunOps(meta, root, ops) == IF root.ok THEN ApplyJSONOps(meta, root.v, ops) ELSE [v |-> Null, err |-> FALSE]
After(root, r) == IF root.ok THEN Found(r.v) ELSE root

RequestSeen(request, root) == IF request.root.ok THEN root ELSE Missing
AsRoot(map) == IF map.ok THEN Mapped(Found(map.v)) ELSE map
MapsBody(t) == Get(t, "req_map", <<>>) # <<>>

\* Without a mapping the body is written again only when something may have changed.
Rewritten(request, t, mapped, root) ==
    LET same == ReplaceModel(request.root, mapped) = request.root /\ ~Given(t, "ops") /\ ~Given(t, "after_ops")
    IN  Outgoing(IF same THEN request.body ELSE MarshalBody(request.body, root, request.type),
                 root, request.type, RequestSeen(request, root))
MappedBody(request, root, v) ==
    Outgoing(JsonBody(v), Found(v), IF IsMultipart(request.type) THEN "application/json" ELSE request.type,
             RequestSeen(request, root))

\* The late rules are over; the mapping is; the early rules are; the uploads are in.
AfterLateOps(request, t, mapped, root, r) ==
    IF r.err THEN Stopped("form")
    ELSE IF MapsBody(t) THEN MappedBody(request, root, r.v)
    ELSE Rewritten(request, t, mapped, After(root, r))
AfterMap(meta, request, t, mapped, root, map) ==
    IF ~map.ok THEN Stopped(map.why)
    ELSE AfterLateOps(request, t, mapped, root, RunOps(meta, map.v, Get(t, "after_ops", <<>>)))
ApplyMap(meta, request, t, mapped, root) ==
    AfterMap(meta, request, t, mapped, root,
             IF MapsBody(t) THEN AsRoot(ApplyReqMap(t["req_map"][1], request.body, root, request.encoding))
             ELSE Mapped(root))
AfterOps(meta, request, t, mapped, root, r) ==
    IF r.err THEN Stopped("form") ELSE ApplyMap(meta, request, t, mapped, After(root, r))
AfterInline(meta, request, t, mapped, inlined) ==
    IF ~inlined.ok THEN Stopped(inlined.why)
    ELSE IF Validate(Get(t, "rules", <<>>), inlined.v, meta.headers,
                     [k \in DOMAIN request.query |-> <<request.query[k]>>]) # 0 THEN Stopped("client")
    ELSE AfterOps(meta, request, t, mapped, inlined.v, RunOps(meta, inlined.v, Get(t, "ops", <<>>)))

Apply(meta, request, t, mapped) ==
    AfterInline(meta, request, t, mapped,
                ApplyInlineFiles(Get(t, "inline_files", <<>>), request.body, request.type,
                                 ReplaceModel(request.root, mapped)))
=============================================================================
