----------------------------- MODULE ImageMaps -----------------------------
(***************************************************************************)
(* req_map and resp_map of images and videos: the requests of the OpenAI   *)
(* images and videos APIs made into those of Gemini, Minimax, Qwen and     *)
(* PPIO, and their answers made into OpenAI's (apitransform, the *_image   *)
(* and *_video files).                                                     *)
(*                                                                         *)
(* A size is a text: <<"1280", "x", "720">> or <<"16:9">>.  A file that    *)
(* req_inline_file put into the document is an object with content_type    *)
(* and b64.  Times and the revised prompt of an image are left out.        *)
(***************************************************************************)
EXTENDS RequestMaps

TextAt(root, k) == LET v == Value(root, k, Str(<<>>)) IN IF v.t = "str" THEN v.s ELSE <<>>
IntAt(root, k) == NumberOf(root, k)

Pixels == "512" :> 512 @@ "576" :> 576 @@ "720" :> 720 @@ "832" :> 832 @@ "864" :> 864 @@ "1000" :> 1000 @@
          "1001" :> 1001 @@ "1024" :> 1024 @@ "1080" :> 1080 @@ "1152" :> 1152 @@ "1248" :> 1248 @@
          "1280" :> 1280 @@ "1344" :> 1344 @@ "1792" :> 1792 @@ "1920" :> 1920 @@ "4096" :> 4096
Dimensions(size) ==
    IF Len(size) = 3 /\ size[2] = "x" /\ {size[1], size[3]} \subseteq DOMAIN Pixels
    THEN <<Pixels[size[1]], Pixels[size[3]]>> ELSE <<>>
\* The ratio a size names or whose documented pixels it has, "" for none.
RatioIn(table, size) ==
    IF Len(size) = 1 THEN IF size[1] \in DOMAIN table THEN size[1] ELSE ""
    ELSE LET S == {r \in DOMAIN table : table[r] = Dimensions(size)} IN IF S = {} THEN "" ELSE CHOOSE r \in S : TRUE
StarForm(size) == [i \in 1..Len(size) |-> IF size[i] = "x" THEN "*" ELSE size[i]]

Answered(v) == Mapped(v)
UpstreamError(code) == Refused(code)
NonBlank(vals) == SelectSeq(vals, LAMBDA v : v.t = "str" /\ v.s # <<>>)
At0(root, path) == GetValuesByPath(root, path).vals
Images(key, vals) == Obj("data" :> Arr([i \in 1..Len(vals) |-> Obj(key :> vals[i])]))

(***************************************************************************)
(* Gemini.                                                                 *)
(***************************************************************************)
GeminiImageAspectRatios ==
    "1:1" :> <<1024, 1024>> @@ "16:9" :> <<1792, 1024>> @@ "9:16" :> <<1024, 1792>> @@ "4:3" :> <<1152, 864>> @@
    "3:4" :> <<864, 1152>> @@ "3:2" :> <<1248, 832>> @@ "2:3" :> <<832, 1248>> @@ "5:4" :> <<1280, 1024>> @@
    "4:5" :> <<1024, 1280>> @@ "21:9" :> <<1344, 576>>
GeminiImageAspectRatio(size) ==
    LET r == RatioIn(GeminiImageAspectRatios, size) IN IF r = "" THEN "1:1" ELSE r

ValidateGeminiImageOptions(root) ==
    LET size == TextAt(root, "size")
        quality == NameOf(root, "quality")
    IN  /\ TextAt(root, "prompt") # <<>>
        /\ IntAt(root, "n") <= 1
        /\ NameOf(root, "response_format") # "url"
        /\ IF IsGemini3Model(NameOf(root, "model"))
           THEN /\ size # <<>> => RatioIn(GeminiImageAspectRatios, size) # ""
                /\ quality \in {"", "standard", "hd"}
           ELSE size = <<>> /\ quality = ""

GeminiImageSize(root) ==
    IF NameOf(root, "quality") # "hd" THEN "1K"
    ELSE IF NameOf(root, "model") = "gemini-3-pro-image" THEN "4K" ELSE "2K"

\* The generation settings that images and edits share.
GeminiImageConfig(root) ==
    (IF IntAt(root, "n") > 0 THEN "candidate_count" :> Num(IntAt(root, "n")) ELSE NoFields) @@
    (IF IsGemini3Model(NameOf(root, "model"))
     THEN "response_modalities" :> Strs(<<"TEXT", "IMAGE">>) @@
          "aspect_ratio" :> Str(<<GeminiImageAspectRatio(TextAt(root, "size"))>>) @@
          "image_size" :> Str(<<GeminiImageSize(root)>>)
     ELSE NoFields)

MapOpenAIImagesToGemini(root) ==
    IF ~ValidateGeminiImageOptions(root) THEN Refused("client")
    ELSE Mapped(Obj("parts" :> Arr(<<Str(TextAt(root, "prompt"))>>) @@ GeminiImageConfig(root)))

\* inlineFilesAt: entries without content are skipped.
InlineFilesAt(root, field) ==
    LET v == Value(root, field, Arr(<<>>))
    IN  IF v.t # "arr" THEN <<>>
        ELSE SelectSeq(v.e, LAMBDA x : Has(x, "b64") /\ x.f["b64"].t = "str" /\ x.f["b64"].s # <<>>)

MaskInstruction == Str(<<"Use the provided mask">>)
MapOpenAIImagesEditsToGemini(root) ==
    LET images == InlineFilesAt(root, "image")
        masks == InlineFilesAt(root, "mask")
    IN  IF images = <<>> \/ ~ValidateGeminiImageOptions(root) THEN Refused("client")
        ELSE Mapped(Obj("parts" :> Arr(images \o
                            (IF masks = <<>> THEN <<>> ELSE <<masks[1], MaskInstruction>>) \o
                            <<Str(TextAt(root, "prompt"))>>) @@ GeminiImageConfig(root)))

\* mapGeminiImageUsageToOpenAI: what the total has over the prompt was the answer.
MapGeminiImageUsage(u) ==
    LET prompt == IntAt(u, "promptTokenCount")
        total == IntAt(u, "totalTokenCount")
        image == SelectSeq(At0(u, <<"$", "candidatesTokensDetails", Star>>),
                           LAMBDA d : Has(d, "modality") /\ d.f["modality"] = Str(<<"IMAGE">>))
        Positive(k, n) == IF n > 0 THEN k :> Num(n) ELSE NoFields
    IN  Obj("prompt_tokens" :> Num(prompt) @@ "completion_tokens" :> Num(MaxOf(total - prompt, 0)) @@
            "total_tokens" :> Num(total) @@
            Positive("image_tokens", IF image = <<>> THEN 0 ELSE IntAt(image[1], "tokenCount")) @@
            Positive("reasoning_tokens", IntAt(u, "thoughtsTokenCount")))

MapGeminiToOpenAIImages(root) ==
    LET data == NonBlank(At0(root, <<"$", "candidates", Star, "content", "parts", Star, "inlineData", "data">>))
        usage == Value(root, "usageMetadata", Null)
    IN  IF At0(root, <<"$", "candidates", Star>>) = <<>> THEN UpstreamError("upstream_no_candidates")
        ELSE IF data = <<>> THEN UpstreamError("upstream_no_image")
        ELSE Answered(Obj(Images("b64_json", data).f @@
                          IF usage.t = "obj" THEN "usage" :> MapGeminiImageUsage(usage) ELSE NoFields))

(***************************************************************************)
(* Minimax.                                                                *)
(***************************************************************************)
MinimaxImageAspectRatioSizes ==
    "1:1" :> <<1024, 1024>> @@ "16:9" :> <<1280, 720>> @@ "4:3" :> <<1152, 864>> @@ "3:2" :> <<1248, 832>> @@
    "2:3" :> <<832, 1248>> @@ "3:4" :> <<864, 1152>> @@ "9:16" :> <<720, 1280>> @@ "21:9" :> <<1344, 576>>
MinimaxImageValidDimension(n) == n \in 512..2048 /\ n % 8 = 0

\* minimaxImageSize: a ratio, or a width and a height.
MinimaxImageSize(size) ==
    LET ratio == IF size = <<>> THEN "1:1" ELSE RatioIn(MinimaxImageAspectRatioSizes, size)
        wh == Dimensions(size)
    IN  IF ratio # "" THEN Mapped("aspect_ratio" :> Str(<<ratio>>))
        ELSE IF wh = <<>> \/ ~(MinimaxImageValidDimension(wh[1]) /\ MinimaxImageValidDimension(wh[2]))
             THEN Refused("client")
        ELSE Mapped("width" :> Num(wh[1]) @@ "height" :> Num(wh[2]))

MinimaxImageResponseFormat(f) == CASE f = "" -> "url"
                                   [] f \in {"b64_json", "base64"} -> "base64"
                                   [] OTHER -> f
AtLeastOne(n) == IF n <= 0 THEN 1 ELSE n
SeedOf(root) == IF CoerceFloatOK(Value(root, "seed", Null)) THEN "seed" :> Num(IntAt(root, "seed")) ELSE NoFields

MapOpenAIImagesToMinimax(root) ==
    LET size == MinimaxImageSize(TextAt(root, "size"))
    IN  IF ~size.ok THEN size
        ELSE Mapped(Obj(size.v @@ "model" :> Str(TextAt(root, "model")) @@ "prompt" :> Str(TextAt(root, "prompt")) @@
                        "response_format" :> Str(<<MinimaxImageResponseFormat(NameOf(root, "response_format"))>>) @@
                        "n" :> Num(AtLeastOne(IntAt(root, "n"))) @@ SeedOf(root) @@
                        (IF Value(root, "watermark", Null).t = "bool" THEN Copy(root, "watermark", "aigc_watermark")
                         ELSE NoFields)))

\* minimaxImageBaseRespError: a failure inside an answer with status 200.
MinimaxImageBaseRespError(root) ==
    LET codes == At0(root, <<"$", "base_resp", "status_code">>)
    IN  codes # <<>> /\ CoerceFloat(codes[1]) # 0

MapMinimaxToOpenAIImages(root) ==
    LET b64 == NonBlank(At0(root, <<"$", "data", "image_base64", Star>>))
        urls == NonBlank(At0(root, <<"$", "data", "image_urls", Star>>))
    IN  IF MinimaxImageBaseRespError(root) THEN UpstreamError("minimax_code")
        ELSE IF b64 # <<>> THEN Answered(Images("b64_json", b64))
        ELSE IF urls # <<>> THEN Answered(Images("url", urls))
        ELSE UpstreamError("upstream_no_image")

(***************************************************************************)
(* Qwen.                                                                   *)
(***************************************************************************)
QwenImageNormalizeSize(size) == IF size = <<>> THEN <<"1328", "*", "1328">> ELSE StarForm(size)
BoolOrDefault(root, k, default) == LET v == Value(root, k, Null) IN IF v.t = "bool" THEN v ELSE Bool(default)

MapOpenAIImagesToQwen(root) ==
    Mapped(Obj("model" :> Str(TextAt(root, "model")) @@ "prompt" :> Str(TextAt(root, "prompt")) @@
               "size" :> Str(QwenImageNormalizeSize(TextAt(root, "size"))) @@
               "n" :> Num(AtLeastOne(IntAt(root, "n"))) @@
               "prompt_extend" :> BoolOrDefault(root, "prompt_extend", TRUE) @@
               "watermark" :> BoolOrDefault(root, "watermark", FALSE) @@
               (IF TextAt(root, "negative_prompt") = <<>> THEN NoFields
                ELSE Copy(root, "negative_prompt", "negative_prompt")) @@ SeedOf(root)))

QwenImageBusinessError(root) == TextAt(root, "code") # <<>>
MapQwenToOpenAIImages(root) ==
    LET urls == NonBlank(At0(root, <<"$", "output", "choices", Star, "message", "content", Star, "image">>))
    IN  IF QwenImageBusinessError(root) THEN UpstreamError("qwen_code")
        ELSE IF urls = <<>> THEN UpstreamError("upstream_no_image")
        ELSE Answered(Images("url", urls))

(***************************************************************************)
(* PPIO video: a task is made, and then polled.                            *)
(***************************************************************************)
PPIOResolutionFromSize(size) == IF Contains(size, "1080") THEN "1080p" ELSE "720p"
PPIODurationSeconds(text) == IF text \in DOMAIN Numerals THEN Numerals[text] ELSE 0

MapOpenAIVideosToPPIO(root) ==
    LET duration == PPIODurationSeconds(TextAt(root, "seconds"))
        size == StarForm(TextAt(root, "size"))
        reference == InlineFilesAt(root, "input_reference")
    IN  IF \E k \in {"prompt", "seconds", "size"} : TextAt(root, k) = <<>> THEN Refused("client")
        ELSE Mapped(Obj("prompt" :> Str(TextAt(root, "prompt")) @@
                        (IF duration > 0 THEN "duration" :> Num(duration) ELSE NoFields) @@
                        (IF reference = <<>> THEN "size" :> Str(size)
                         ELSE "image" :> reference[1] @@ "resolution" :> Str(<<PPIOResolutionFromSize(size)>>))))

Video(status) == "object" :> Str(<<"video">>) @@ "status" :> Str(<<status>>)
MapPPIOVideoCreate(root) ==
    IF TextAt(root, "task_id") = <<>> THEN UpstreamError("upstream_missing_task_id")
    ELSE Answered(Obj(Video("queued") @@ "id" :> Str(TextAt(root, "task_id")) @@ "progress" :> Num(0)))

PPIOTaskStatus == "TASK_STATUS_SUCCEED" :> "completed" @@ "TASK_STATUS_FAILED" :> "failed" @@
                  "TASK_STATUS_PROCESSING" :> "in_progress" @@ "TASK_STATUS_QUEUED" :> "queued"
Clamp100(n) == IF n < 0 THEN 0 ELSE IF n > 100 THEN 100 ELSE n

MapPPIOVideoResult(root) ==
    LET task == Value(root, "task", Null)
        status == PPIOTaskStatus[NameOf(task, "status")]
        progress == "progress" :> Num(Clamp100(IntAt(task, "progress_percent")))
        videos == At0(root, <<"$", "videos", Star>>)
        url == TextAt(videos[1], "video_url")
        reason == TextAt(task, "reason")
    IN  IF task.t # "obj" THEN UpstreamError("upstream_missing_task")
        ELSE IF TextAt(task, "task_id") = <<>> THEN UpstreamError("upstream_missing_task_id")
        ELSE IF NameOf(task, "status") \notin DOMAIN PPIOTaskStatus THEN UpstreamError("upstream_unknown_task_status")
        ELSE IF status = "failed"
             THEN Answered(Obj(Video(status) @@ progress @@
                               IF reason = <<>> THEN NoFields ELSE "error" :> Str(reason)))
        ELSE IF status # "completed" THEN Answered(Obj(Video(status) @@ progress))
        ELSE IF videos = <<>> THEN UpstreamError("upstream_missing_video")
        ELSE IF url = <<>> THEN UpstreamError("upstream_missing_video")
        ELSE Answered(Obj(Video(status) @@ "progress" :> Num(100) @@ "video_url" :> Str(url) @@
                          "ttl" :> Num(CoerceFloat(Value(videos[1], "video_url_ttl", Num(0))))))

\* MapResponseObjectByMode, the modes of images and videos.
MapImageResponse(mode, root) ==
    CASE mode = "gemini_to_openai_images" -> MapGeminiToOpenAIImages(root)
      [] mode = "minimax_image_to_openai_images" -> MapMinimaxToOpenAIImages(root)
      [] mode = "qwen_image_to_openai_images" -> MapQwenToOpenAIImages(root)
      [] mode = "ppio_video_create_to_openai_videos" -> MapPPIOVideoCreate(root)
      [] mode = "ppio_video_result_to_openai_videos" -> MapPPIOVideoResult(root)
=============================================================================
