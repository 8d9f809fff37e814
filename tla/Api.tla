---- MODULE Api ----
(***************************************************************************)
(* The endpoints (api_v1.c, api.c) from the routed request to the bytes handed *)
(* to TCP: the guards, the parsing of the body (JsonReader), the response  *)
(* written by the JSON writer of json.c, and http_generate_response.  A    *)
(* handler is a sequence of writer calls whose results it ignores; a call  *)
(* is a sequence of write_raw pieces that stops at the first one that does *)
(* not fit.  The endpoints of api.c answer with a text of their own.       *)
(* Lengths are in bytes, those of the code.                                *)
(***************************************************************************)
EXTENDS JsonReader

CONSTANTS
    BodySize,      \* HTTP_RESPONSE_BODY_SIZE
    MaxSegment,    \* the longest payload net_send_tcp accepts
    TextSize,      \* MAX_PROMPT_LENGTH
    TokenCounts,   \* how many tokens a tokenized or detokenized text has
    Digits,        \* how many digits the token counts of a response have
    MemoryTexts    \* how long a string read at an arbitrary address may be

ASSUME ApiAssumption ==
    /\ {BodySize, MaxSegment, TextSize} \subseteq Nat \ {0}
    /\ TokenCounts \subseteq Nat \ {0} /\ Digits \subseteq Nat \ {0}
    /\ MemoryTexts \subseteq Nat

VARIABLES
    model_loaded, request_counter,   \* g_api_ctx
    stage,      \* where the request is
    status,     \* response->status_code
    todo,       \* the writer calls still to come, each a sequence of pieces
    w, body,    \* the writer, and what it has written
    sent        \* what became of the response

wvars == <<status, todo, w, body, sent>>
avars == <<rvars, wvars, model_loaded, request_counter, stage>>

----
(* The pieces that the writer's functions write.  `then` is needs_comma afterwards. *)

Piece(sym, len, then, depth) == [sym |-> sym, len |-> len, then |-> then, depth |-> depth]
Raw(sym, len) == Piece(sym, len, "kept", 0)
maybe_comma == <<Raw(",", 1)>>

json_write_object_start == maybe_comma \o <<Piece("{", 1, "no", 1)>>
json_write_object_end == <<Piece("}", 1, "yes", -1)>>
json_write_array_start == maybe_comma \o <<Piece("[", 1, "no", 1)>>
json_write_array_end == <<Piece("]", 1, "yes", -1)>>
\* Mutant: a value directly after its key gets a comma.
KeyWithComma(k) == maybe_comma \o <<Raw("quote", 1), Raw("name", Len(k)), Piece("key", 2, "yes", 0)>>
json_write_key(k) == maybe_comma \o <<Raw("quote", 1), Raw("name", Len(k)), Piece("key", 2, "no", 0)>>

\* A string of which the escaped form has n bytes.
StringOf(n) == maybe_comma \o <<Raw("quote", 1), Raw("text", n), Piece("value", 1, "yes", 0)>>
json_write_string(s) == StringOf(Len(s))
Literal(sym, n) == maybe_comma \o <<Piece(sym, n, "yes", 0)>>
json_write_int(digits) == Literal("value", digits)
json_write_null == Literal("value", 4)
\* "0." and at most six digits.
json_write_float == Literal("value", 8)
\* snprintf knows no length modifier: "%lld" comes out as it is.
json_write_int64 == Literal("%lld", 4)

Repeat(call, n) == [i \in 1 .. n * Len(call) |-> call[((i - 1) % Len(call)) + 1]]
ArrayOf(element, n) == json_write_array_start \o Repeat(element, n) \o json_write_array_end

KV(k, value) == json_write_key(k) \o value

\* write_raw: a piece that would reach the end of the buffer is not written.  Of
\* a string's text, which is written a character at a time, the rest is missing;
\* the name of a key is one piece.
Fits(n) == w.offset + n < BodySize
write_raw(p) ==
    [offset |-> IF Fits(p.len) THEN w.offset + p.len ELSE IF p.sym = "text" THEN BodySize - 1 ELSE w.offset,
     needs_comma |-> IF ~Fits(p.len) \/ p.then = "kept" THEN w.needs_comma ELSE p.then = "yes",
     depth |-> IF Fits(p.len) THEN w.depth + p.depth ELSE w.depth]

----
(* The bodies, as the handlers write them. *)

ErrorBody(message, param, code) ==
    <<json_write_object_start, json_write_key("error"), json_write_object_start,
      KV("message", json_write_string(message)), KV("type", json_write_string("invalid_request_error")),
      KV("param", IF param = "" THEN json_write_null ELSE json_write_string(param)),
      KV("code", json_write_string(code)),
      json_write_object_end, json_write_object_end>>

\* "cmpl-%016llx": the id has the length of its format, see json_write_int64.
IdLength(prefix) == Len(prefix) + 8

CompletionBody(n, d) ==
    <<json_write_object_start,
      KV("id", StringOf(IdLength("cmpl"))), KV("object", json_write_string("text_completion")),
      KV("created", json_write_int64), KV("model", json_write_string("embedded-llama")),
      json_write_key("choices"), json_write_array_start, json_write_object_start,
      KV("text", StringOf(n)), KV("index", json_write_int(1)), KV("logprobs", json_write_null),
      KV("finish_reason", json_write_string("stop")),
      json_write_object_end, json_write_array_end,
      json_write_key("usage"), json_write_object_start,
      KV("prompt_tokens", json_write_int(d)), KV("completion_tokens", json_write_int(1)),
      KV("total_tokens", json_write_int(d)),
      json_write_object_end, json_write_object_end>>

ChatBody(n, d) ==
    <<json_write_object_start,
      KV("id", StringOf(IdLength("chatcmpl"))), KV("object", json_write_string("chat.completion")),
      KV("created", json_write_int64), KV("model", json_write_string("embedded-llama")),
      json_write_key("choices"), json_write_array_start, json_write_object_start,
      KV("index", json_write_int(1)),
      json_write_key("message"), json_write_object_start,
      KV("role", json_write_string("assistant")), KV("content", StringOf(n)),
      json_write_object_end,
      KV("finish_reason", json_write_string("stop")),
      json_write_object_end, json_write_array_end,
      json_write_key("usage"), json_write_object_start,
      KV("prompt_tokens", json_write_int(d)), KV("completion_tokens", json_write_int(d)),
      KV("total_tokens", json_write_int(d)),
      json_write_object_end, json_write_object_end>>

EmbeddingsBody(d) ==
    <<json_write_object_start, KV("object", json_write_string("list")),
      json_write_key("data"), json_write_array_start, json_write_object_start,
      KV("object", json_write_string("embedding")), KV("index", json_write_int(1)),
      json_write_key("embedding"), ArrayOf(json_write_float, 8),
      json_write_object_end, json_write_array_end,
      KV("model", json_write_string("embedded-llama")),
      json_write_key("usage"), json_write_object_start,
      KV("prompt_tokens", json_write_int(d)), KV("total_tokens", json_write_int(d)),
      json_write_object_end, json_write_object_end>>

ModelsBody ==
    <<json_write_object_start, KV("object", json_write_string("list")),
      json_write_key("data"), json_write_array_start,
      json_write_object_start, KV("id", json_write_string("embedded-llama")),
      KV("object", json_write_string("model")), KV("created", json_write_int64),
      KV("owned_by", json_write_string("cllm-unikernel")), json_write_object_end,
      json_write_array_end, json_write_object_end>>

TokenizeBody(n) == <<json_write_object_start, json_write_key("tokens"), ArrayOf(json_write_int(3), n),
                     json_write_object_end>>
DetokenizeBody(n) == <<json_write_object_start, KV("content", StringOf(n)), json_write_object_end>>

\* The escaped text of llm_generate: it fails, or produces up to max_tokens
\* characters (16 for 0), of which each may need an escape or be left out;
\* only the extremes of the length matter.
GenerationFailed == Len(" [generation failed]")
Generated ==
    LET max == IF req.max_tokens > 0 THEN req.max_tokens ELSE 16
        chars == IF max < TextSize THEN max ELSE TextSize - 1
    IN  {GenerationFailed, 0, chars, 2 * chars}
CompletionText == IF model_loaded THEN Generated ELSE {Len(" [model not loaded]")}
ChatText == IF model_loaded THEN Generated
            ELSE {Len("Hello! I'm a placeholder response from the CLLM unikernel.")}

\* The bodies of a successful request.
Bodies ==
    CASE endpoint = "completions" -> {CompletionBody(n, d) : n \in CompletionText, d \in Digits}
      [] endpoint = "chat" -> {ChatBody(n, d) : n \in ChatText, d \in Digits}
      [] endpoint = "embeddings" -> {EmbeddingsBody(d) : d \in Digits}
      [] endpoint = "tokenize" -> {TokenizeBody(n) : n \in TokenCounts}
      [] endpoint = "detokenize" -> {DetokenizeBody(n) : n \in {0} \cup TokenCounts \cup {2 * n : n \in TokenCounts}}

Decimal(n) == IF n < 10 THEN 1 ELSE IF n < 100 THEN 2 ELSE IF n < 1000 THEN 3 ELSE IF n < 10000 THEN 4 ELSE 5

----
(* The texts of api.c: tokens and a length. *)

Ext == INSTANCE SequencesExt

TextOf(syms, len) == [conv |-> "", syms |-> syms, len |-> len]
HealthText == TextOf(<<"{", "key", "value", "}">>, 16)
LoadText == TextOf(<<"{", "key", "value", ",", "key", "value", "}">>, 69)
CompletionStub == TextOf(<<"{", "key", "value", ",", "key", "value", "}">>, 74)
NotFoundText == TextOf(<<"{", "key", "value", "}">>, 21)
FormatErrorText == TextOf(<<"{", "key", "value", "}">>, 37)

\* The format of the metadata, as literal texts and specifiers, and its arguments:
\* magic[0 .. 3], version, tensor_count, kv_count, arch ("llama") and context_length.
Conv(c) == [conv |-> c, syms |-> <<>>, len |-> 0]
MetadataFormat ==
    <<TextOf(<<"{", "key">>, 10), Conv("c"), Conv("c"), Conv("c"), Conv("c"),
      TextOf(<<"value", ",", "key">>, 12), Conv("u"), TextOf(<<",", "key">>, 16), Conv("u"),
      TextOf(<<",", "key">>, 12), Conv("u"), TextOf(<<",", "key">>, 17), Conv("s"),
      TextOf(<<"value", ",", "key">>, 19), Conv("u"), TextOf(<<"}">>, 1)>>
Num(n) == [is |-> "number", n |-> n]
Chars(n) == [is |-> "string", n |-> n]
MetadataArgs == <<Num(71), Num(71), Num(85), Num(70), Num(3), Num(0), Num(0), Chars(5), Num(2048)>>

\* vsnprintf: a specifier that it does not know comes out as it is and takes no
\* argument, so those behind it take the arguments of others.  A number taken
\* for a pointer makes %s read whatever is in memory there, m bytes long.
Converts == {"s", "u"}
vsnprintf(format, args, m) ==
    LET Arg(i) == args[Cardinality({j \in 1 .. i : format[j].conv \in Converts})]
        Out(i) == CASE format[i].conv = "" -> format[i]
                    [] format[i].conv = "u" -> TextOf(<<"value">>, Decimal(Arg(i).n))
                    [] format[i].conv = "s" -> TextOf(<<>>, IF Arg(i).is = "string" THEN Arg(i).n ELSE m)
                    [] OTHER -> TextOf(<<>>, 2)
    IN  Ext!FoldLeft(LAMBDA t, x : TextOf(t.syms \o x.syms, t.len + x.len), TextOf(<<>>, 0),
                     [i \in 1 .. Len(format) |-> Out(i)])

----
json_writer_init == [offset |-> 0, needs_comma |-> FALSE, depth |-> 0]

Init ==
    /\ \E e \in Endpoints : ReaderInit(e)
    /\ model_loaded = FALSE /\ request_counter = 0
    /\ stage = "idle" /\ status = 0 /\ todo = <<>> /\ w = json_writer_init /\ body = <<>> /\ sent = "nothing"

api_v1_init(ctx) ==
    /\ stage = "idle"
    /\ model_loaded' = ctx /\ request_counter' = 0
    /\ UNCHANGED <<rvars, wvars, stage>>

Respond(code, calls) ==
    /\ status' = code /\ todo' = calls
    /\ w' = json_writer_init /\ body' = <<>>
    /\ stage' = "write"

\* A request is routed; api_v1_init need not have been called.  A GET is what
\* /v1/models wants and every other endpoint refuses, as /v1/models does a POST.
Get(path) ==
    /\ stage = "idle"
    /\ IF path = "/v1/models" THEN Respond(200, ModelsBody)
       ELSE Respond(405, ErrorBody("Method not allowed", "", "method_not_allowed"))
    /\ UNCHANGED <<rvars, sent, model_loaded, request_counter>>

\* A handler of api.c, whatever the method: a fixed text.
RespondText(code, text) ==
    /\ status' = code /\ todo' = <<>>
    /\ w' = [json_writer_init EXCEPT !.offset = text.len] /\ body' = text.syms
    /\ stage' = "write"

Legacy(path) ==
    /\ stage = "idle"
    /\ CASE path = "/health" -> RespondText(200, HealthText)
         [] path = "/model/load" -> RespondText(200, LoadText)
         [] path = "/completion" -> RespondText(200, CompletionStub)
         [] OTHER -> RespondText(404, NotFoundText)
    /\ UNCHANGED <<rvars, sent, model_loaded, request_counter>>

\* A text that does not fit the body is replaced.
handle_model_metadata ==
    /\ stage = "idle"
    /\ \E m \in MemoryTexts :
          LET text == vsnprintf(MetadataFormat, MetadataArgs, m)
          IN  IF text.len >= BodySize THEN RespondText(500, FormatErrorText) ELSE RespondText(200, text)
    /\ UNCHANGED <<rvars, sent, model_loaded, request_counter>>

PostEmpty ==
    /\ stage = "idle"
    /\ Respond(400, ErrorBody("Request body is empty", "", "empty_body"))
    /\ UNCHANGED <<rvars, sent, model_loaded, request_counter>>

PostBody ==
    /\ stage = "idle"
    /\ stage' = "parse"
    /\ UNCHANGED <<rvars, wvars, model_loaded, request_counter>>

Parse ==
    /\ stage = "parse"
    /\ ReaderStep
    /\ UNCHANGED <<wvars, model_loaded, request_counter, stage>>

\* The parser is a local of the parse function and is gone when it returns.
ForgetParser == /\ read' = <<>> /\ tok' = EOF /\ stack' = <<>> /\ key' = "" /\ res' = "none" /\ cut' = FALSE
                /\ UNCHANGED <<endpoint, at, req>>

InvalidJson ==
    /\ stage = "parse" /\ res = "error"
    /\ Respond(400, ErrorBody("Invalid JSON", "", "json_parse_error"))
    /\ ForgetParser
    /\ UNCHANGED <<sent, model_loaded, request_counter>>

Missing == req.text = "" /\ req.count = 0

MissingField ==
    /\ stage = "parse" /\ res = "ok" /\ Missing
    /\ LET field == Required[endpoint]
       IN  Respond(400, [ErrorBody("Missing required field: ", field, "missing_field")
                         EXCEPT ![4] = KV("message", StringOf(Len("Missing required field: ") + Len(field)))])
    /\ ForgetParser
    /\ UNCHANGED <<sent, model_loaded, request_counter>>

Answer ==
    /\ stage = "parse" /\ res = "ok" /\ ~Missing
    /\ \E calls \in Bodies : Respond(200, calls)
    /\ request_counter' = IF endpoint \in {"completions", "chat"} THEN request_counter + 1 ELSE request_counter
    /\ ForgetParser
    /\ UNCHANGED <<sent, model_loaded>>

\* One piece of the current call; a piece that does not fit ends the call.
Write ==
    /\ stage = "write" /\ todo # <<>>
    /\ LET call == Head(todo)
           p == Head(call)
           rest == IF Len(call) > 1 THEN <<Tail(call)>> \o Tail(todo) ELSE Tail(todo)
       IN  IF p.sym = "," /\ ~w.needs_comma
           THEN todo' = rest /\ UNCHANGED <<w, body>>
           ELSE /\ w' = write_raw(p)
                /\ body' = IF Fits(p.len) THEN Append(body, p.sym) ELSE body
                /\ todo' = IF Fits(p.len) THEN rest ELSE Tail(todo)
    /\ UNCHANGED <<rvars, status, sent, model_loaded, request_counter, stage>>

\* http_generate_response: status line, headers, Content-Length, empty line, body.
Statuses == {200, 400, 404, 405, 500}
StatusLine == [s \in Statuses |->
    Len("HTTP/1.1 200") + Len(CASE s = 200 -> " OK" [] s = 400 -> " Bad Request" [] s = 404 -> " Not Found"
                                [] s = 405 -> " Method Not Allowed" [] s = 500 -> " Internal Server Error") + 2]
HeaderLength == StatusLine[status] + Len("Content-Type: application/json") + 2
                + Len("Content-Length: ") + Decimal(w.offset) + 2 + 2
ResponseLength == HeaderLength + w.offset

\* tcp_send_data, and a response that does not fit one segment is never sent.
Send ==
    /\ stage = "write" /\ todo = <<>>
    /\ sent' = IF ResponseLength < BodySize + 256 /\ ResponseLength <= MaxSegment THEN "response" ELSE "nothing"
    /\ stage' = "closed"
    /\ UNCHANGED <<rvars, status, todo, w, body, model_loaded, request_counter>>

Step == \/ PostEmpty \/ PostBody \/ Parse \/ InvalidJson \/ MissingField \/ Answer \/ Write \/ Send
        \/ \E path \in {"/v1/models", "other"} : Get(path)
        \/ \E path \in {"/health", "/model/load", "/completion", "unknown"} : Legacy(path)
        \/ handle_model_metadata

Next == Step \/ \E ctx \in BOOLEAN : api_v1_init(ctx)

\* The handler runs to its end.
Spec == Init /\ [][Next]_avars /\ WF_avars(Step)

----
ApiTypeOK ==
    /\ ReaderTypeOK
    /\ model_loaded \in BOOLEAN /\ request_counter \in Nat
    /\ stage \in {"idle", "parse", "write", "closed"} /\ status \in Statuses \cup {0}
    /\ w.offset \in 0 .. BodySize - 1 /\ w.needs_comma \in BOOLEAN /\ w.depth \in Nat
    /\ sent \in {"nothing", "response"}

(* JSON, as a condition on neighbouring tokens and on the bracket around them. *)
Tokens == SelectSeq(body, LAMBDA s : s \notin {"quote", "name", "text"})
Ups(t, i) == Cardinality({j \in 1 .. i : t[j] \in {"{", "["}}) - Cardinality({j \in 1 .. i : t[j] \in {"}", "]"}})
\* The innermost bracket that is open after position i.
Around(t, i) == LET Open == {j \in 1 .. i : t[j] \in {"{", "["} /\ \A k \in j .. i : Ups(t, k) >= Ups(t, j)}
                IN  IF Open = {} THEN "none" ELSE t[CHOOSE j \in Open : \A k \in Open : k <= j]
ValueStart == {"value", "{", "["}
Follow(t, i) ==
    LET inside == Around(t, i)
        closer == IF inside = "{" THEN {"}"} ELSE IF inside = "[" THEN {"]"} ELSE {}
        member == IF inside = "{" THEN {"key"} ELSE IF inside = "[" THEN ValueStart ELSE {}
    IN  CASE t[i] \in {"{", "["} -> member \cup closer
          [] t[i] = "key" -> ValueStart
          [] t[i] = "," -> member
          [] OTHER -> closer \cup (IF inside = "none" THEN {} ELSE {","})
IsJson(t) == /\ t # <<>> /\ t[1] = "{"
             /\ \A i \in 1 .. Len(t) - 1 : t[i + 1] \in Follow(t, i)
             /\ Ups(t, Len(t)) = 0

\* Whatever is sent has the structure of a JSON document: commas, keys and
\* brackets are where they belong and nothing was cut off, when "%lld" is
\* taken for the number it stands for and the bytes that the metadata's %s
\* finds in memory for text without quotes.
SentIsStructured ==
    sent = "response" => IsJson([i \in 1 .. Len(Tokens) |-> IF Tokens[i] = "%lld" THEN "value" ELSE Tokens[i]])

\* The response of a generating endpoint always fits one segment, whatever
\* max_tokens the client asks for and however many characters need an escape:
\* a 200 is never written and then dropped by net_send_tcp.  (request_counter
\* counts exactly the requests that generate.)
GenerationIsSent == stage = "closed" /\ request_counter > 0 => sent = "response"

\* Every request that is routed is answered, whatever its body: no loop of the
\* parser runs without consuming its input.
HandlerReturns == stage = "parse" ~> stage = "closed"

\* "Set JSON content type header" (api_v1.c:32): what is sent as
\* application/json is a JSON document.
SentIsJson == sent = "response" => IsJson(Tokens)
====
