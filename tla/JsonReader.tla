---- MODULE JsonReader ----
(***************************************************************************)
(* Reading the JSON body of a request: the parser of json.c at the level   *)
(* of its tokens, driven by the five parse_..._request functions of        *)
(* api_v1.c.  The functions are loops that consume a token at a time and   *)
(* call json_skip_value, which calls itself; `stack` is that nesting of    *)
(* loops, innermost first, and `at` the place inside the innermost one.    *)
(* The document is not fixed in advance: each json_next_token may find any *)
(* token, so every document of up to MaxTokens tokens is read.             *)
(***************************************************************************)
EXTENDS Integers, Sequences, FiniteSets

CONSTANTS
    MaxTokens,    \* bound: the document ends after MaxTokens[endpoint] tokens
    MaxItems,     \* MAX_CHAT_MESSAGES, MAX_TOKENS
    MaxGenerate,  \* MAX_GENERATION_TOKENS
    Lexemes       \* Lexemes[endpoint]: the tokens a document may contain

\* A token: its type, the text of a string, the value of a number.
Plain(t) == [t |-> t, s |-> "", n |-> 0]
Text(s) == [t |-> "STRING", s |-> s, n |-> 0]
Number(n) == [t |-> "NUMBER", s |-> "", n |-> n]
EOF == Plain("EOF")

Openers == {"LBRACE", "LBRACKET"}
Closers == {"RBRACE", "RBRACKET"}
Scalars == {"STRING", "NUMBER", "TRUE", "FALSE", "NULL"}
TokenTypes == Openers \cup Closers \cup Scalars \cup {"COLON", "COMMA", "EOF", "ERROR"}

\* The fields each request knows, and what their values must be.
Schema == [
    completions |-> [prompt |-> "string", model |-> "string", max_tokens |-> "number", temperature |-> "number",
                     top_p |-> "number", top_k |-> "number", frequency_penalty |-> "number",
                     presence_penalty |-> "number", stream |-> "bool", seed |-> "number", echo |-> "bool",
                     n |-> "number"],
    chat        |-> [messages |-> "messages", model |-> "string", max_tokens |-> "number",
                     temperature |-> "number", top_p |-> "number", stream |-> "bool"],
    embeddings  |-> [input |-> "string", model |-> "string"],
    tokenize    |-> [content |-> "string", add_special |-> "bool"],
    detokenize  |-> [tokens |-> "tokens"]]
Message == [role |-> "string", content |-> "string"]
Endpoints == DOMAIN Schema

\* The field without which the handler answers 400.
Required == [completions |-> "prompt", chat |-> "messages", embeddings |-> "input",
             tokenize |-> "content", detokenize |-> "tokens"]

\* The types of token a value of each kind may start with; "any" is json_skip_value.
Kinds == [string |-> {"STRING"}, number |-> {"NUMBER"}, bool |-> {"TRUE", "FALSE"},
          messages |-> {"LBRACKET"}, message |-> {"LBRACE"}, tokens |-> {"LBRACKET"},
          any |-> Scalars \cup Openers]

ASSUME ReaderAssumption ==
    /\ MaxTokens \in [Endpoints -> Nat] /\ MaxItems \in Nat \ {0} /\ MaxGenerate \in Nat /\ MaxGenerate >= 64
    /\ Lexemes \in [Endpoints -> SUBSET [t : TokenTypes, s : STRING, n : Int]]
    /\ \A e \in Endpoints : \A l \in Lexemes[e] : l.t = "STRING" => l.n = 0

VARIABLES
    endpoint,   \* the request being parsed
    tok,        \* p->current
    read,       \* the tokens read so far
    stack, at,  \* the nesting of loops and the place in the innermost one
    key,        \* the key whose value comes next
    req,        \* what has been parsed: the required text, the number of items, max_tokens
    res,        \* the result of the parse function
    cut         \* history: a list was left in its middle

rvars == <<endpoint, tok, read, stack, at, key, req, res, cut>>

Frames == {"request", "messages", "message", "tokens", "object", "array"}
ObjectFrames == {"request", "message", "object"}
Top == stack[1]
\* Mutant: any closing bracket ends a loop.
AnyCloser == IF tok.t \in Closers THEN tok.t ELSE "RBRACE"
Closer == IF Top \in ObjectFrames THEN "RBRACE" ELSE "RBRACKET"
Ends == tok.t \in {Closer, "EOF"}

\* json_parser_init and the ..._request_init of the endpoint.
NoRequest == [text |-> "", count |-> 0, max_tokens |-> 64]
ReaderInit(e) ==
    /\ endpoint = e
    /\ tok = EOF /\ read = <<>>
    /\ stack = <<>> /\ at = "start" /\ key = ""
    /\ req = NoRequest /\ res = "none" /\ cut = FALSE

json_next_token ==
    \E l \in (IF Len(read) < MaxTokens[endpoint] THEN Lexemes[endpoint] ELSE {}) \cup {EOF} :
        tok' = l /\ read' = Append(read, l)

\* The first token must be an opening brace.
Start ==
    /\ at = "start"
    /\ json_next_token
    /\ at' = "open"
    /\ UNCHANGED <<endpoint, stack, key, req, res, cut>>

OpenRequest ==
    /\ at = "open" /\ tok.t = "LBRACE"
    /\ json_next_token
    /\ stack' = <<"request">> /\ at' = "head"
    /\ UNCHANGED <<endpoint, key, req, res, cut>>

\* A member of an object: its key, a colon, a value.
Key ==
    /\ at = "head" /\ Top \in ObjectFrames /\ tok.t = "STRING"
    /\ key' = tok.s
    /\ json_next_token
    /\ at' = "colon"
    /\ UNCHANGED <<endpoint, stack, req, res, cut>>

Colon ==
    /\ at = "colon" /\ tok.t = "COLON"
    /\ json_next_token
    /\ at' = "value"
    /\ UNCHANGED <<endpoint, stack, key, req, res, cut>>

KindIn(fields, k) == IF k \in DOMAIN fields THEN fields[k] ELSE "any"

\* What the value of the current key must be.  Unknown fields are skipped, and
\* inside json_skip_value every field is unknown.
\* Mutant: the fields of the request are recognised at every depth.
WantedEverywhere == IF Top = "message" THEN KindIn(Message, key) ELSE KindIn(Schema[endpoint], key)
Wanted == CASE Top = "request" -> KindIn(Schema[endpoint], key)
            [] Top = "message" -> KindIn(Message, key)
            [] OTHER -> "any"

\* The loop that reads a value which starts with tok.
LoopFor(kind) == IF kind # "any" THEN kind ELSE IF tok.t = "LBRACE" THEN "object" ELSE "array"

\* A scalar is consumed; a bracket is consumed and its loop entered.
TakeValue(kind) ==
    /\ tok.t \in Kinds[kind]
    /\ json_next_token
    /\ stack' = IF tok.t \in Openers THEN <<LoopFor(kind)>> \o stack ELSE stack
    /\ at' = IF tok.t \in Openers THEN "head" ELSE "comma"

\* Mutant: max_tokens is taken as it is.
AnyBudget(n) == n
\* max_tokens outside 0 .. MAX_GENERATION_TOKENS becomes the maximum.
Budget(n) == IF n \in 0 .. MaxGenerate THEN n ELSE MaxGenerate

Stored == CASE Top = "request" /\ key = Required[endpoint] /\ tok.t = "STRING" -> [req EXCEPT !.text = tok.s]
            [] Top = "request" /\ key = "max_tokens" /\ Wanted = "number" -> [req EXCEPT !.max_tokens = Budget(tok.n)]
            [] OTHER -> req

Value ==
    /\ at = "value"
    /\ TakeValue(Wanted)
    /\ req' = Stored
    /\ UNCHANGED <<endpoint, key, res, cut>>

\* The elements of a list.
ElementKind == [array |-> "any", messages |-> "message", tokens |-> "number"]
\* Mutant: one item too many.
FullLate == Top # "array" /\ req.count > MaxItems
Full == Top # "array" /\ req.count >= MaxItems

Element ==
    /\ at = "head" /\ Top \notin ObjectFrames
    /\ ~Ends /\ ~Full
    /\ TakeValue(ElementKind[Top])
    /\ req' = IF Top = "tokens" THEN [req EXCEPT !.count = @ + 1] ELSE req
    /\ UNCHANGED <<endpoint, key, res, cut>>

\* Mutant: continue instead of break.
ContinueWhenFull ==
    /\ at = "head" /\ Top \notin ObjectFrames
    /\ ~Ends /\ Full
    /\ at' = "comma"
    /\ UNCHANGED <<endpoint, tok, read, stack, key, req, res, cut>>

\* A full list is left in its middle.
Break ==
    /\ at = "head" /\ Top \notin ObjectFrames
    /\ ~Ends /\ Full
    /\ stack' = Tail(stack) /\ at' = "comma" /\ cut' = TRUE
    /\ UNCHANGED <<endpoint, tok, read, key, req, res>>

\* Mutant: the comma is left for the next key.
CommaLeft ==
    /\ at = "comma"
    /\ at' = "head"
    /\ UNCHANGED <<endpoint, tok, read, stack, key, req, res, cut>>

\* A comma after a value is consumed if it is there.
Comma ==
    /\ at = "comma"
    /\ IF tok.t = "COMMA" THEN json_next_token ELSE UNCHANGED <<tok, read>>
    /\ at' = "head"
    /\ UNCHANGED <<endpoint, stack, key, req, res, cut>>

\* A closing bracket ends its loop and is consumed; a message counts once it is closed.
Close ==
    /\ at = "head" /\ Len(stack) > 1 /\ tok.t = Closer
    /\ json_next_token
    /\ stack' = Tail(stack) /\ at' = "comma"
    /\ req' = IF Top = "message" THEN [req EXCEPT !.count = @ + 1] ELSE req
    /\ UNCHANGED <<endpoint, key, res, cut>>

\* The end of the input ends every loop.
CloseAtEof ==
    /\ at = "head" /\ Len(stack) > 1 /\ tok = EOF
    /\ stack' = Tail(stack) /\ at' = "comma"
    /\ UNCHANGED <<endpoint, tok, read, key, req, res, cut>>

Accepted ==
    /\ at = "head" /\ stack = <<"request">> /\ Ends
    /\ res' = "ok" /\ at' = "done"
    /\ UNCHANGED <<endpoint, tok, read, stack, key, req, cut>>

\* The types of token the parser goes on with.
WantedTypes == CASE at = "open" -> {"LBRACE"}
                 [] at = "colon" -> {"COLON"}
                 [] at = "value" -> Kinds[Wanted]
                 [] at = "head" /\ Top \in ObjectFrames -> {"STRING", "RBRACE", "EOF"}
                 [] at = "head" /\ Top \notin ObjectFrames /\ ~Full -> Kinds[ElementKind[Top]] \cup {"RBRACKET", "EOF"}
                 [] OTHER -> TokenTypes

Rejected ==
    /\ at \notin {"start", "done"} /\ tok.t \notin WantedTypes
    /\ res' = "error" /\ at' = "done"
    /\ UNCHANGED <<endpoint, tok, read, stack, key, req, cut>>

ReaderStep == \/ Start \/ OpenRequest \/ Key \/ Colon \/ Value \/ Element \/ Break
              \/ Comma \/ Close \/ CloseAtEof \/ Accepted \/ Rejected

----
ReaderTypeOK ==
    /\ endpoint \in Endpoints
    /\ {tok} \cup {read[i] : i \in DOMAIN read} \subseteq [t : TokenTypes, s : STRING, n : Int]
    /\ stack \in Seq(Frames) /\ at \in {"start", "open", "head", "colon", "value", "comma", "done"}
    /\ req.count \in 0 .. MaxItems /\ req.max_tokens \in 0 .. MaxGenerate
    /\ res \in {"none", "ok", "error"} /\ cut \in BOOLEAN

(* A reading of the token sequence that knows nothing of loops: nesting depth and matching brackets. *)
Count(types, i) == Cardinality({j \in 1 .. i - 1 : read[j].t \in types})
Depth(i) == Count(Openers, i) - Count(Closers, i)
\* The bracket that the one at i closes, if any.
OpenerOf(i) == {j \in 1 .. i - 1 : read[j].t \in Openers /\ Depth(j) = Depth(i) - 1
                                     /\ \A k \in j + 1 .. i : Depth(k) >= Depth(i)}
RequiredAt(i) == /\ i + 2 <= Len(read) /\ read[i] = Text(Required[endpoint])
                 /\ Depth(i) = 1 /\ read[i + 1].t = "COLON"
RequiredKeys == {i \in 1 .. Len(read) : RequiredAt(i)}
InRequiredList(i) == \E k \in RequiredKeys : k + 2 < i /\ \A j \in k + 3 .. i : Depth(j) >= 2
ItemsRead == CASE endpoint = "chat" -> {i \in 1 .. Len(read) : read[i].t = "RBRACE" /\ Depth(i) = 3 /\ InRequiredList(i)}
               [] endpoint = "detokenize" -> {i \in 1 .. Len(read) : read[i].t = "NUMBER" /\ Depth(i) = 2 /\ InRequiredList(i)}
               [] OTHER -> {}

\* The handler sees the fields of the request itself and no others: the text is
\* the value of the last top-level occurrence of the required key, and the
\* items are the closed elements of the required list, whatever same-named
\* fields the skipped values contain (a list longer than MaxItems aside).
FieldsFromTopLevel ==
    res = "ok" /\ ~cut =>
        /\ req.text = IF Schema[endpoint][Required[endpoint]] # "string" \/ RequiredKeys = {} THEN ""
                      ELSE read[(CHOOSE i \in RequiredKeys : \A j \in RequiredKeys : j <= i) + 2].s
        /\ req.count = Cardinality(ItemsRead)

\* An accepted document is properly nested as far as it was read, although
\* commas may be missing and the end may come early.  (After a list longer than
\* MaxItems the rest of that list is read as members of the request.)
AcceptedNests ==
    res = "ok" /\ ~cut => \A i \in 1 .. Len(read) :
        /\ read[i].t = "RBRACE" => \E j \in OpenerOf(i) : read[j].t = "LBRACE"
        /\ read[i].t = "RBRACKET" => \E j \in OpenerOf(i) : read[j].t = "LBRACKET"
====
