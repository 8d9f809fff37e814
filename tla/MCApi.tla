---- MODULE MCApi ----
(* Api with the sizes of the code, short lists, and documents of a few tokens. *)
EXTENDS Api

Punctuation == {Plain(t) : t \in Openers \cup Closers \cup {"COLON", "COMMA"}}
Strings == [completions |-> {"prompt", "max_tokens", ""}, chat |-> {"messages", "content"},
            embeddings |-> {"input", ""}, tokenize |-> {"content", "add_special"}, detokenize |-> {"tokens", ""}]
Numbers == [completions |-> {4, 5000}, chat |-> {}, embeddings |-> {7}, tokenize |-> {}, detokenize |-> {65}]

Others(e) == IF e = "chat" THEN {} ELSE {Plain("TRUE"), Plain("ERROR")}

MCLexemes == [e \in Endpoints |-> Punctuation \cup Others(e) \cup {Text(s) : s \in Strings[e]}
                                   \cup {Number(n) : n \in Numbers[e]}]
MCMaxTokens == [completions |-> 8, chat |-> 10, embeddings |-> 8, tokenize |-> 7, detokenize |-> 8]

----
(* The JSON grammar, as the set of documents it generates: the reference for what must be accepted. *)

P(t) == <<Plain(t)>>
ScalarsOf(e) == {<<l>> : l \in {m \in MCLexemes[e] : m.t \in Scalars}}
Keys(e) == {<<Text(s)>> : s \in Strings[e]}
Listed(open, items, close) ==
    {P(open) \o P(close)} \cup {P(open) \o x \o P(close) : x \in items}
    \cup {P(open) \o x \o P("COMMA") \o y \o P(close) : x, y \in items}
Members(keys, values) == {k \o P("COLON") \o v : k \in keys, v \in values}
Flat(e) == Listed("LBRACKET", ScalarsOf(e), "RBRACKET") \cup Listed("LBRACE", Members(Keys(e), ScalarsOf(e)), "RBRACE")
AnyValue(e) == ScalarsOf(e) \cup Flat(e) \cup {P("LBRACKET") \o v \o P("RBRACKET") : v \in Flat(e)}

StringValues(e) == {<<Text(s)>> : s \in Strings[e]}
NumberValues(e) == {<<Number(n)>> : n \in Numbers[e]}
ChatMessages == Listed("LBRACE", Members({<<Text("content")>>}, StringValues("chat"))
                                 \cup Members({<<Text("messages")>>}, ScalarsOf("chat")), "RBRACE")
ValuesOf(e, kind) ==
    CASE kind = "string" -> StringValues(e)
      [] kind = "number" -> NumberValues(e)
      [] kind = "bool" -> {P("TRUE")}
      [] kind = "messages" -> {P("LBRACKET") \o P("RBRACKET")} \cup {P("LBRACKET") \o m \o P("RBRACKET") : m \in ChatMessages}
      [] kind = "tokens" -> {P("LBRACKET") \o P("RBRACKET")} \cup {P("LBRACKET") \o n \o P("RBRACKET") : n \in NumberValues(e)}
      [] OTHER -> AnyValue(e)
Fields(e) == UNION {Members({<<Text(s)>>}, ValuesOf(e, KindIn(Schema[e], s))) : s \in Strings[e]}
Lists(e) == UNION {Members({<<Text(s)>>}, ValuesOf(e, KindIn(Schema[e], s))) :
                       s \in {x \in Strings[e] : KindIn(Schema[e], x) \in {"messages", "tokens"}}}

\* Well-formed documents whose known fields have their types and whose list, given once, has at most MaxItems items.
Documents(e) ==
    {d \in {P("LBRACE") \o P("RBRACE")} \cup {P("LBRACE") \o x \o P("RBRACE") : x \in Fields(e)}
           \cup {P("LBRACE") \o xy[1] \o P("COMMA") \o xy[2] \o P("RBRACE") :
                    xy \in {z \in Fields(e) \X Fields(e) : /\ Len(z[1]) + Len(z[2]) + 3 <= MCMaxTokens[e]
                                                           /\ z[1] \notin Lists(e) \/ z[2] \notin Lists(e)}} :
        Len(d) <= MCMaxTokens[e]}
DocumentPrefixes == [e \in Endpoints |-> UNION {{SubSeq(d, 1, n) : n \in 1 .. Len(d)} : d \in Documents(e)}]

\* A well-formed request is never answered with "Invalid JSON": the parser does
\* not fail while what it has read can still become one.
ValidIsAccepted == res = "error" => read \notin DocumentPrefixes[endpoint]
====
