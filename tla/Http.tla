---- MODULE Http ----
(***************************************************************************)
(* From the bytes of one request to the status of its response:            *)
(* http_parse_request (http.c), route_request (api.c) and the guards of    *)
(* the endpoint handlers (api_v1.c).  A request is a sequence of tokens: a *)
(* well-formed request line <<method, path>> is one token, and so are a    *)
(* header, a JSON document, CRLF and a run of NUL bytes.                   *)
(***************************************************************************)
EXTENDS Integers, Sequences

CONSTANTS CRLF, Nul, Header, Json

\* The routes, by the handler's first guard.  Paths are matched by prefix (all
\* but /health and /model/load); a path here stands for everything it matches.
PostRoutes == {"/v1/completions", "/v1/chat/completions", "/v1/embeddings", "/tokenize", "/detokenize"}
GetRoutes == {"/v1/models"}
LegacyRoutes == {"/health", "/model/metadata", "/model/load", "/completion"}
Paths == PostRoutes \cup GetRoutes \cup LegacyRoutes \cup {"/other"}
RequestLines == {<<m, p>> : m \in {"GET", "POST"}, p \in Paths}
HttpTokens == RequestLines \cup {CRLF, Nul, Header, Json}

Least(S) == CHOOSE i \in S : \A j \in S : i <= j

\* What a C string function sees of a copied line: it stops at the first NUL.
CString(s) ==
    LET nuls == {i \in 1 .. Len(s) : s[i] = Nul}
    IN  IF nuls = {} THEN s ELSE SubSeq(s, 1, Least(nuls) - 1)

\* The request line ends at the first CRLF.  Headers end at the first double
\* CRLF after that line; with none, everything left is headers.
LineEnd(q) == {i \in 1 .. Len(q) : q[i] = CRLF}
RequestLine(q) == CString(SubSeq(q, 1, Least(LineEnd(q)) - 1))
HeaderEnds(q) == {i \in Least(LineEnd(q)) + 2 .. Len(q) : q[i - 1] = CRLF /\ q[i] = CRLF}
Body(q) == IF HeaderEnds(q) = {} THEN <<>> ELSE SubSeq(q, Least(HeaderEnds(q)) + 1, Len(q))

http_parse_request(q) ==
    /\ LineEnd(q) # {}
    /\ \E l \in RequestLines : RequestLine(q) = <<l>>

\* A POST endpoint rejects other methods, an empty body and a body its JSON
\* parser refuses or that lacks the required field, in that order; Json stands
\* for a document with that field.
PostStatus(method, body) == IF method # "POST" THEN 405
                            ELSE IF body = <<>> THEN 400
                            ELSE IF CString(body) = <<Json>> THEN 200 ELSE 400

route_request(method, path, body) ==
    CASE path \in PostRoutes -> PostStatus(method, body)
      [] path \in GetRoutes -> IF method = "GET" THEN 200 ELSE 405
      [] path \in LegacyRoutes -> 200
      [] OTHER -> 404

\* The status tcp_receive answers a request with; 400 when it does not parse.
Status(q) == IF http_parse_request(q)
             THEN LET l == RequestLine(q)[1] IN route_request(l[1], l[2], Body(q))
             ELSE 400
====
