---- MODULE MCHttpExchange ----
(* HttpExchange with the requests of the smoke test, one token per line or document. *)
EXTENDS HttpExchange, TLC

CONSTANTS nul, header, json, crlf, h1, n1

H == INSTANCE Http WITH CRLF <- crlf, Nul <- nul, Header <- header, Json <- json

MCTokens == H!HttpTokens
MCResponses == {[status |-> n, len |-> 1] : n \in {200, 400, 404, 405}}
MCAnswers(request, response) == response.status = H!Status(request)

GetHealth == <<<<"GET", "/health">>, crlf, crlf>>
NoRequestLine == <<crlf, crlf>>
PostCompletion == <<<<"POST", "/v1/completions">>, crlf, header, crlf, crlf, json>>

\* The smoke test's POST would be answered 200.  What tcp_receive passes on of it
\* ends with the empty line (tcp.c:218), and that is answered 400.
ASSUME PostLosesBody == H!Status(PostCompletion) = 200 /\ H!Status(Request(PostCompletion)) = 400

MCWanted == (7 :> GetHealth) @@ (8 :> NoRequestLine)
MCGetWanted == 7 :> GetHealth
MCRetries == (7 :> 1) @@ (8 :> 0)
MCOneRetry == 7 :> 1
MCTwoRetries == 7 :> 2
MCLosses == (7 :> 1) @@ (8 :> 0)
MCNoLoss == 7 :> 0
MCHwAddr == [n \in Neighbours |-> n]
NoPadding == <<>>
ZeroPadding == <<nul>>
MCSegments == {}
====
