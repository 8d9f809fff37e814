---- MODULE Api_proofs ----
(***************************************************************************)
(* The JSON parser below the endpoints, for documents of any tokens and    *)
(* any length: it stays inside the arrays of the request, what it accepts  *)
(* is properly nested, and it takes its fields from the top level only.    *)
(***************************************************************************)
EXTENDS Api, FiniteSetTheorems, TLAPS

(* Types. *)

\* The texts a document may contain.
Texts == {""} \cup {l.s : l \in UNION {Lexemes[e] : e \in Endpoints}}
Token == {x \in [t : TokenTypes, s : Texts, n : Int] : x.t = "STRING" => x.n = 0}
Places == {"start", "open", "head", "colon", "value", "comma", "done"}
Request == [text : Texts, count : 0 .. MaxItems, max_tokens : 0 .. MaxGenerate]

ReaderTyped ==
    /\ endpoint \in Endpoints /\ tok \in Token /\ read \in Seq(Token) /\ key \in Texts
    /\ at \in Places /\ req \in Request /\ res \in {"none", "ok", "error"} /\ cut \in BOOLEAN

Running == at \notin {"start", "done"}

\* The nesting s of loops that the calls can produce for endpoint e, when c items
\* have been stored: the request at the bottom, its list directly above it, a
\* message directly above the messages.
Shape(s, e, c) ==
    /\ s \in Seq(Frames)
    /\ \A k \in 1 .. Len(s) :
          /\ s[k] = "request" <=> k = Len(s)
          /\ s[k] \in {"messages", "tokens"} => k = Len(s) - 1
          /\ s[k] = "messages" => e = "chat"
          /\ s[k] = "tokens" => e = "detokenize"
          /\ s[k] = "message" <=> k < Len(s) /\ s[k + 1] = "messages"
          /\ s[k] = "message" => c < MaxItems

StackShape ==
    /\ Shape(stack, endpoint, req.count)
    /\ at \in {"start", "open"} => stack = <<>>
    /\ at \in {"head", "colon", "value", "comma"} => Len(stack) > 0
    /\ at \in {"colon", "value"} => Top \in ObjectFrames

\* The invariant that needs no history, and that holds after a list was left in
\* its middle as well.
Bounded == ReaderTyped /\ StackShape

----
(* The schemas. *)

\* The kinds of the fields; the required field is the only list.
LEMMA SchemaIs ==
  ASSUME NEW e \in Endpoints, NEW k
  PROVE  /\ KindIn(Schema[e], k) \in {"string", "number", "bool", "messages", "tokens", "any"}
         /\ KindIn(Schema[e], k) = "messages" <=> e = "chat" /\ k = Required[e]
         /\ KindIn(Schema[e], k) = "tokens" <=> e = "detokenize" /\ k = Required[e]
         /\ k = Required[e] => /\ KindIn(Schema[e], k) = Schema[e][Required[e]]
                               /\ KindIn(Schema[e], k) \in {"string", "messages", "tokens"}
<1>1. e \in {"completions", "chat", "embeddings", "tokenize", "detokenize"}
  BY DEF Endpoints, Schema
<1>2. CASE e = "completions"
  BY <1>2 DEF Schema, KindIn, Required
<1>3. CASE e = "chat"
  BY <1>3 DEF Schema, KindIn, Required
<1>4. CASE e = "embeddings"
  BY <1>4 DEF Schema, KindIn, Required
<1>5. CASE e = "tokenize"
  BY <1>5 DEF Schema, KindIn, Required
<1>6. CASE e = "detokenize"
  BY <1>6 DEF Schema, KindIn, Required
<1> QED
  BY <1>1, <1>2, <1>3, <1>4, <1>5, <1>6

\* The fields of a message.
LEMMA MessageIs ==
  ASSUME NEW k
  PROVE  KindIn(Message, k) \in {"string", "any"}
BY DEF Message, KindIn

\* The tokens that a value may start with.
LEMMA KindsAre ==
  /\ Kinds["string"] = {"STRING"} /\ Kinds["number"] = {"NUMBER"} /\ Kinds["bool"] = {"TRUE", "FALSE"}
  /\ Kinds["messages"] = {"LBRACKET"} /\ Kinds["message"] = {"LBRACE"} /\ Kinds["tokens"] = {"LBRACKET"}
  /\ Kinds["any"] = {"STRING", "NUMBER", "TRUE", "FALSE", "NULL", "LBRACE", "LBRACKET"}
BY DEF Kinds, Scalars, Openers

\* The elements of the lists.
LEMMA ElementKindsAre ==
  ElementKind["array"] = "any" /\ ElementKind["messages"] = "message" /\ ElementKind["tokens"] = "number"
BY DEF ElementKind

----
(* The types and the shape of the stack. *)

\* The end of the input is a token, and the empty text a text.
LEMMA EmptyTexts ==
  EOF \in Token /\ "" \in Texts
<1>1. "EOF" \in TokenTypes
  BY DEF TokenTypes
<1>2. EOF = [t |-> "EOF", s |-> "", n |-> 0]
  BY DEF EOF, Plain
<1>3. "" \in Texts
  BY DEF Texts
<1>4. ASSUME NEW a \in TokenTypes, NEW b \in Texts, NEW c \in Int
      PROVE  [t |-> a, s |-> b, n |-> c] \in [t : TokenTypes, s : Texts, n : Int]
  OBVIOUS
<1>5. 0 \in Int
  OBVIOUS
<1>6. EOF \in [t : TokenTypes, s : Texts, n : Int]
  BY <1>1, <1>2, <1>3, <1>4, <1>5, Zenon
<1>7. EOF.t # "STRING"
  BY <1>2
<1> QED
  BY <1>3, <1>6, <1>7, Zenon DEF Token

\* json_next_token appends a token to what was read.
LEMMA TokenRead ==
  ASSUME ReaderTyped, json_next_token
  PROVE  tok' \in Token /\ read' = Append(read, tok') /\ read' \in Seq(Token)
<1>1. PICK l \in (IF Len(read) < MaxTokens[endpoint] THEN Lexemes[endpoint] ELSE {}) \cup {EOF} :
          tok' = l /\ read' = Append(read, l)
  BY DEF json_next_token
<1>2. l \in Lexemes[endpoint] \/ l = EOF
  BY <1>1
<1>3. l \in Token
  <2>1. ASSUME l \in Lexemes[endpoint] PROVE l \in Token
    <3>1. endpoint \in Endpoints
      BY DEF ReaderTyped
    <3>2. l \in [t : TokenTypes, s : STRING, n : Int] /\ (l.t = "STRING" => l.n = 0)
      BY <2>1, <3>1, ReaderAssumption
    <3>3. l.s \in Texts
      BY <2>1, <3>1 DEF Texts
    <3>4. l = [t |-> l.t, s |-> l.s, n |-> l.n] /\ l.t \in TokenTypes /\ l.n \in Int
      BY <3>2
    <3>5. l \in [t : TokenTypes, s : Texts, n : Int]
      BY <3>3, <3>4
    <3> QED
      BY <3>2, <3>5, Zenon DEF Token
  <2> QED
    BY <1>2, <2>1, EmptyTexts
<1> QED
  BY <1>1, <1>3 DEF ReaderTyped

\* Entering a loop.
LEMMA PushIs ==
  ASSUME NEW s \in Seq(Frames), NEW f \in Frames, NEW t, t = <<f>> \o s
  PROVE  /\ t \in Seq(Frames) /\ Len(t) = Len(s) + 1 /\ t[1] = f
         /\ \A k \in 1 .. Len(s) : t[k + 1] = s[k]
         /\ \A k \in 2 .. Len(t) : t[k] = s[k - 1]
OBVIOUS

\* Leaving a loop.
LEMMA PopIs ==
  ASSUME NEW s \in Seq(Frames), Len(s) > 0, NEW t, t = Tail(s)
  PROVE  /\ t \in Seq(Frames) /\ Len(t) = Len(s) - 1
         /\ \A k \in 1 .. Len(t) : t[k] = s[k + 1]
OBVIOUS

\* The value of a key is a loop of its own or no loop at all.
LEMMA WantedIs ==
  ASSUME ReaderTyped
  PROVE  /\ Wanted \in {"string", "number", "bool", "messages", "tokens", "any"}
         /\ Top = "request" => Wanted = KindIn(Schema[endpoint], key)
         /\ Top # "request" => Wanted \in {"string", "any"}
<1>1. CASE Top = "request"
  BY <1>1, SchemaIs DEF Wanted, ReaderTyped
<1>2. CASE Top = "message"
  BY <1>2, MessageIs DEF Wanted
<1>3. CASE Top \notin {"request", "message"}
  BY <1>3 DEF Wanted
<1> QED
  BY <1>1, <1>2, <1>3

\* A value is consumed, or its loop is entered.
LEMMA TakeIs ==
  ASSUME NEW kind \in {"string", "number", "bool", "messages", "message", "tokens", "any"},
         TakeValue(kind)
  PROVE  /\ json_next_token
         /\ tok.t \in {"STRING", "NUMBER", "TRUE", "FALSE", "NULL", "LBRACE", "LBRACKET"}
         /\ \/ tok.t \notin Openers /\ stack' = stack /\ at' = "comma" /\ kind \in {"string", "number", "bool", "any"}
            \/ /\ tok.t \in Openers /\ at' = "head" /\ kind \in {"messages", "message", "tokens", "any"}
               /\ \E f \in {"messages", "message", "tokens", "object", "array"} :
                    /\ f = LoopFor(kind)
                    /\ stack' = <<f>> \o stack
                    /\ tok.t = "LBRACE" <=> f \in ObjectFrames
                    /\ kind = "any" => f \in {"object", "array"}
                    /\ kind # "any" => f = kind
<1>1. tok.t \in Kinds[kind] /\ json_next_token
  BY DEF TakeValue
<1>2. CASE tok.t \notin Openers
  <2>1. stack' = stack /\ at' = "comma"
    BY <1>2 DEF TakeValue
  <2>2. kind \in {"string", "number", "bool", "any"}
    BY <1>1, <1>2, KindsAre DEF Openers
  <2> QED
    BY <1>1, <1>2, <2>1, <2>2, KindsAre
<1>3. CASE tok.t \in Openers
  <2>1. stack' = <<LoopFor(kind)>> \o stack /\ at' = "head"
    BY <1>3 DEF TakeValue
  <2>2. kind \in {"messages", "message", "tokens", "any"}
    BY <1>1, <1>3, KindsAre DEF Openers
  <2>3. CASE kind = "any"
    <3>1. LoopFor(kind) = IF tok.t = "LBRACE" THEN "object" ELSE "array"
      BY <2>3 DEF LoopFor
    <3> QED
      BY <1>1, <1>3, <2>1, <2>3, <3>1, KindsAre DEF ObjectFrames, Openers
  <2>4. CASE kind \in {"messages", "message", "tokens"}
    <3>1. LoopFor(kind) = kind
      BY <2>4 DEF LoopFor
    <3> QED
      BY <1>1, <1>3, <2>1, <2>4, <3>1, KindsAre DEF ObjectFrames, Openers
  <2> QED
    BY <2>2, <2>3, <2>4
<1> QED
  BY <1>2, <1>3

\* One loop of the nesting.
LEMMA ShapeAt ==
  ASSUME NEW s, NEW e, NEW c, Shape(s, e, c), NEW k \in 1 .. Len(s)
  PROVE  /\ s[k] = "request" <=> k = Len(s)
         /\ s[k] \in {"messages", "tokens"} => k = Len(s) - 1
         /\ s[k] = "messages" => e = "chat"
         /\ s[k] = "tokens" => e = "detokenize"
         /\ s[k] = "message" <=> k < Len(s) /\ s[k + 1] = "messages"
         /\ s[k] = "message" => c < MaxItems
BY DEF Shape

\* No loop at all.
LEMMA ShapeEmpty ==
  ASSUME NEW e, NEW c
  PROVE  Shape(<<>>, e, c)
<1>1. <<>> \in Seq(Frames) /\ \A k \in 1 .. Len(<<>>) : FALSE
  OBVIOUS
<1> QED
  BY <1>1 DEF Shape

\* A loop is entered on top of the others.
LEMMA ShapePush ==
  ASSUME NEW s, NEW e, NEW c, Shape(s, e, c), Len(s) > 0,
         NEW f \in {"messages", "message", "tokens", "object", "array"},
         f = "messages" => s[1] = "request" /\ e = "chat",
         f = "tokens" => s[1] = "request" /\ e = "detokenize",
         f = "message" <=> s[1] = "messages",
         f = "message" => c < MaxItems
  PROVE  Shape(<<f>> \o s, e, c)
<1> DEFINE t == <<f>> \o s
<1>1. s \in Seq(Frames) /\ f \in Frames
  BY DEF Shape, Frames
<1>2. /\ t \in Seq(Frames) /\ Len(t) = Len(s) + 1 /\ t[1] = f
      /\ \A k \in 2 .. Len(t) : t[k] = s[k - 1]
  BY <1>1, PushIs
<1>3. Len(s) \in Nat
  BY <1>1
<1> HIDE DEF t
<1>4. s[1] = "request" => Len(s) = 1
  <2>1. 1 \in 1 .. Len(s)
    BY <1>3
  <2> QED
    BY <2>1, ShapeAt
<1>5. ASSUME NEW k \in 1 .. Len(t)
      PROVE  /\ t[k] = "request" <=> k = Len(t)
             /\ t[k] \in {"messages", "tokens"} => k = Len(t) - 1
             /\ t[k] = "messages" => e = "chat"
             /\ t[k] = "tokens" => e = "detokenize"
             /\ t[k] = "message" <=> k < Len(t) /\ t[k + 1] = "messages"
             /\ t[k] = "message" => c < MaxItems
  <2>1. CASE k = 1
    <3>1. t[k + 1] = s[1]
      BY <1>2, <1>3, <2>1
    <3> QED
      BY <1>2, <1>3, <1>4, <2>1, <3>1
  <2>2. CASE k > 1
    <3>1. PICK j \in 1 .. Len(s) : j = k - 1
      BY <1>2, <1>3, <2>2
    <3>2. t[k] = s[j] /\ (k < Len(t) => t[k + 1] = s[j + 1]) /\ (k < Len(t) <=> j < Len(s))
      <4>1. k \in 2 .. Len(t) /\ (k < Len(t) => k + 1 \in 2 .. Len(t))
        BY <1>2, <1>3, <2>2
      <4>2. k - 1 = j /\ (k + 1) - 1 = j + 1
        BY <3>1
      <4>3. t[k] = s[k - 1] /\ (k < Len(t) => t[k + 1] = s[(k + 1) - 1])
        BY <1>2, <4>1, Zenon
      <4> QED
        BY <1>2, <1>3, <3>1, <4>2, <4>3
    <3>3. /\ s[j] = "request" <=> j = Len(s)
          /\ s[j] \in {"messages", "tokens"} => j = Len(s) - 1
          /\ s[j] = "messages" => e = "chat"
          /\ s[j] = "tokens" => e = "detokenize"
          /\ s[j] = "message" <=> j < Len(s) /\ s[j + 1] = "messages"
          /\ s[j] = "message" => c < MaxItems
      BY ShapeAt
    <3> QED
      BY <1>2, <1>3, <3>1, <3>2, <3>3
  <2> QED
    BY <2>1, <2>2
<1>6. Shape(t, e, c)
  BY <1>2, <1>5 DEF Shape
<1> QED
  BY <1>6 DEF t

\* A loop is left; if it was a message, the message may be counted.
LEMMA ShapePop ==
  ASSUME NEW s, NEW e, NEW c, NEW d, Shape(s, e, c), Len(s) > 1,
         d = c \/ s[1] = "message"
  PROVE  Shape(Tail(s), e, d)
<1> DEFINE t == Tail(s)
<1>1. s \in Seq(Frames)
  BY DEF Shape
<1>2. /\ t \in Seq(Frames) /\ Len(t) = Len(s) - 1
      /\ \A k \in 1 .. Len(t) : t[k] = s[k + 1]
  BY <1>1, PopIs
<1>3. Len(s) \in Nat
  BY <1>1
<1> HIDE DEF t
<1>4. s[1] = "message" => s[2] = "messages" /\ Len(s) = 3
  <2>1. 1 \in 1 .. Len(s) /\ 2 \in 1 .. Len(s) /\ 1 + 1 = 2
    BY <1>3
  <2>2. s[1] = "message" => s[2] = "messages"
    BY <2>1, ShapeAt
  <2>3. s[2] = "messages" => 2 = Len(s) - 1
    BY <2>1, ShapeAt
  <2> QED
    BY <1>3, <2>2, <2>3
<1>5. ASSUME NEW k \in 1 .. Len(t)
      PROVE  /\ t[k] = "request" <=> k = Len(t)
             /\ t[k] \in {"messages", "tokens"} => k = Len(t) - 1
             /\ t[k] = "messages" => e = "chat"
             /\ t[k] = "tokens" => e = "detokenize"
             /\ t[k] = "message" <=> k < Len(t) /\ t[k + 1] = "messages"
             /\ t[k] = "message" => d < MaxItems
  <2>1. PICK j \in 1 .. Len(s) : j = k + 1
    BY <1>2, <1>3
  <2>2. t[k] = s[j] /\ (k < Len(t) => t[k + 1] = s[j + 1]) /\ (k < Len(t) <=> j < Len(s))
    BY <1>2, <1>3, <2>1
  <2>3. /\ s[j] = "request" <=> j = Len(s)
        /\ s[j] \in {"messages", "tokens"} => j = Len(s) - 1
        /\ s[j] = "messages" => e = "chat"
        /\ s[j] = "tokens" => e = "detokenize"
        /\ s[j] = "message" <=> j < Len(s) /\ s[j + 1] = "messages"
        /\ s[j] = "message" => c < MaxItems
    BY ShapeAt
  <2>4. s[1] = "message" => s[j] # "message"
    <3>1. SUFFICES ASSUME s[1] = "message", s[j] = "message" PROVE FALSE
      OBVIOUS
    <3>2. Len(s) = 3 /\ s[j + 1] = "messages" /\ j < Len(s)
      BY <1>4, <2>3, <3>1, Zenon
    <3>4. j + 1 \in 1 .. Len(s)
      BY <3>2, <1>3
    <3>5. j + 1 = Len(s) - 1
      BY <3>2, <3>4, ShapeAt
    <3>3. j + 1 = 2
      BY <3>2, <3>5
    <3> QED
      BY <2>1, <3>3
  <2> QED
    BY <1>2, <1>3, <2>1, <2>2, <2>3, <2>4
<1>6. Shape(t, e, d)
  BY <1>2, <1>5 DEF Shape
<1> QED
  BY <1>6 DEF t

\* What a value does to the request: the required text is stored, max_tokens is
\* brought into its range, and nothing is counted.
LEMMA StoredIs ==
  ASSUME ReaderTyped
  PROVE  /\ Stored \in Request /\ Stored.count = req.count
         /\ Stored.text = IF Top = "request" /\ key = Required[endpoint] /\ tok.t = "STRING" THEN tok.s ELSE req.text
<1>1. req \in Request /\ tok.s \in Texts /\ tok.n \in Int /\ endpoint \in Endpoints
  BY DEF ReaderTyped, Token
<1> DEFINE c1 == Top = "request" /\ key = Required[endpoint] /\ tok.t = "STRING"
           c2 == Top = "request" /\ key = "max_tokens" /\ Wanted = "number"
           r1 == [req EXCEPT !.text = tok.s]
           r2 == [req EXCEPT !.max_tokens = Budget(tok.n)]
<1>2. c1 => ~c2
  BY <1>1, SchemaIs, WantedIs
<1>3. Stored = CASE c1 -> r1 [] c2 -> r2 [] OTHER -> req
  BY DEF Stored
<1>4. r1 \in Request /\ r1.count = req.count /\ r1.text = tok.s
  BY <1>1 DEF Request
<1>5. Budget(tok.n) \in 0 .. MaxGenerate
  BY <1>1, ReaderAssumption DEF Budget
<1>6. r2 \in Request /\ r2.count = req.count /\ r2.text = req.text
  BY <1>1, <1>5 DEF Request
<1> HIDE DEF c1, c2, r1, r2
<1>7. CASE c1
  BY <1>2, <1>3, <1>4, <1>7 DEF c1
<1>8. CASE ~c1 /\ c2
  BY <1>3, <1>6, <1>8 DEF c1
<1>9. CASE ~c1 /\ ~c2
  <2>1. Stored = req
    BY <1>3, <1>9
  <2> QED
    BY <1>1, <1>9, <2>1 DEF c1
<1> QED
  BY <1>7, <1>8, <1>9

\* The next item is counted.
LEMMA CountedIs ==
  ASSUME req \in Request, req.count < MaxItems
  PROVE  /\ [req EXCEPT !.count = @ + 1] \in Request
         /\ [req EXCEPT !.count = @ + 1].count = req.count + 1
         /\ [req EXCEPT !.count = @ + 1].text = req.text
BY ReaderAssumption DEF Request

\* The loop around the innermost one.
LEMMA StackIs ==
  ASSUME Bounded, Len(stack) > 0
  PROVE  /\ Len(stack) \in Nat /\ 1 \in 1 .. Len(stack) /\ Top \in Frames
         /\ Top = "request" <=> Len(stack) = 1
         /\ Top # "request" => Len(stack) > 1
         /\ Top \in {"messages", "tokens"} => Len(stack) = 2
         /\ Top = "message" <=> Len(stack) = 3 /\ stack[2] = "messages"
         /\ Top = "messages" => endpoint = "chat"
         /\ Top = "tokens" => endpoint = "detokenize"
         /\ Top = "message" => endpoint = "chat" /\ req.count < MaxItems
<1>1. stack \in Seq(Frames) /\ Shape(stack, endpoint, req.count)
  BY DEF Bounded, StackShape, Shape
<1>2. Len(stack) \in Nat /\ 1 \in 1 .. Len(stack) /\ Top \in Frames
  BY <1>1 DEF Top
<1>3. /\ Top = "request" <=> 1 = Len(stack)
      /\ Top \in {"messages", "tokens"} => 1 = Len(stack) - 1
      /\ Top = "messages" => endpoint = "chat"
      /\ Top = "tokens" => endpoint = "detokenize"
      /\ Top = "message" <=> 1 < Len(stack) /\ stack[1 + 1] = "messages"
      /\ Top = "message" => req.count < MaxItems
  BY <1>1, <1>2, ShapeAt DEF Top
<1>4. ASSUME 1 < Len(stack), stack[2] = "messages"
      PROVE  2 = Len(stack) - 1 /\ endpoint = "chat"
  <2>1. 2 \in 1 .. Len(stack)
    BY <1>2, <1>4
  <2> QED
    BY <1>1, <1>4, <2>1, ShapeAt
<1>5. 1 + 1 = 2
  OBVIOUS
<1>6. Len(stack) = 1 \/ Len(stack) > 1
  <2>1. \A n \in Nat : n > 0 => n = 1 \/ n > 1
    OBVIOUS
  <2> QED
    BY <1>2, <2>1, Zenon
<1> QED
  BY <1>2, <1>3, <1>4, <1>5, <1>6

\* The loops entered by the value of a key, and by an element of a list.
LEMMA LoopEntered ==
  ASSUME Bounded, Len(stack) > 0,
         NEW kind \in {"string", "number", "bool", "messages", "message", "tokens", "any"},
         kind = "messages" => Top = "request" /\ endpoint = "chat",
         kind = "tokens" => Top = "request" /\ endpoint = "detokenize",
         kind = "message" => Top = "messages" /\ req.count < MaxItems,
         Top = "messages" => kind = "message",
         TakeValue(kind)
  PROVE  /\ tok' \in Token /\ read' \in Seq(Token)
         /\ Shape(stack', endpoint, req.count) /\ Len(stack') > 0
         /\ at' \in {"head", "comma"}
<1>1. ReaderTyped /\ Shape(stack, endpoint, req.count) /\ Len(stack) \in Nat /\ stack \in Seq(Frames)
  BY DEF Bounded, StackShape, Shape
<1>2. tok' \in Token /\ read' \in Seq(Token)
  BY <1>1, TakeIs, TokenRead
<1>3. CASE stack' = stack /\ at' = "comma"
  BY <1>1, <1>2, <1>3
<1>4. ASSUME NEW f \in {"messages", "message", "tokens", "object", "array"},
             stack' = <<f>> \o stack, at' = "head",
             kind = "any" => f \in {"object", "array"}, kind # "any" => f = kind,
             kind \in {"messages", "message", "tokens", "any"}
      PROVE  Shape(stack', endpoint, req.count) /\ Len(stack') > 0 /\ at' \in {"head", "comma"}
  <2>1. /\ f = "messages" => stack[1] = "request" /\ endpoint = "chat"
        /\ f = "tokens" => stack[1] = "request" /\ endpoint = "detokenize"
        /\ f = "message" <=> stack[1] = "messages"
        /\ f = "message" => req.count < MaxItems
    BY <1>4 DEF Top
  <2>2. Shape(<<f>> \o stack, endpoint, req.count)
    BY <1>1, <2>1, ShapePush, Zenon
  <2>3. f \in Frames
    BY DEF Frames
  <2>4. Len(<<f>> \o stack) = Len(stack) + 1
    BY <1>1, <2>3, PushIs
  <2> QED
    BY <1>1, <1>4, <2>2, <2>4
<1> QED
  BY <1>2, <1>3, <1>4, TakeIs, Zenon

\* Every step of the parser keeps the types and the shape of the stack: the
\* items stored never exceed messages[] or tokens[].
LEMMA BoundedStep ==
  ASSUME Bounded, ReaderStep
  PROVE  Bounded'
<1>0. /\ ReaderTyped /\ req \in Request /\ endpoint \in Endpoints /\ key \in Texts
      /\ tok \in Token /\ read \in Seq(Token) /\ res \in {"none", "ok", "error"} /\ cut \in BOOLEAN
      /\ Shape(stack, endpoint, req.count) /\ stack \in Seq(Frames) /\ Len(stack) \in Nat
      /\ at \in {"start", "open"} => stack = <<>>
      /\ at \in {"head", "colon", "value", "comma"} => Len(stack) > 0
      /\ at \in {"colon", "value"} => Top \in ObjectFrames
      /\ req.count \in 0 .. MaxItems /\ tok.s \in Texts
  BY DEF Bounded, ReaderTyped, StackShape, Shape, Request, Token
<1>1. CASE Start
  <2>1. tok' \in Token /\ read' \in Seq(Token) /\ at' = "open" /\ UNCHANGED <<endpoint, stack, key, req, res, cut>>
    BY <1>0, <1>1, TokenRead DEF Start
  <2>2. stack = <<>>
    BY <1>0, <1>1 DEF Start
  <2> QED
    BY <1>0, <2>1, <2>2 DEF Bounded, ReaderTyped, StackShape, Places
<1>2. CASE OpenRequest
  <2>1. tok' \in Token /\ read' \in Seq(Token) /\ stack' = <<"request">> /\ at' = "head"
        /\ UNCHANGED <<endpoint, key, req, res, cut>>
    BY <1>0, <1>2, TokenRead DEF OpenRequest
  <2>2. Shape(stack', endpoint, req.count) /\ Len(stack') = 1
    BY <2>1 DEF Shape, Frames
  <2> QED
    BY <1>0, <2>1, <2>2 DEF Bounded, ReaderTyped, StackShape, Places
<1>3. CASE Key
  <2>1. tok' \in Token /\ read' \in Seq(Token) /\ key' = tok.s /\ at' = "colon" /\ Top \in ObjectFrames
        /\ UNCHANGED <<endpoint, stack, req, res, cut>> /\ Len(stack) > 0
    BY <1>0, <1>3, TokenRead DEF Key
  <2>2. Top' = Top
    BY <2>1 DEF Top
  <2> QED
    BY <1>0, <2>1, <2>2 DEF Bounded, ReaderTyped, StackShape, Places
<1>4. CASE Colon
  <2>1. tok' \in Token /\ read' \in Seq(Token) /\ at' = "value" /\ Top \in ObjectFrames
        /\ UNCHANGED <<endpoint, stack, key, req, res, cut>> /\ Len(stack) > 0
    BY <1>0, <1>4, TokenRead DEF Colon
  <2>2. Top' = Top
    BY <2>1 DEF Top
  <2> QED
    BY <1>0, <2>1, <2>2 DEF Bounded, ReaderTyped, StackShape, Places
<1>5. CASE Value
  <2>1. at = "value" /\ TakeValue(Wanted) /\ req' = Stored /\ UNCHANGED <<endpoint, key, res, cut>>
    BY <1>5 DEF Value
  <2>2. Len(stack) > 0 /\ Top \in ObjectFrames
    BY <1>0, <2>1
  <2>3. /\ Wanted = "messages" => Top = "request" /\ endpoint = "chat"
        /\ Wanted = "tokens" => Top = "request" /\ endpoint = "detokenize"
        /\ Wanted # "message" /\ Top # "messages"
        /\ Wanted \in {"string", "number", "bool", "messages", "message", "tokens", "any"}
    <3>1. Top # "messages"
      BY <2>2 DEF ObjectFrames
    <3>2. /\ KindIn(Schema[endpoint], key) = "messages" => endpoint = "chat"
          /\ KindIn(Schema[endpoint], key) = "tokens" => endpoint = "detokenize"
      BY <1>0, SchemaIs
    <3> QED
      BY <1>0, <3>1, <3>2, WantedIs
  <2>4. /\ tok' \in Token /\ read' \in Seq(Token)
        /\ Shape(stack', endpoint, req.count) /\ Len(stack') > 0
        /\ at' \in {"head", "comma"}
    BY <2>1, <2>2, <2>3, LoopEntered, Zenon
  <2>5. req' \in Request /\ req'.count = req.count
    BY <1>0, <2>1, StoredIs
  <2> QED
    BY <1>0, <2>1, <2>4, <2>5 DEF Bounded, ReaderTyped, StackShape, Places
<1>6. CASE Element
  <2>1. /\ at = "head" /\ Top \notin ObjectFrames /\ ~Full /\ TakeValue(ElementKind[Top])
        /\ req' = IF Top = "tokens" THEN [req EXCEPT !.count = @ + 1] ELSE req
        /\ UNCHANGED <<endpoint, key, res, cut>>
    BY <1>6 DEF Element
  <2>2. Len(stack) > 0 /\ Top \in {"messages", "tokens", "array"}
    BY <1>0, <2>1, StackIs DEF ObjectFrames, Frames
  <2>3. Top # "array" => req.count < MaxItems
    BY <1>0, <2>1, ReaderAssumption DEF Full
  <2>4. /\ ElementKind[Top] \in {"message", "number", "any"}
        /\ ElementKind[Top] = "message" <=> Top = "messages"
    BY <2>2, ElementKindsAre
  <2>5. /\ tok' \in Token /\ read' \in Seq(Token)
        /\ Shape(stack', endpoint, req.count) /\ Len(stack') > 0
        /\ at' \in {"head", "comma"}
    <3>1. /\ ElementKind[Top] \in {"string", "number", "bool", "messages", "message", "tokens", "any"}
          /\ ElementKind[Top] # "messages" /\ ElementKind[Top] # "tokens"
          /\ ElementKind[Top] = "message" => Top = "messages" /\ req.count < MaxItems
      BY <2>3, <2>4
    <3> QED
      BY <2>1, <2>2, <2>4, <3>1, LoopEntered, Zenon
  <2>6. req' \in Request
    BY <1>0, <2>1, <2>3, CountedIs
  <2>7. Shape(stack', endpoint, req'.count)
    <3>1. CASE Top # "tokens"
      BY <2>1, <2>5, <3>1
    <3>2. CASE Top = "tokens"
      <4>1. endpoint # "chat"
        BY <2>2, <3>2, StackIs
      <4>2. \A k \in 1 .. Len(stack') : stack'[k] # "message"
        <5>1. SUFFICES ASSUME NEW k \in 1 .. Len(stack'), stack'[k] = "message" PROVE FALSE
          OBVIOUS
        <5>2. k < Len(stack') /\ stack'[k + 1] = "messages"
          BY <2>5, <5>1, ShapeAt
        <5>3. k + 1 \in 1 .. Len(stack')
          <6>1. Len(stack') \in Nat
            BY <2>5 DEF Shape
          <6> QED
            BY <5>2, <6>1
        <5>4. endpoint = "chat"
          BY <2>5, <5>2, <5>3, ShapeAt
        <5> QED
          BY <4>1, <5>4
      <4> QED
        BY <2>5, <4>2 DEF Shape
    <3> QED
      BY <3>1, <3>2
  <2> QED
    BY <1>0, <2>1, <2>5, <2>6, <2>7 DEF Bounded, ReaderTyped, StackShape, Places
<1>7. CASE Break
  <2>1. /\ at = "head" /\ Top \notin ObjectFrames /\ stack' = Tail(stack) /\ at' = "comma" /\ cut' = TRUE
        /\ UNCHANGED <<endpoint, tok, read, key, req, res>>
    BY <1>7 DEF Break
  <2>2. Len(stack) > 1
    <3>1. Len(stack) > 0 /\ Top # "request"
      BY <1>0, <2>1 DEF ObjectFrames
    <3> QED
      BY <3>1, StackIs
  <2>3. Shape(stack', endpoint, req.count) /\ Len(stack') > 0
    BY <1>0, <2>1, <2>2, ShapePop, PopIs
  <2> QED
    BY <1>0, <2>1, <2>3 DEF Bounded, ReaderTyped, StackShape, Places
<1>8. CASE Comma
  <2>1. at = "comma" /\ at' = "head" /\ UNCHANGED <<endpoint, stack, key, req, res, cut>> /\ Len(stack) > 0
    BY <1>0, <1>8 DEF Comma
  <2>2. tok' \in Token /\ read' \in Seq(Token)
    BY <1>0, <1>8, TokenRead DEF Comma
  <2> QED
    BY <1>0, <2>1, <2>2 DEF Bounded, ReaderTyped, StackShape, Places
<1>9. CASE Close
  <2>1. /\ at = "head" /\ Len(stack) > 1 /\ stack' = Tail(stack) /\ at' = "comma"
        /\ req' = IF Top = "message" THEN [req EXCEPT !.count = @ + 1] ELSE req
        /\ UNCHANGED <<endpoint, key, res, cut>>
    BY <1>9 DEF Close
  <2>2. tok' \in Token /\ read' \in Seq(Token)
    BY <1>0, <1>9, TokenRead DEF Close
  <2>3. req' \in Request
    BY <1>0, <2>1, StackIs, CountedIs
  <2>4. req'.count = req.count \/ stack[1] = "message"
    BY <2>1 DEF Top
  <2>5. Shape(stack', endpoint, req'.count) /\ Len(stack') > 0
    BY <1>0, <2>1, <2>4, ShapePop, PopIs
  <2> QED
    BY <1>0, <2>1, <2>2, <2>3, <2>5 DEF Bounded, ReaderTyped, StackShape, Places
<1>10. CASE CloseAtEof
  <2>1. /\ at = "head" /\ Len(stack) > 1 /\ stack' = Tail(stack) /\ at' = "comma"
        /\ UNCHANGED <<endpoint, tok, read, key, req, res, cut>>
    BY <1>10 DEF CloseAtEof
  <2>2. Shape(stack', endpoint, req.count) /\ Len(stack') > 0
    BY <1>0, <2>1, ShapePop, PopIs
  <2> QED
    BY <1>0, <2>1, <2>2 DEF Bounded, ReaderTyped, StackShape, Places
<1>11. CASE Accepted \/ Rejected
  <2>1. at' = "done" /\ res' \in {"ok", "error"} /\ UNCHANGED <<endpoint, tok, read, stack, key, req, cut>>
    BY <1>11 DEF Accepted, Rejected
  <2> QED
    BY <1>0, <2>1 DEF Bounded, ReaderTyped, StackShape, Places
<1> QED
  BY <1>1, <1>2, <1>3, <1>4, <1>5, <1>6, <1>7, <1>8, <1>9, <1>10, <1>11 DEF ReaderStep

----
(* The nesting depth of a token sequence s. *)

CountIn(s, types, i) == Cardinality({j \in 1 .. i - 1 : s[j].t \in types})
DepthIn(s, i) == CountIn(s, Openers, i) - CountIn(s, Closers, i)
OpenerIn(s, i) == {j \in 1 .. i - 1 : s[j].t \in Openers /\ DepthIn(s, j) = DepthIn(s, i) - 1
                                        /\ \A k \in j + 1 .. i : DepthIn(s, k) >= DepthIn(s, i)}
RequiredIn(s, e, i) == /\ i + 2 <= Len(s) /\ s[i] = Text(Required[e])
                       /\ DepthIn(s, i) = 1 /\ s[i + 1].t = "COLON"
ListIn(s, e, i) == \E k \in 1 .. Len(s) : /\ RequiredIn(s, e, k) /\ k + 2 < i
                                          /\ \A j \in k + 3 .. i : DepthIn(s, j) >= 2

\* The reading that the properties are about is that of the tokens read.
LEMMA ReadingIs ==
  /\ \A i : Depth(i) = DepthIn(read, i)
  /\ \A i : OpenerOf(i) = OpenerIn(read, i)
  /\ \A i : RequiredAt(i) <=> RequiredIn(read, endpoint, i)
  /\ \A i : InRequiredList(i) <=> ListIn(read, endpoint, i)
<1>1. \A i : Depth(i) = DepthIn(read, i)
  BY DEF Depth, DepthIn, Count, CountIn
<1>2. \A i : OpenerOf(i) = OpenerIn(read, i)
  BY <1>1 DEF OpenerOf, OpenerIn
<1>3. \A i : RequiredAt(i) <=> RequiredIn(read, endpoint, i)
  BY <1>1 DEF RequiredAt, RequiredIn
<1>4. \A i : InRequiredList(i) <=> ListIn(read, endpoint, i)
  BY <1>1, <1>3 DEF InRequiredList, ListIn, RequiredKeys
<1> QED
  BY <1>1, <1>2, <1>3, <1>4

\* Counting one token further.
LEMMA CountStep ==
  ASSUME NEW s, NEW types, NEW i \in Nat, i >= 1
  PROVE  /\ CountIn(s, types, i) \in Nat
         /\ CountIn(s, types, i + 1) = IF s[i].t \in types THEN CountIn(s, types, i) + 1 ELSE CountIn(s, types, i)
<1> DEFINE A == {j \in 1 .. i - 1 : s[j].t \in types}
           B == {j \in 1 .. (i + 1) - 1 : s[j].t \in types}
<1>1. IsFiniteSet(1 .. i - 1)
  BY FS_Interval
<1>2. IsFiniteSet(A)
  <2>1. A \subseteq 1 .. i - 1
    OBVIOUS
  <2> QED
    BY <1>1, <2>1, FS_Subset
<1>3. Cardinality(A) \in Nat
  BY <1>2, FS_CardinalityType
<1>4. CASE s[i].t \in types
  <2>1. B = A \cup {i} /\ i \notin A
    BY <1>4
  <2>2. Cardinality(B) = Cardinality(A) + 1
    BY <1>2, <2>1, FS_AddElement
  <2> QED
    BY <1>3, <1>4, <2>2 DEF CountIn
<1>5. CASE s[i].t \notin types
  <2>1. B = A
    BY <1>5
  <2> QED
    BY <1>3, <1>5, <2>1 DEF CountIn
<1> QED
  BY <1>4, <1>5

\* An opening bracket leads one level down, a closing one back up.
LEMMA DepthStep ==
  ASSUME NEW s, NEW i \in Nat, i >= 1
  PROVE  /\ DepthIn(s, i) \in Int
         /\ s[i].t \in Openers => DepthIn(s, i + 1) = DepthIn(s, i) + 1
         /\ s[i].t \in Closers => DepthIn(s, i + 1) = DepthIn(s, i) - 1
         /\ s[i].t \notin Openers \cup Closers => DepthIn(s, i + 1) = DepthIn(s, i)
<1>1. /\ CountIn(s, Openers, i) \in Nat
      /\ CountIn(s, Openers, i + 1) = IF s[i].t \in Openers THEN CountIn(s, Openers, i) + 1 ELSE CountIn(s, Openers, i)
  BY CountStep
<1>2. /\ CountIn(s, Closers, i) \in Nat
      /\ CountIn(s, Closers, i + 1) = IF s[i].t \in Closers THEN CountIn(s, Closers, i) + 1 ELSE CountIn(s, Closers, i)
  BY CountStep
<1>3. ~ (s[i].t \in Openers /\ s[i].t \in Closers)
  BY DEF Openers, Closers
<1> QED
  BY <1>1, <1>2, <1>3 DEF DepthIn

\* Outside the brackets the depth is zero.
LEMMA DepthZero ==
  ASSUME NEW s
  PROVE  DepthIn(s, 1) = 0
<1>1. ASSUME NEW types PROVE CountIn(s, types, 1) = 0
  <2>1. {j \in 1 .. 1 - 1 : s[j].t \in types} = {}
    OBVIOUS
  <2> QED
    BY <2>1, FS_EmptySet DEF CountIn
<1> QED
  BY <1>1 DEF DepthIn

\* What is read later changes nothing in the reading of what was read before.
SameReading(s, t, e) ==
    /\ Len(s) \in Nat /\ t \in Seq(Token) /\ Len(t) = Len(s) + 1
    /\ \A i \in 1 .. Len(s) : t[i] = s[i]
    /\ \A i \in 1 .. Len(s) + 1 : DepthIn(t, i) = DepthIn(s, i)
    /\ \A i \in 1 .. Len(s) : OpenerIn(t, i) = OpenerIn(s, i)
    /\ \A i \in 1 .. Len(s) : i + 2 <= Len(s) => (RequiredIn(t, e, i) <=> RequiredIn(s, e, i))
    /\ \A i \in 1 .. Len(s) : ListIn(t, e, i) <=> ListIn(s, e, i)

\* The next token is appended.
LEMMA Stable ==
  ASSUME NEW s \in Seq(Token), NEW x \in Token, NEW t, t = Append(s, x), NEW e
  PROVE  SameReading(s, t, e) /\ t[Len(s) + 1] = x
<1>1. /\ t \in Seq(Token) /\ Len(t) = Len(s) + 1 /\ t[Len(s) + 1] = x /\ Len(s) \in Nat
      /\ \A i \in 1 .. Len(s) : t[i] = s[i]
  OBVIOUS
<1>2. ASSUME NEW i \in 1 .. Len(s) + 1 PROVE DepthIn(t, i) = DepthIn(s, i)
  <2>1. ASSUME NEW types PROVE CountIn(t, types, i) = CountIn(s, types, i)
    <3>1. \A j \in 1 .. i - 1 : t[j] = s[j]
      BY <1>1
    <3>2. {j \in 1 .. i - 1 : t[j].t \in types} = {j \in 1 .. i - 1 : s[j].t \in types}
      BY <3>1
    <3> QED
      BY <3>2 DEF CountIn
  <2> QED
    BY <2>1 DEF DepthIn
<1>3. ASSUME NEW i \in 1 .. Len(s) PROVE OpenerIn(t, i) = OpenerIn(s, i)
  <2>1. \A j \in 1 .. i : DepthIn(t, j) = DepthIn(s, j) /\ t[j] = s[j]
    BY <1>1, <1>2
  <2>2. ASSUME NEW j \in 1 .. i - 1
        PROVE  (t[j].t \in Openers /\ DepthIn(t, j) = DepthIn(t, i) - 1
                  /\ \A k \in j + 1 .. i : DepthIn(t, k) >= DepthIn(t, i))
               <=> (s[j].t \in Openers /\ DepthIn(s, j) = DepthIn(s, i) - 1
                  /\ \A k \in j + 1 .. i : DepthIn(s, k) >= DepthIn(s, i))
    <3>1. j \in 1 .. i /\ i \in 1 .. i /\ \A k \in j + 1 .. i : k \in 1 .. i
      BY <1>1
    <3> QED
      BY <2>1, <3>1, Zenon
  <2> QED
    BY <2>2, Zenon DEF OpenerIn
<1>4. ASSUME NEW i \in 1 .. Len(s), i + 2 <= Len(s) PROVE RequiredIn(t, e, i) <=> RequiredIn(s, e, i)
  <2>1. i + 1 \in 1 .. Len(s) /\ i + 2 <= Len(t) /\ i \in 1 .. Len(s) + 1
    BY <1>1, <1>4
  <2>2. t[i] = s[i] /\ t[i + 1] = s[i + 1] /\ DepthIn(t, i) = DepthIn(s, i)
    BY <1>1, <1>2, <2>1, Zenon
  <2> QED
    BY <1>4, <2>1, <2>2 DEF RequiredIn
<1>5. ASSUME NEW i \in 1 .. Len(s) PROVE ListIn(t, e, i) <=> ListIn(s, e, i)
  <2>1. ASSUME NEW k \in 1 .. Len(t), k + 2 < i
        PROVE  /\ k \in 1 .. Len(s) /\ (RequiredIn(t, e, k) <=> RequiredIn(s, e, k))
               /\ \A j \in k + 3 .. i : DepthIn(t, j) = DepthIn(s, j)
    <3>1. k \in 1 .. Len(s) /\ k + 2 <= Len(s) /\ \A j \in k + 3 .. i : j \in 1 .. Len(s) + 1
      BY <1>1, <2>1
    <3> QED
      BY <1>2, <1>4, <3>1
  <2>2. 1 .. Len(s) \subseteq 1 .. Len(t)
    BY <1>1
  <2> QED
    BY <2>1, <2>2, Zenon DEF ListIn
<1> QED
  BY <1>1, <1>2, <1>3, <1>4, <1>5 DEF SameReading

----
(* The loops and the brackets. *)

\* The bracket that opens a loop, and the one that closes it.
OpenerFor(f) == IF f \in ObjectFrames THEN "LBRACE" ELSE "LBRACKET"
CloserFor(f) == IF f \in ObjectFrames THEN "RBRACE" ELSE "RBRACKET"

\* Loop k of the nesting st was entered with the token at p and is still open; it
\* reads a list of the request iff it is the value of the required field.
OpenedIn(s, e, st, p, k) ==
    /\ s[p].t = OpenerFor(st[k])
    /\ DepthIn(s, p) = Len(st) - k
    /\ \A m \in p + 1 .. Len(s) : DepthIn(s, m) > Len(st) - k
    /\ st[k] \in {"messages", "tokens"} <=> p > 2 /\ RequiredIn(s, e, p - 2)

\* The nesting of loops is that of the brackets consumed.
NestedIn(s, e, st) ==
    /\ DepthIn(s, Len(s)) = Len(st)
    /\ \E pos \in [1 .. Len(st) -> 1 .. Len(s) - 1] : \A k \in 1 .. Len(st) : OpenedIn(s, e, st, pos[k], k)

\* The closing bracket at i, if there is one, closes one of its own type.
MatchedIn(s, i) ==
    /\ s[i].t = "RBRACE" => \E j \in OpenerIn(s, i) : s[j].t = "LBRACE"
    /\ s[i].t = "RBRACKET" => \E j \in OpenerIn(s, i) : s[j].t = "LBRACKET"

\* A loop stays open while tokens are consumed inside it.
LEMMA StaysOpen ==
  ASSUME NEW s \in Seq(Token), NEW x \in Token, NEW t, t = Append(s, x), NEW e,
         NEW st, NEW k, NEW p \in 1 .. Len(s) - 1, OpenedIn(s, e, st, p, k),
         NEW u, NEW l, Len(u) - l = Len(st) - k, u[l] = st[k],
         DepthIn(s, Len(s) + 1) > Len(st) - k
  PROVE  OpenedIn(t, e, u, p, l)
<1>1. /\ Len(t) = Len(s) + 1 /\ Len(s) \in Nat
      /\ \A i \in 1 .. Len(s) : t[i] = s[i]
      /\ \A i \in 1 .. Len(s) + 1 : DepthIn(t, i) = DepthIn(s, i)
      /\ \A i \in 1 .. Len(s) : i + 2 <= Len(s) => (RequiredIn(t, e, i) <=> RequiredIn(s, e, i))
  <2>1. SameReading(s, t, e)
    BY Stable, Zenon
  <2> QED
    BY <2>1 DEF SameReading
<1>2. p \in 1 .. Len(s) /\ p \in 1 .. Len(s) + 1
  BY <1>1
<1>3. t[p].t = OpenerFor(u[l]) /\ DepthIn(t, p) = Len(u) - l
  BY <1>1, <1>2 DEF OpenedIn
<1>4. ASSUME NEW m \in p + 1 .. Len(t) PROVE DepthIn(t, m) > Len(u) - l
  <2>1. m \in 1 .. Len(s) + 1 /\ (m \in p + 1 .. Len(s) \/ m = Len(s) + 1)
    <3>1. \A n \in Nat : \A q \in 1 .. n - 1 : \A j \in q + 1 .. n + 1 :
             j \in 1 .. n + 1 /\ (j \in q + 1 .. n \/ j = n + 1)
      OBVIOUS
    <3>2. Len(s) \in Nat /\ m \in p + 1 .. Len(s) + 1
      BY <1>1, Zenon
    <3> QED
      BY <3>1, <3>2, Zenon
  <2>2. DepthIn(t, m) = DepthIn(s, m)
    BY <1>1, <2>1
  <2> QED
    BY <2>1, <2>2 DEF OpenedIn
<1>5. p > 2 => (RequiredIn(t, e, p - 2) <=> RequiredIn(s, e, p - 2))
  <2>1. SUFFICES ASSUME p > 2 PROVE RequiredIn(t, e, p - 2) <=> RequiredIn(s, e, p - 2)
    OBVIOUS
  <2>2. p - 2 \in 1 .. Len(s) /\ (p - 2) + 2 <= Len(s)
    BY <1>1, <2>1
  <2> QED
    BY <1>1, <2>2
<1>6. u[l] \in {"messages", "tokens"} <=> p > 2 /\ RequiredIn(t, e, p - 2)
  BY <1>5 DEF OpenedIn
<1> QED
  BY <1>3, <1>4, <1>6 DEF OpenedIn

\* A token that is no bracket is consumed.
LEMMA NestKeep ==
  ASSUME NEW s \in Seq(Token), NEW x \in Token, NEW t, t = Append(s, x), NEW e, Len(s) > 0,
         NEW st \in Seq(Frames), NestedIn(s, e, st), s[Len(s)].t \notin Openers \cup Closers
  PROVE  NestedIn(t, e, st)
<1>1. Len(t) = Len(s) + 1 /\ Len(s) \in Nat /\ Len(st) \in Nat
      /\ DepthIn(t, Len(s) + 1) = DepthIn(s, Len(s) + 1)
  <2>1. Len(s) \in Nat /\ Len(st) \in Nat /\ Len(s) + 1 \in 1 .. Len(s) + 1
    OBVIOUS
  <2>2. SameReading(s, t, e)
    BY Stable, Zenon
  <2> QED
    BY <2>1, <2>2 DEF SameReading
<1>2. DepthIn(s, Len(s) + 1) = Len(st) /\ DepthIn(s, Len(s)) = Len(st)
  <2>1. DepthIn(s, Len(s)) = Len(st)
    BY DEF NestedIn
  <2>2. Len(s) \in Nat /\ Len(s) >= 1
    BY <1>1
  <2> QED
    BY <2>1, <2>2, DepthStep
<1>3. PICK pos \in [1 .. Len(st) -> 1 .. Len(s) - 1] : \A k \in 1 .. Len(st) : OpenedIn(s, e, st, pos[k], k)
  BY DEF NestedIn
<1>4. ASSUME NEW k \in 1 .. Len(st) PROVE OpenedIn(t, e, st, pos[k], k)
  <2>1. pos[k] \in 1 .. Len(s) - 1
    BY <1>3
  <2>2. DepthIn(s, Len(s) + 1) > Len(st) - k
    BY <1>1, <1>2
  <2> QED
    BY <1>3, <2>1, <2>2, StaysOpen, Zenon
<1>5. pos \in [1 .. Len(st) -> 1 .. Len(t) - 1]
  BY <1>1, <1>3
<1> QED
  BY <1>1, <1>2, <1>4, <1>5 DEF NestedIn

\* An opening bracket is consumed and its loop entered.
LEMMA NestPush ==
  ASSUME NEW s \in Seq(Token), NEW x \in Token, NEW t, t = Append(s, x), NEW e, Len(s) > 0,
         NEW st \in Seq(Frames), NestedIn(s, e, st),
         NEW f \in Frames, s[Len(s)].t = OpenerFor(f), NEW u, u = <<f>> \o st,
         f \in {"messages", "tokens"} <=> Len(s) > 2 /\ RequiredIn(s, e, Len(s) - 2)
  PROVE  NestedIn(t, e, u)
<1>1. /\ Len(t) = Len(s) + 1 /\ Len(s) \in Nat /\ Len(st) \in Nat
      /\ \A i \in 1 .. Len(s) : t[i] = s[i]
      /\ \A i \in 1 .. Len(s) + 1 : DepthIn(t, i) = DepthIn(s, i)
      /\ \A i \in 1 .. Len(s) : i + 2 <= Len(s) => (RequiredIn(t, e, i) <=> RequiredIn(s, e, i))
  <2>1. Len(s) \in Nat /\ Len(st) \in Nat
    OBVIOUS
  <2>2. SameReading(s, t, e)
    BY Stable, Zenon
  <2> QED
    BY <2>1, <2>2 DEF SameReading
<1>2. /\ Len(u) = Len(st) + 1 /\ u[1] = f
      /\ \A k \in 1 .. Len(st) : u[k + 1] = st[k]
  BY PushIs
<1>3. DepthIn(s, Len(s) + 1) = Len(st) + 1 /\ DepthIn(s, Len(s)) = Len(st)
  <2>1. DepthIn(s, Len(s)) = Len(st)
    BY DEF NestedIn
  <2>2. Len(s) \in Nat /\ Len(s) >= 1
    BY <1>1
  <2>3. s[Len(s)].t \in Openers
    BY DEF OpenerFor, Openers
  <2> QED
    BY <2>1, <2>2, <2>3, DepthStep
<1>4. DepthIn(t, Len(t)) = Len(u)
  BY <1>1, <1>2, <1>3
<1>5. PICK pos \in [1 .. Len(st) -> 1 .. Len(s) - 1] : \A k \in 1 .. Len(st) : OpenedIn(s, e, st, pos[k], k)
  BY DEF NestedIn
<1> DEFINE new == [k \in 1 .. Len(u) |-> IF k = 1 THEN Len(s) ELSE pos[k - 1]]
<1>6. new \in [1 .. Len(u) -> 1 .. Len(t) - 1]
  BY <1>1, <1>2, <1>5
<1>7. ASSUME NEW l \in 1 .. Len(u) PROVE OpenedIn(t, e, u, new[l], l)
  <2>1. CASE l = 1
    <3>1. new[l] = Len(s)
      BY <2>1
    <3>2. Len(s) \in 1 .. Len(s) /\ Len(s) \in 1 .. Len(s) + 1
      BY <1>1
    <3>3. t[Len(s)].t = OpenerFor(u[l]) /\ DepthIn(t, Len(s)) = Len(u) - l
      BY <1>1, <1>2, <1>3, <2>1, <3>2
    <3>4. ASSUME NEW m \in Len(s) + 1 .. Len(t) PROVE DepthIn(t, m) > Len(u) - l
      <4>1. m = Len(t)
        BY <1>1
      <4> QED
        BY <1>1, <1>2, <1>4, <2>1, <4>1
    <3>5. Len(s) > 2 => (RequiredIn(t, e, Len(s) - 2) <=> RequiredIn(s, e, Len(s) - 2))
      <4>1. SUFFICES ASSUME Len(s) > 2 PROVE RequiredIn(t, e, Len(s) - 2) <=> RequiredIn(s, e, Len(s) - 2)
        OBVIOUS
      <4>2. Len(s) - 2 \in 1 .. Len(s) /\ (Len(s) - 2) + 2 <= Len(s)
        BY <1>1, <4>1
      <4> QED
        BY <1>1, <4>2
    <3>6. u[l] \in {"messages", "tokens"} <=> Len(s) > 2 /\ RequiredIn(t, e, Len(s) - 2)
      BY <1>2, <2>1, <3>5
    <3> QED
      BY <3>1, <3>3, <3>4, <3>6 DEF OpenedIn
  <2>2. CASE l # 1
    <3>1. PICK k \in 1 .. Len(st) : k = l - 1 /\ l = k + 1
      BY <1>1, <1>2, <2>2
    <3>2. new[l] = pos[k] /\ pos[k] \in 1 .. Len(s) - 1
      BY <1>5, <2>2, <3>1
    <3>3. Len(u) - l = Len(st) - k /\ u[l] = st[k] /\ DepthIn(s, Len(s) + 1) > Len(st) - k
      BY <1>1, <1>2, <1>3, <3>1
    <3>4. OpenedIn(s, e, st, pos[k], k)
      BY <1>5
    <3>5. OpenedIn(t, e, u, pos[k], l)
      BY <3>2, <3>3, <3>4, StaysOpen, Zenon
    <3> QED
      BY <3>2, <3>5
  <2> QED
    BY <2>1, <2>2
<1> HIDE DEF new
<1> QED
  BY <1>4, <1>6, <1>7 DEF NestedIn

\* A closing bracket is consumed and its loop left.
LEMMA NestPop ==
  ASSUME NEW s \in Seq(Token), NEW x \in Token, NEW t, t = Append(s, x), NEW e, Len(s) > 0,
         NEW st \in Seq(Frames), NestedIn(s, e, st), Len(st) > 0,
         s[Len(s)].t \in Closers, NEW u, u = Tail(st)
  PROVE  NestedIn(t, e, u)
<1>1. Len(t) = Len(s) + 1 /\ Len(s) \in Nat /\ Len(st) \in Nat
      /\ DepthIn(t, Len(s) + 1) = DepthIn(s, Len(s) + 1)
  <2>1. Len(s) \in Nat /\ Len(st) \in Nat /\ Len(s) + 1 \in 1 .. Len(s) + 1
    OBVIOUS
  <2>2. SameReading(s, t, e)
    BY Stable, Zenon
  <2> QED
    BY <2>1, <2>2 DEF SameReading
<1>2. Len(u) = Len(st) - 1 /\ \A k \in 1 .. Len(u) : u[k] = st[k + 1]
  BY PopIs
<1>3. DepthIn(s, Len(s) + 1) = Len(st) - 1
  <2>1. DepthIn(s, Len(s)) = Len(st)
    BY DEF NestedIn
  <2>2. Len(s) \in Nat /\ Len(s) >= 1
    BY <1>1
  <2> QED
    BY <2>1, <2>2, DepthStep
<1>4. DepthIn(t, Len(t)) = Len(u)
  BY <1>1, <1>2, <1>3
<1>5. PICK pos \in [1 .. Len(st) -> 1 .. Len(s) - 1] : \A k \in 1 .. Len(st) : OpenedIn(s, e, st, pos[k], k)
  BY DEF NestedIn
<1> DEFINE new == [k \in 1 .. Len(u) |-> pos[k + 1]]
<1>6. new \in [1 .. Len(u) -> 1 .. Len(t) - 1]
  BY <1>1, <1>2, <1>5
<1>7. ASSUME NEW l \in 1 .. Len(u) PROVE OpenedIn(t, e, u, new[l], l)
  <2>1. PICK k \in 1 .. Len(st) : k = l + 1
    BY <1>1, <1>2
  <2>2. new[l] = pos[k] /\ pos[k] \in 1 .. Len(s) - 1
    BY <1>5, <2>1
  <2>3. Len(u) - l = Len(st) - k /\ u[l] = st[k] /\ DepthIn(s, Len(s) + 1) > Len(st) - k
    BY <1>1, <1>2, <1>3, <2>1
  <2>4. OpenedIn(s, e, st, pos[k], k)
    BY <1>5
  <2>5. OpenedIn(t, e, u, pos[k], l)
    BY <2>2, <2>3, <2>4, StaysOpen, Zenon
  <2> QED
    BY <2>2, <2>5
<1> HIDE DEF new
<1> QED
  BY <1>4, <1>6, <1>7 DEF NestedIn

\* The bracket that ends the innermost loop closes the one that opened it.
LEMMA NestMatched ==
  ASSUME NEW s \in Seq(Token), NEW e, Len(s) > 0,
         NEW st \in Seq(Frames), NestedIn(s, e, st), Len(st) > 0, s[Len(s)].t = CloserFor(st[1])
  PROVE  MatchedIn(s, Len(s))
<1>1. Len(s) \in Nat /\ Len(st) \in Nat /\ 1 \in 1 .. Len(st) /\ DepthIn(s, Len(s)) = Len(st)
  BY DEF NestedIn
<1>2. PICK p \in 1 .. Len(s) - 1 : OpenedIn(s, e, st, p, 1)
  <2>1. PICK pos \in [1 .. Len(st) -> 1 .. Len(s) - 1] : \A k \in 1 .. Len(st) : OpenedIn(s, e, st, pos[k], k)
    BY DEF NestedIn
  <2> QED
    BY <1>1, <2>1
<1>3. s[p].t \in Openers /\ DepthIn(s, p) = DepthIn(s, Len(s)) - 1
  BY <1>1, <1>2 DEF OpenedIn, OpenerFor, Openers
<1>4. ASSUME NEW m \in p + 1 .. Len(s) PROVE DepthIn(s, m) >= DepthIn(s, Len(s))
  <2>1. DepthIn(s, m) > Len(st) - 1
    BY <1>2, <1>4 DEF OpenedIn
  <2>2. DepthIn(s, m) \in Int
    <3>1. m \in Nat /\ m >= 1
      BY <1>1
    <3> QED
      BY <3>1, DepthStep
  <2> QED
    BY <1>1, <2>1, <2>2
<1>5. p \in OpenerIn(s, Len(s))
  BY <1>3, <1>4 DEF OpenerIn
<1>6. s[p].t = OpenerFor(st[1])
  BY <1>2 DEF OpenedIn
<1> QED
  BY <1>5, <1>6 DEF MatchedIn, OpenerFor, CloserFor

\* The value after a key and a colon is that of the required field iff the key is
\* its name and the request itself is the innermost loop.
LEMMA KeyRead ==
  ASSUME NEW s \in Seq(Token), NEW e, Len(s) > 2, NEW st \in Seq(Frames), NestedIn(s, e, st),
         NEW k, s[Len(s) - 2] = Text(k), s[Len(s) - 1].t = "COLON"
  PROVE  RequiredIn(s, e, Len(s) - 2) <=> k = Required[e] /\ Len(st) = 1
<1> DEFINE n == Len(s)
<1>1. n \in Nat /\ n - 2 \in Nat /\ n - 2 >= 1 /\ n - 1 \in Nat /\ n - 1 >= 1
      /\ (n - 2) + 1 = n - 1 /\ (n - 1) + 1 = n /\ (n - 2) + 2 <= n
  OBVIOUS
<1>2. s[n - 2].t \notin Openers \cup Closers /\ s[n - 1].t \notin Openers \cup Closers
  BY DEF Text, Openers, Closers
<1> HIDE DEF n
<1>3. DepthIn(s, n - 1) = DepthIn(s, n - 2)
  <2>1. DepthIn(s, (n - 2) + 1) = DepthIn(s, n - 2)
    BY <1>1, <1>2, DepthStep
  <2> QED
    BY <1>1, <2>1
<1>4. DepthIn(s, n) = DepthIn(s, n - 1)
  <2>1. DepthIn(s, (n - 1) + 1) = DepthIn(s, n - 1)
    BY <1>1, <1>2, DepthStep
  <2> QED
    BY <1>1, <2>1
<1>5. DepthIn(s, n) = Len(st)
  BY DEF NestedIn, n
<1>6. s[n - 2] = Text(k) /\ s[n - 1].t = "COLON" /\ n = Len(s)
  BY DEF n
<1>7. Text(k) = Text(Required[e]) <=> k = Required[e]
  BY DEF Text
<1>8. RequiredIn(s, e, n - 2) <=> k = Required[e] /\ Len(st) = 1
  BY <1>1, <1>3, <1>4, <1>5, <1>6, <1>7 DEF RequiredIn
<1> QED
  BY <1>8 DEF n

\* A token at depth 2, or at depth 3, is in the required list iff the loop around
\* it, or around that one, is the one that reads the list.
LEMMA InList ==
  ASSUME NEW s \in Seq(Token), NEW e, Len(s) > 0,
         NEW st \in Seq(Frames), NestedIn(s, e, st), Len(st) \in {2, 3}
  PROVE  ListIn(s, e, Len(s)) <=> st[Len(st) - 1] \in {"messages", "tokens"}
<1>1. Len(s) \in Nat /\ Len(st) - 1 \in 1 .. Len(st) /\ Len(st) - (Len(st) - 1) = 1
  <2>1. \A d \in {2, 3} : d - 1 \in 1 .. d /\ d - (d - 1) = 1
    OBVIOUS
  <2>2. Len(s) \in Nat
    OBVIOUS
  <2> QED
    BY <2>1, <2>2, Zenon
<1>2. PICK p \in 1 .. Len(s) - 1 : OpenedIn(s, e, st, p, Len(st) - 1)
  <2>1. PICK pos \in [1 .. Len(st) -> 1 .. Len(s) - 1] : \A k \in 1 .. Len(st) : OpenedIn(s, e, st, pos[k], k)
    BY DEF NestedIn
  <2> QED
    BY <1>1, <2>1
<1>3. DepthIn(s, p) = 1 /\ \A m \in p + 1 .. Len(s) : DepthIn(s, m) > 1
  BY <1>1, <1>2 DEF OpenedIn
<1>4. st[Len(st) - 1] \in {"messages", "tokens"} <=> p > 2 /\ RequiredIn(s, e, p - 2)
  BY <1>2 DEF OpenedIn
<1>5. ASSUME ListIn(s, e, Len(s)) PROVE p > 2 /\ RequiredIn(s, e, p - 2)
  <2>1. PICK k \in 1 .. Len(s) : /\ RequiredIn(s, e, k) /\ k + 2 < Len(s)
                                 /\ \A j \in k + 3 .. Len(s) : DepthIn(s, j) >= 2
    BY <1>5 DEF ListIn
  <2>2. DepthIn(s, k) = 1 /\ s[k].t = "STRING" /\ s[k + 1].t = "COLON"
    BY <2>1 DEF RequiredIn, Text
  <2>3. DepthIn(s, k + 2) = 1
    <3>1. k \in Nat /\ k >= 1 /\ k + 1 \in Nat /\ k + 1 >= 1 /\ (k + 1) + 1 = k + 2
      BY <1>1
    <3>2. DepthIn(s, k + 1) = DepthIn(s, k)
      BY <2>2, <3>1, DepthStep DEF Openers, Closers
    <3>3. DepthIn(s, (k + 1) + 1) = DepthIn(s, k + 1)
      BY <2>2, <3>1, DepthStep DEF Openers, Closers
    <3> QED
      BY <2>2, <3>1, <3>2, <3>3
  <2>4. ~ (p \in k + 3 .. Len(s))
    BY <1>3, <2>1
  <2>5. ~ (k + 2 \in p + 1 .. Len(s))
    BY <1>3, <2>3
  <2>6. p = k + 2
    BY <1>1, <2>1, <2>4, <2>5
  <2>7. p > 2 /\ p - 2 = k
    BY <1>1, <2>6
  <2> QED
    BY <2>1, <2>7
<1>6. ASSUME p > 2, RequiredIn(s, e, p - 2) PROVE ListIn(s, e, Len(s))
  <2>1. PICK k \in 1 .. Len(s) : k = p - 2
    BY <1>1, <1>6
  <2>2. k + 2 < Len(s) /\ k + 3 = p + 1
    BY <1>1, <2>1
  <2>3. ASSUME NEW j \in k + 3 .. Len(s) PROVE DepthIn(s, j) >= 2
    <3>1. j \in Nat /\ j >= 1 /\ j \in p + 1 .. Len(s)
      BY <1>1, <2>2
    <3>2. DepthIn(s, j) \in Int /\ DepthIn(s, j) > 1
      BY <1>3, <3>1, DepthStep
    <3> QED
      BY <3>2
  <2> QED
    BY <1>6, <2>1, <2>2, <2>3 DEF ListIn
<1> QED
  BY <1>4, <1>5, <1>6

----
(* The fields, as a function of the tokens consumed. *)

\* The top-level occurrences of the required key whose value has been consumed.
ValuesIn(s, e) == {i \in 1 .. Len(s) : RequiredIn(s, e, i) /\ i + 2 < Len(s)}
TextIs(s, e, text) ==
    IF Schema[e][Required[e]] # "string" \/ ValuesIn(s, e) = {} THEN text = ""
    ELSE \E i \in ValuesIn(s, e) : (\A j \in ValuesIn(s, e) : j <= i) /\ text = s[i + 2].s

\* The token that ends an item of the required list, and the items consumed.
ItemAt(s, e, i) ==
    \/ e = "chat" /\ s[i].t = "RBRACE" /\ DepthIn(s, i) = 3 /\ ListIn(s, e, i)
    \/ e = "detokenize" /\ s[i].t = "NUMBER" /\ DepthIn(s, i) = 2 /\ ListIn(s, e, i)
ItemsIn(s, e) == {i \in 1 .. Len(s) - 1 : ItemAt(s, e, i)}

\* What the tokens consumed tell about the request r, and that they are nested.
Fields(s, e, r) ==
    /\ \A i \in 1 .. Len(s) - 1 : MatchedIn(s, i)
    /\ TextIs(s, e, r.text)
    /\ r.count = Cardinality(ItemsIn(s, e))

\* The token that is consumed is the value of a top-level required key.
ValueHere(s, e) == Len(s) > 2 /\ RequiredIn(s, e, Len(s) - 2)

\* The text after one more token.
LEMMA TextStep ==
  ASSUME NEW s \in Seq(Token), NEW x \in Token, NEW t, t = Append(s, x), NEW e, Len(s) > 0,
         NEW old, TextIs(s, e, old), NEW new,
         ValueHere(s, e) /\ Schema[e][Required[e]] = "string" => new = s[Len(s)].s,
         ~ (ValueHere(s, e) /\ Schema[e][Required[e]] = "string") => new = old
  PROVE  TextIs(t, e, new)
<1>1. /\ Len(t) = Len(s) + 1 /\ Len(s) \in Nat
      /\ \A i \in 1 .. Len(s) : t[i] = s[i]
      /\ \A i \in 1 .. Len(s) : i + 2 <= Len(s) => (RequiredIn(t, e, i) <=> RequiredIn(s, e, i))
  <2>1. SameReading(s, t, e)
    BY Stable, Zenon
  <2> QED
    BY <2>1 DEF SameReading
<1>2. ASSUME Schema[e][Required[e]] # "string" PROVE TextIs(t, e, new)
  BY <1>2 DEF TextIs
<1>3. ASSUME Schema[e][Required[e]] = "string", ValueHere(s, e) PROVE TextIs(t, e, new)
  <2>1. PICK k \in 1 .. Len(s) : k = Len(s) - 2 /\ k + 2 = Len(s)
    BY <1>1, <1>3 DEF ValueHere
  <2>2. k \in ValuesIn(t, e)
    <3>1. RequiredIn(s, e, k)
      BY <1>3, <2>1 DEF ValueHere
    <3>2. k + 2 <= Len(s) /\ k + 2 < Len(t) /\ k \in 1 .. Len(t)
      BY <1>1, <2>1
    <3> QED
      BY <1>1, <3>1, <3>2 DEF ValuesIn
  <2>3. \A j \in ValuesIn(t, e) : j <= k
    BY <1>1, <2>1 DEF ValuesIn
  <2>4. new = t[k + 2].s
    <3>1. Len(s) \in 1 .. Len(s)
      BY <1>1
    <3> QED
      BY <1>1, <1>3, <2>1, <3>1
  <2> QED
    BY <1>3, <2>2, <2>3, <2>4 DEF TextIs
<1>4. ASSUME Schema[e][Required[e]] = "string", ~ValueHere(s, e) PROVE TextIs(t, e, new)
  <2>1. ASSUME NEW i, i \in ValuesIn(t, e) PROVE i \in ValuesIn(s, e)
    <3>1. i \in 1 .. Len(t) /\ RequiredIn(t, e, i) /\ i + 2 < Len(t)
      BY <2>1 DEF ValuesIn
    <3>2. i \in 1 .. Len(s) /\ i + 2 <= Len(s)
      BY <1>1, <3>1
    <3>3. RequiredIn(s, e, i)
      BY <1>1, <3>1, <3>2
    <3>4. i + 2 # Len(s)
      <4>1. SUFFICES ASSUME i + 2 = Len(s) PROVE FALSE
        OBVIOUS
      <4>2. Len(s) > 2 /\ i = Len(s) - 2
        BY <1>1, <3>2, <4>1
      <4> QED
        BY <1>4, <3>3, <4>2 DEF ValueHere
    <3>5. i + 2 < Len(s)
      BY <1>1, <3>2, <3>4
    <3> QED
      BY <3>2, <3>3, <3>5 DEF ValuesIn
  <2>2. ASSUME NEW i, i \in ValuesIn(s, e) PROVE i \in ValuesIn(t, e) /\ t[i + 2] = s[i + 2]
    <3>1. i \in 1 .. Len(s) /\ RequiredIn(s, e, i) /\ i + 2 < Len(s)
      BY <2>2 DEF ValuesIn
    <3>2. i \in 1 .. Len(t) /\ i + 2 <= Len(s) /\ i + 2 < Len(t) /\ i + 2 \in 1 .. Len(s)
      BY <1>1, <3>1
    <3> QED
      BY <1>1, <3>1, <3>2 DEF ValuesIn
  <2>3. ValuesIn(t, e) = ValuesIn(s, e)
    BY <2>1, <2>2
  <2>4. new = old
    BY <1>4
  <2> QED
    BY <2>2, <2>3, <2>4 DEF TextIs
<1> QED
  BY <1>2, <1>3, <1>4

\* The items after one more token.
LEMMA ItemStep ==
  ASSUME NEW s \in Seq(Token), NEW x \in Token, NEW t, t = Append(s, x), NEW e, Len(s) > 0
  PROVE  Cardinality(ItemsIn(t, e))
           = IF ItemAt(s, e, Len(s)) THEN Cardinality(ItemsIn(s, e)) + 1 ELSE Cardinality(ItemsIn(s, e))
<1>1. /\ Len(t) = Len(s) + 1 /\ Len(s) \in Nat
      /\ \A i \in 1 .. Len(s) : t[i] = s[i]
      /\ \A i \in 1 .. Len(s) + 1 : DepthIn(t, i) = DepthIn(s, i)
      /\ \A i \in 1 .. Len(s) : ListIn(t, e, i) <=> ListIn(s, e, i)
  <2>1. SameReading(s, t, e)
    BY Stable, Zenon
  <2> QED
    BY <2>1 DEF SameReading
<1>2. ASSUME NEW i \in 1 .. Len(s) PROVE ItemAt(t, e, i) <=> ItemAt(s, e, i)
  <2>1. i \in 1 .. Len(s) + 1
    BY <1>1
  <2>2. t[i] = s[i] /\ DepthIn(t, i) = DepthIn(s, i) /\ (ListIn(t, e, i) <=> ListIn(s, e, i))
    BY <1>1, <2>1
  <2> QED
    BY <2>2 DEF ItemAt
<1>3. IsFiniteSet(ItemsIn(s, e))
  <2>1. ItemsIn(s, e) \subseteq 1 .. Len(s) - 1
    BY DEF ItemsIn
  <2>2. IsFiniteSet(1 .. Len(s) - 1)
    <3>1. 1 \in Int /\ Len(s) - 1 \in Int
      BY <1>1
    <3> QED
      BY <3>1, FS_Interval
  <2> QED
    BY <2>1, <2>2, FS_Subset
<1>4. Len(t) - 1 = Len(s)
  BY <1>1
<1>5. CASE ItemAt(s, e, Len(s))
  <2>1. ItemsIn(t, e) = ItemsIn(s, e) \cup {Len(s)} /\ Len(s) \notin ItemsIn(s, e)
    <3>1. ItemsIn(t, e) = {i \in 1 .. Len(s) : ItemAt(s, e, i)}
      BY <1>2, <1>4, Zenon DEF ItemsIn
    <3>2. \A i : i \in 1 .. Len(s) <=> i \in 1 .. Len(s) - 1 \/ i = Len(s)
      BY <1>1
    <3>3. Len(s) \notin 1 .. Len(s) - 1
      BY <1>1
    <3> QED
      BY <1>5, <3>1, <3>2, <3>3 DEF ItemsIn
  <2>2. Cardinality(ItemsIn(s, e) \cup {Len(s)}) = Cardinality(ItemsIn(s, e)) + 1
    BY <1>3, <2>1, FS_AddElement
  <2> QED
    BY <1>5, <2>1, <2>2
<1>6. CASE ~ItemAt(s, e, Len(s))
  <2>1. ItemsIn(t, e) = ItemsIn(s, e)
    <3>1. ItemsIn(t, e) = {i \in 1 .. Len(s) : ItemAt(s, e, i)}
      BY <1>2, <1>4, Zenon DEF ItemsIn
    <3>2. \A i : i \in 1 .. Len(s) <=> i \in 1 .. Len(s) - 1 \/ i = Len(s)
      BY <1>1
    <3> QED
      BY <1>6, <3>1, <3>2 DEF ItemsIn
  <2> QED
    BY <1>6, <2>1
<1> QED
  BY <1>5, <1>6

\* A token is consumed, and the request holds what the tokens tell again.
LEMMA FieldsStep ==
  ASSUME NEW s \in Seq(Token), NEW x \in Token, NEW t, t = Append(s, x), NEW e, Len(s) > 0,
         NEW r, NEW q, Fields(s, e, r), MatchedIn(s, Len(s)),
         ValueHere(s, e) /\ Schema[e][Required[e]] = "string" => q.text = s[Len(s)].s,
         ~ (ValueHere(s, e) /\ Schema[e][Required[e]] = "string") => q.text = r.text,
         q.count = IF ItemAt(s, e, Len(s)) THEN r.count + 1 ELSE r.count
  PROVE  Fields(t, e, q)
<1>1. TextIs(t, e, q.text)
  <2>1. TextIs(s, e, r.text)
    BY DEF Fields
  <2> QED
    BY <2>1, TextStep, Zenon
<1>2. q.count = Cardinality(ItemsIn(t, e))
  BY ItemStep DEF Fields
<1>3. ASSUME NEW i \in 1 .. Len(t) - 1 PROVE MatchedIn(t, i)
  <2>1. /\ Len(t) = Len(s) + 1 /\ Len(s) \in Nat
        /\ \A j \in 1 .. Len(s) : t[j] = s[j] /\ OpenerIn(t, j) = OpenerIn(s, j)
    <3>1. SameReading(s, t, e)
      BY Stable, Zenon
    <3> QED
      BY <3>1 DEF SameReading
  <2>2. i \in 1 .. Len(s) /\ (i \in 1 .. Len(s) - 1 \/ i = Len(s))
    BY <2>1
  <2>3. MatchedIn(s, i)
    BY <2>2 DEF Fields
  <2>4. \A j \in OpenerIn(s, i) : j \in 1 .. Len(s)
    BY <2>1, <2>2 DEF OpenerIn
  <2> QED
    BY <2>1, <2>2, <2>3, <2>4 DEF MatchedIn
<1> QED
  BY <1>1, <1>2, <1>3 DEF Fields

----
(* The invariant of the parser. *)

\* The last tokens, as far as the place in the loop tells.
Recent ==
    /\ Len(read) > 0 /\ tok = read[Len(read)]
    /\ at = "open" => Len(read) = 1
    /\ at = "colon" => Len(read) > 1 /\ read[Len(read) - 1] = Text(key)
    /\ at = "value" => Len(read) > 2 /\ read[Len(read) - 2] = Text(key) /\ read[Len(read) - 1].t = "COLON"
    /\ at # "value" /\ Len(read) > 1 => read[Len(read) - 1].t # "COLON"

\* While the parser runs and no list was left in its middle, the loops are the
\* open brackets (the end of the input leaves the loops one by one) and the
\* request holds what the tokens consumed tell.
History ==
    /\ Recent
    /\ tok.t # "EOF" => NestedIn(read, endpoint, stack)
    /\ Fields(read, endpoint, req)

\* When the document is accepted, the token in hand is the end of the input or
\* the bracket that closes the request, and no field is outstanding.
Outcome ==
    res = "ok" /\ ~cut =>
        /\ Len(read) > 0 /\ Fields(read, endpoint, req)
        /\ MatchedIn(read, Len(read)) /\ ~ValueHere(read, endpoint) /\ ~ItemAt(read, endpoint, Len(read))

ReaderInv ==
    /\ Bounded
    /\ at = "start" => read = <<>> /\ req = NoRequest
    /\ res # "none" => at = "done"
    /\ ~cut /\ at \in {"open", "head", "colon", "value", "comma"} => History
    /\ Outcome

\* The first token is read.
LEMMA HistoryStarts ==
  ASSUME ReaderTyped, stack = <<>>, req = NoRequest, read = <<>>, json_next_token, at' = "open",
         UNCHANGED <<endpoint, stack, key, req, res, cut>>
  PROVE  History'
<1>1. tok' \in Token /\ read' = Append(read, tok') /\ read' \in Seq(Token)
  BY TokenRead
<1>2. Len(read') = 1 /\ read'[1] = tok'
  BY <1>1
<1>3. Recent'
  BY <1>2 DEF Recent
<1>4. NestedIn(read', endpoint, stack)
  <2>1. Len(stack) = 0 /\ DepthIn(read', Len(read')) = 0
    BY <1>2, DepthZero
  <2>2. [k \in 1 .. Len(stack) |-> 0] \in [1 .. Len(stack) -> 1 .. Len(read') - 1]
    BY <2>1
  <2>3. \A k \in 1 .. Len(stack) : FALSE
    BY <2>1
  <2> QED
    BY <2>1, <2>2, <2>3 DEF NestedIn
<1>5. Fields(read', endpoint, req)
  <2>1. \A i \in 1 .. Len(read') - 1 : FALSE
    BY <1>2
  <2>2. ValuesIn(read', endpoint) = {}
    BY <1>2 DEF ValuesIn
  <2>3. ItemsIn(read', endpoint) = {}
    BY <2>1 DEF ItemsIn
  <2>4. req.text = "" /\ req.count = 0
    BY DEF NoRequest
  <2>5. TextIs(read', endpoint, req.text)
    BY <2>2, <2>4 DEF TextIs
  <2> QED
    BY <2>1, <2>3, <2>4, <2>5, FS_EmptySet DEF Fields
<1> QED
  BY <1>3, <1>4, <1>5 DEF History

\* A token that is no COLON is consumed outside "value" and leads there only by Colon.
LEMMA RecentStep ==
  ASSUME ReaderTyped, History, json_next_token, at' \in {"head", "comma"}, tok.t # "COLON"
  PROVE  Recent'
<1>1. tok' \in Token /\ read' = Append(read, tok') /\ read \in Seq(Token)
  BY TokenRead DEF ReaderTyped
<1>2. Len(read') = Len(read) + 1 /\ Len(read) \in Nat /\ Len(read) > 0
      /\ read'[Len(read')] = tok' /\ read'[Len(read)] = read[Len(read)]
  BY <1>1 DEF History, Recent
<1>3. tok = read[Len(read)] /\ Len(read') - 1 = Len(read) /\ Len(read') > 0
  BY <1>2 DEF History, Recent
<1> QED
  BY <1>2, <1>3 DEF Recent

\* The token in hand is the value of the required key only in "value", in the
\* loop of the request, after that key.
LEMMA HereIs ==
  ASSUME Bounded, History, tok.t # "EOF"
  PROVE  ValueHere(read, endpoint) <=> at = "value" /\ Top = "request" /\ key = Required[endpoint]
<1>1. read \in Seq(Token) /\ stack \in Seq(Frames) /\ NestedIn(read, endpoint, stack) /\ Recent
  BY DEF Bounded, ReaderTyped, StackShape, Shape, History
<1>2. CASE at = "value"
  <2>1. Len(read) > 2 /\ read[Len(read) - 2] = Text(key) /\ read[Len(read) - 1].t = "COLON"
    BY <1>1, <1>2 DEF Recent
  <2>2. RequiredIn(read, endpoint, Len(read) - 2) <=> key = Required[endpoint] /\ Len(stack) = 1
    BY <1>1, <2>1, KeyRead, Zenon
  <2>3. Top = "request" <=> Len(stack) = 1
    BY <1>2, StackIs DEF Bounded, StackShape
  <2> QED
    BY <1>2, <2>1, <2>2, <2>3 DEF ValueHere
<1>3. CASE at # "value"
  <2>1. SUFFICES ASSUME ValueHere(read, endpoint) PROVE FALSE
    BY <1>3
  <2>2. Len(read) \in Nat /\ Len(read) > 2 /\ RequiredIn(read, endpoint, Len(read) - 2)
    BY <1>1, <2>1 DEF ValueHere
  <2>3. Len(read) > 1 /\ (Len(read) - 2) + 1 = Len(read) - 1
    BY <2>2
  <2>4. read[Len(read) - 1].t = "COLON"
    BY <2>2, <2>3 DEF RequiredIn
  <2> QED
    BY <1>1, <1>3, <2>3, <2>4 DEF Recent
<1> QED
  BY <1>2, <1>3

\* The token in hand is an item of the required list iff the innermost loop is a
\* message that it closes, or the tokens of which it is one.
LEMMA ItemIs ==
  ASSUME Bounded, History, tok.t # "EOF", Len(stack) > 0
  PROVE  ItemAt(read, endpoint, Len(read))
           <=> (Top = "message" /\ tok.t = "RBRACE") \/ (Top = "tokens" /\ tok.t = "NUMBER")
<1>1. read \in Seq(Token) /\ stack \in Seq(Frames) /\ NestedIn(read, endpoint, stack) /\ Recent
      /\ Shape(stack, endpoint, req.count)
  BY DEF Bounded, ReaderTyped, StackShape, Shape, History
<1>2. Len(read) > 0 /\ tok = read[Len(read)] /\ DepthIn(read, Len(read)) = Len(stack)
  BY <1>1 DEF Recent, NestedIn
<1>3. Len(stack) \in {2, 3} => (ListIn(read, endpoint, Len(read)) <=> stack[Len(stack) - 1] \in {"messages", "tokens"})
  BY <1>1, <1>2, InList, Zenon
<1>4. /\ Top \in {"messages", "tokens"} => Len(stack) = 2
      /\ Top = "message" <=> Len(stack) = 3 /\ stack[2] = "messages"
      /\ Top = "messages" => endpoint = "chat"
      /\ Top = "tokens" => endpoint = "detokenize"
      /\ Top = "message" => endpoint = "chat"
  BY StackIs
<1>5. Len(stack) = 3 /\ stack[2] = "tokens" => endpoint = "detokenize"
  <2>1. Len(stack) = 3 => 2 \in 1 .. Len(stack)
    OBVIOUS
  <2> QED
    BY <1>1, <2>1, ShapeAt
<1>6. endpoint = "chat" => (Len(stack) = 3 /\ ListIn(read, endpoint, Len(read)) <=> Top = "message")
  <2>1. Len(stack) = 3 => Len(stack) \in {2, 3} /\ Len(stack) - 1 = 2
    OBVIOUS
  <2> QED
    BY <1>3, <1>4, <1>5, <2>1
<1>7. endpoint = "detokenize" => (Len(stack) = 2 /\ ListIn(read, endpoint, Len(read)) <=> Top = "tokens")
  <2>1. Len(stack) = 2 => Len(stack) \in {2, 3} /\ Len(stack) - 1 = 1
    OBVIOUS
  <2> QED
    BY <1>3, <1>4, <2>1 DEF Top
<1> QED
  BY <1>2, <1>4, <1>6, <1>7 DEF ItemAt

\* A token is consumed: what is left to show of the loops, the brackets and the request.
LEMMA HistoryStep ==
  ASSUME Bounded, History, json_next_token, endpoint' = endpoint, tok.t # "EOF", Recent',
         NestedIn(read', endpoint, stack'), MatchedIn(read, Len(read)),
         req'.text = IF /\ at = "value" /\ Top = "request" /\ key = Required[endpoint]
                        /\ Schema[endpoint][Required[endpoint]] = "string"
                     THEN tok.s ELSE req.text,
         req'.count = IF ItemAt(read, endpoint, Len(read)) THEN req.count + 1 ELSE req.count
  PROVE  History'
<1>1. tok' \in Token /\ read' = Append(read, tok') /\ read \in Seq(Token)
  BY TokenRead DEF Bounded, ReaderTyped
<1>2. Len(read) > 0 /\ tok = read[Len(read)] /\ Fields(read, endpoint, req)
  BY DEF History, Recent
<1>3. ValueHere(read, endpoint) <=> at = "value" /\ Top = "request" /\ key = Required[endpoint]
  BY HereIs
<1>4. /\ ValueHere(read, endpoint) /\ Schema[endpoint][Required[endpoint]] = "string"
           => req'.text = read[Len(read)].s
      /\ ~ (ValueHere(read, endpoint) /\ Schema[endpoint][Required[endpoint]] = "string")
           => req'.text = req.text
  BY <1>2, <1>3
<1>5. Fields(read', endpoint, req')
  BY <1>1, <1>2, <1>4, FieldsStep, Zenon
<1> QED
  BY <1>5 DEF History

\* A token that is no closing bracket needs no match.
LEMMA NoCloser ==
  ASSUME NEW s, NEW i, s[i].t \notin Closers
  PROVE  MatchedIn(s, i)
BY DEF MatchedIn, Closers

\* The value of a key or an element of a list is consumed.
LEMMA HistoryTake ==
  ASSUME Bounded, History, Len(stack) > 0, endpoint' = endpoint,
         NEW kind \in {"string", "number", "bool", "messages", "message", "tokens", "any"}, TakeValue(kind),
         kind \in {"messages", "tokens"} <=> tok.t \in Openers /\ at = "value" /\ Top = "request" /\ key = Required[endpoint],
         req'.text = IF /\ at = "value" /\ Top = "request" /\ key = Required[endpoint]
                        /\ Schema[endpoint][Required[endpoint]] = "string"
                     THEN tok.s ELSE req.text,
         req'.count = IF Top = "tokens" /\ tok.t = "NUMBER" THEN req.count + 1 ELSE req.count
  PROVE  History'
<1>1. /\ tok.t # "EOF" /\ tok.t # "COLON" /\ tok.t # "RBRACE" /\ tok.t \notin Closers
      /\ json_next_token /\ at' \in {"head", "comma"}
  <2>1. /\ tok.t \in {"STRING", "NUMBER", "TRUE", "FALSE", "NULL", "LBRACE", "LBRACKET"}
        /\ json_next_token /\ at' \in {"head", "comma"}
    BY TakeIs
  <2> QED
    BY <2>1 DEF Closers
<1>2. /\ read \in Seq(Token) /\ tok' \in Token /\ read' = Append(read, tok')
      /\ stack \in Seq(Frames) /\ NestedIn(read, endpoint, stack) /\ Len(read) > 0 /\ tok = read[Len(read)]
  BY <1>1, TokenRead DEF Bounded, ReaderTyped, StackShape, Shape, History, Recent
<1>3. Recent'
  BY <1>1, RecentStep DEF Bounded
<1>4. MatchedIn(read, Len(read))
  BY <1>1, <1>2, NoCloser
<1>5. req'.count = IF ItemAt(read, endpoint, Len(read)) THEN req.count + 1 ELSE req.count
  BY <1>1, ItemIs
<1>6. NestedIn(read', endpoint, stack')
  <2>1. CASE tok.t \notin Openers /\ stack' = stack
    <3>1. read[Len(read)].t \notin Openers \cup Closers
      BY <1>1, <1>2, <2>1
    <3> QED
      BY <1>2, <2>1, <3>1, NestKeep
  <2>2. ASSUME tok.t \in Openers,
               NEW f \in {"messages", "message", "tokens", "object", "array"},
               stack' = <<f>> \o stack,
               tok.t = "LBRACE" <=> f \in ObjectFrames,
               kind = "any" => f \in {"object", "array"}, kind # "any" => f = kind
        PROVE  NestedIn(read', endpoint, stack')
    <3>1. f \in Frames
      BY DEF Frames
    <3>2. read[Len(read)].t = OpenerFor(f)
      BY <1>2, <2>2 DEF OpenerFor, Openers
    <3>3. f \in {"messages", "tokens"} <=> kind \in {"messages", "tokens"}
      BY <2>2
    <3>4. f \in {"messages", "tokens"} <=> Len(read) > 2 /\ RequiredIn(read, endpoint, Len(read) - 2)
      BY <1>1, <2>2, <3>3, HereIs DEF ValueHere
    <3> QED
      BY <1>2, <2>2, <3>1, <3>2, <3>4, NestPush, Zenon
  <2> QED
    BY <2>1, <2>2, TakeIs, Zenon
<1> QED
  BY <1>1, <1>3, <1>4, <1>5, <1>6, HistoryStep, Zenon

\* A token that is neither a bracket nor a value is consumed and changes no field.
LEMMA HistoryKeep ==
  ASSUME Bounded, History, Len(stack) > 0, endpoint' = endpoint, stack' = stack, req' = req,
         json_next_token, at # "value", tok.t \in {"STRING", "COLON", "COMMA"}, Recent'
  PROVE  History'
<1>1. tok.t \notin Openers \cup Closers /\ tok.t \notin Closers /\ tok.t \notin {"EOF", "RBRACE", "NUMBER"}
  BY DEF Openers, Closers
<1>2. /\ read \in Seq(Token) /\ tok' \in Token /\ read' = Append(read, tok')
      /\ stack \in Seq(Frames) /\ NestedIn(read, endpoint, stack) /\ Len(read) > 0 /\ tok = read[Len(read)]
  BY <1>1, TokenRead DEF Bounded, ReaderTyped, StackShape, Shape, History, Recent
<1>3. NestedIn(read', endpoint, stack')
  BY <1>1, <1>2, NestKeep
<1>4. MatchedIn(read, Len(read))
  BY <1>1, <1>2, NoCloser
<1>5. ~ItemAt(read, endpoint, Len(read))
  BY <1>1, ItemIs
<1> QED
  BY <1>1, <1>3, <1>4, <1>5, HistoryStep

\* A closing bracket is consumed and its loop left.
LEMMA HistoryClose ==
  ASSUME Bounded, History, Close
  PROVE  History'
<1>1. /\ at = "head" /\ Len(stack) > 1 /\ tok.t = Closer /\ json_next_token
      /\ stack' = Tail(stack) /\ at' = "comma" /\ endpoint' = endpoint
      /\ req' = IF Top = "message" THEN [req EXCEPT !.count = @ + 1] ELSE req
  BY DEF Close
<1>2. tok.t = CloserFor(stack[1]) /\ tok.t \in Closers /\ tok.t \notin {"EOF", "COLON", "NUMBER"}
  BY <1>1 DEF Closer, CloserFor, Top, Closers
<1>3. /\ read \in Seq(Token) /\ tok' \in Token /\ read' = Append(read, tok')
      /\ stack \in Seq(Frames) /\ NestedIn(read, endpoint, stack) /\ Len(read) > 0 /\ tok = read[Len(read)]
  BY <1>1, <1>2, TokenRead DEF Bounded, ReaderTyped, StackShape, Shape, History, Recent
<1>4. Len(stack) > 0
  <2>1. Len(stack) \in Nat
    BY <1>3
  <2> QED
    BY <1>1, <2>1
<1>5. Recent'
  BY <1>1, <1>2, RecentStep DEF Bounded
<1>6. NestedIn(read', endpoint, stack')
  BY <1>1, <1>2, <1>3, <1>4, NestPop
<1>7. MatchedIn(read, Len(read))
  BY <1>2, <1>3, <1>4, NestMatched
<1>8. Top = "message" => tok.t = "RBRACE"
  BY <1>1 DEF Closer, ObjectFrames
<1>9. ItemAt(read, endpoint, Len(read)) <=> Top = "message"
  BY <1>2, <1>4, <1>8, ItemIs
<1>10. req'.text = req.text /\ req'.count = IF ItemAt(read, endpoint, Len(read)) THEN req.count + 1 ELSE req.count
  <2>1. CASE Top = "message"
    <3>1. req \in Request /\ req.count < MaxItems
      BY <1>4, <2>1, StackIs DEF Bounded, ReaderTyped
    <3> QED
      BY <1>1, <1>9, <2>1, <3>1, CountedIs
  <2>2. CASE Top # "message"
    BY <1>1, <1>9, <2>2
  <2> QED
    BY <2>1, <2>2
<1> QED
  BY <1>1, <1>2, <1>5, <1>6, <1>7, <1>10, HistoryStep

\* The request is opened.
LEMMA HistoryOpens ==
  ASSUME Bounded, History, OpenRequest
  PROVE  History'
<1>1. /\ at = "open" /\ tok.t = "LBRACE" /\ json_next_token
      /\ stack' = <<"request">> /\ at' = "head" /\ endpoint' = endpoint /\ req' = req
  BY DEF OpenRequest
<1>2. tok.t \notin {"EOF", "COLON", "RBRACE", "NUMBER"} /\ tok.t \notin Closers
  BY <1>1 DEF Closers
<1>3. /\ read \in Seq(Token) /\ tok' \in Token /\ read' = Append(read, tok') /\ stack = <<>>
      /\ NestedIn(read, endpoint, stack) /\ Len(read) = 1 /\ Len(read) > 0 /\ tok = read[Len(read)]
  BY <1>1, <1>2, TokenRead DEF Bounded, ReaderTyped, StackShape, History, Recent
<1>4. Recent'
  BY <1>1, <1>2, RecentStep DEF Bounded
<1>5. NestedIn(read', endpoint, stack')
  <2>1. stack \in Seq(Frames) /\ "request" \in Frames /\ stack' = <<"request">> \o stack
    BY <1>1, <1>3 DEF Frames
  <2>2. read[Len(read)].t = OpenerFor("request")
    BY <1>1, <1>3 DEF OpenerFor, ObjectFrames
  <2>3. ~ (Len(read) > 2) /\ "request" \notin {"messages", "tokens"}
    BY <1>3
  <2> QED
    BY <1>3, <2>1, <2>2, <2>3, NestPush, Zenon
<1>6. MatchedIn(read, Len(read))
  BY <1>2, <1>3, NoCloser
<1>7. ~ItemAt(read, endpoint, Len(read))
  BY <1>2, <1>3 DEF ItemAt
<1> QED
  BY <1>1, <1>2, <1>4, <1>5, <1>6, <1>7, HistoryStep

\* A key, and the colon after it.
LEMMA HistoryKey ==
  ASSUME Bounded, History, Key \/ Colon
  PROVE  History'
<1>1. tok' \in Token /\ read' = Append(read, tok') /\ read \in Seq(Token) /\ json_next_token
  BY TokenRead DEF Bounded, ReaderTyped, Key, Colon
<1>2. /\ Len(read') = Len(read) + 1 /\ Len(read) \in Nat /\ Len(read) > 0
      /\ read'[Len(read')] = tok' /\ read'[Len(read)] = read[Len(read)]
      /\ \A i \in 1 .. Len(read) : read'[i] = read[i]
      /\ tok = read[Len(read)] /\ Len(read') - 1 = Len(read)
  BY <1>1 DEF History, Recent
<1>3. CASE Key
  <2>1. /\ at = "head" /\ tok.t = "STRING" /\ key' = tok.s /\ at' = "colon" /\ Len(stack) > 0
        /\ endpoint' = endpoint /\ stack' = stack /\ req' = req
    BY <1>3 DEF Key, Bounded, StackShape
  <2>2. tok = Text(key')
    <3>1. tok \in [t : TokenTypes, s : Texts, n : Int] /\ (tok.t = "STRING" => tok.n = 0)
      BY Zenon DEF Bounded, ReaderTyped, Token
    <3>2. tok = [t |-> tok.t, s |-> tok.s, n |-> tok.n]
      BY <3>1
    <3> QED
      BY <2>1, <3>1, <3>2 DEF Text
  <2>3. Len(read') > 0 /\ Len(read') > 1 /\ read'[Len(read') - 1] = Text(key') /\ read'[Len(read') - 1].t # "COLON"
    BY <1>2, <2>1, <2>2
  <2>4. Recent'
    BY <1>2, <2>1, <2>3 DEF Recent
  <2> QED
    BY <1>1, <2>1, <2>4, HistoryKeep
<1>4. CASE Colon
  <2>1. /\ at = "colon" /\ tok.t = "COLON" /\ at' = "value" /\ Len(stack) > 0
        /\ endpoint' = endpoint /\ stack' = stack /\ req' = req /\ key' = key
    BY <1>4 DEF Colon, Bounded, StackShape
  <2>2. Len(read) > 1 /\ read[Len(read) - 1] = Text(key)
    BY <2>1 DEF History, Recent
  <2>3. Len(read') > 2 /\ Len(read') > 0 /\ Len(read') - 2 = Len(read) - 1 /\ Len(read) - 1 \in 1 .. Len(read)
    BY <1>2, <2>2
  <2>4. read'[Len(read') - 2] = Text(key') /\ read'[Len(read') - 1].t = "COLON"
    BY <1>2, <2>1, <2>2, <2>3
  <2>5. Recent'
    BY <1>2, <2>1, <2>3, <2>4 DEF Recent
  <2> QED
    BY <1>1, <2>1, <2>5, HistoryKeep
<1> QED
  BY <1>3, <1>4

\* The value of a key.
LEMMA HistoryValue ==
  ASSUME Bounded, History, Value
  PROVE  History'
<1>1. at = "value" /\ TakeValue(Wanted) /\ req' = Stored /\ endpoint' = endpoint
  BY DEF Value
<1>2. ReaderTyped /\ endpoint \in Endpoints /\ Len(stack) > 0 /\ Top \in ObjectFrames
  BY <1>1 DEF Bounded, ReaderTyped, StackShape
<1>3. Wanted \in {"string", "number", "bool", "messages", "message", "tokens", "any"}
  BY <1>2, WantedIs
<1>4. tok.t \in Kinds[Wanted]
  BY <1>1 DEF TakeValue
<1>5. ASSUME Top = "request", key = Required[endpoint]
      PROVE  /\ Wanted = Schema[endpoint][Required[endpoint]]
             /\ Wanted \in {"string", "messages", "tokens"}
             /\ Wanted = "string" <=> tok.t = "STRING"
             /\ Wanted = "string" <=> tok.t \notin Openers
  <2>1. Wanted = Schema[endpoint][Required[endpoint]] /\ Wanted \in {"string", "messages", "tokens"}
    BY <1>2, <1>5, WantedIs, SchemaIs
  <2> QED
    BY <1>4, <2>1, KindsAre DEF Openers
<1>6. Wanted \in {"messages", "tokens"} => Top = "request" /\ key = Required[endpoint] /\ tok.t \in Openers
  <2>1. Wanted \in {"messages", "tokens"} => Top = "request" /\ Wanted = KindIn(Schema[endpoint], key)
    BY <1>2, WantedIs
  <2>2. KindIn(Schema[endpoint], key) \in {"messages", "tokens"} => key = Required[endpoint]
    BY <1>2, SchemaIs
  <2>3. Wanted \in {"messages", "tokens"} => tok.t \in Openers
    BY <1>4, KindsAre DEF Openers
  <2> QED
    BY <2>1, <2>2, <2>3
<1>7. Wanted \in {"messages", "tokens"} <=> tok.t \in Openers /\ at = "value" /\ Top = "request" /\ key = Required[endpoint]
  BY <1>1, <1>5, <1>6
<1>8. req'.text = IF /\ at = "value" /\ Top = "request" /\ key = Required[endpoint]
                     /\ Schema[endpoint][Required[endpoint]] = "string"
                  THEN tok.s ELSE req.text
  <2>1. req'.text = IF Top = "request" /\ key = Required[endpoint] /\ tok.t = "STRING" THEN tok.s ELSE req.text
    BY <1>1, <1>2, StoredIs
  <2> QED
    BY <1>1, <1>5, <2>1
<1>9. req'.count = IF Top = "tokens" /\ tok.t = "NUMBER" THEN req.count + 1 ELSE req.count
  <2>1. Top # "tokens"
    BY <1>2 DEF ObjectFrames
  <2>2. req'.count = req.count
    BY <1>1, <1>2, StoredIs
  <2> QED
    BY <2>1, <2>2
<1> QED
  BY <1>1, <1>2, <1>3, <1>7, <1>8, <1>9, HistoryTake, Zenon

\* An element of a list.
LEMMA HistoryElement ==
  ASSUME Bounded, History, Element
  PROVE  History'
<1>1. /\ at = "head" /\ Top \notin ObjectFrames /\ ~Full /\ TakeValue(ElementKind[Top]) /\ endpoint' = endpoint
      /\ req' = IF Top = "tokens" THEN [req EXCEPT !.count = @ + 1] ELSE req
  BY DEF Element
<1>2. Len(stack) > 0 /\ req \in Request
  BY <1>1 DEF Bounded, ReaderTyped, StackShape
<1>3. Top \in {"messages", "tokens", "array"}
  BY <1>1, <1>2, StackIs DEF ObjectFrames, Frames
<1>4. ElementKind[Top] \in {"string", "number", "bool", "messages", "message", "tokens", "any"}
      /\ ElementKind[Top] \notin {"messages", "tokens"}
  BY <1>3, ElementKindsAre
<1>5. Top = "tokens" => tok.t = "NUMBER" /\ req.count < MaxItems
  <2>1. Top = "tokens" => tok.t \in Kinds["number"]
    BY <1>1, ElementKindsAre DEF TakeValue
  <2>2. Top = "tokens" => req.count < MaxItems
    BY <1>1, <1>2, ReaderAssumption DEF Full, Request
  <2> QED
    BY <2>1, <2>2, KindsAre
<1>6. req'.text = req.text
  BY <1>1, <1>2, <1>5, CountedIs
<1>7. req'.count = IF Top = "tokens" /\ tok.t = "NUMBER" THEN req.count + 1 ELSE req.count
  BY <1>1, <1>2, <1>5, CountedIs
<1>8. at # "value"
  BY <1>1
<1>9. req'.text = IF /\ at = "value" /\ Top = "request" /\ key = Required[endpoint]
                     /\ Schema[endpoint][Required[endpoint]] = "string"
                  THEN tok.s ELSE req.text
  BY <1>6, <1>8
<1> QED
  BY <1>1, <1>2, <1>4, <1>7, <1>8, <1>9, HistoryTake, Zenon

\* A comma, present or not, and a loop that ends with the input.
LEMMA HistoryComma ==
  ASSUME Bounded, History, Comma \/ CloseAtEof
  PROVE  History'
<1>1. ASSUME Comma, tok.t = "COMMA" PROVE History'
  <2>1. /\ at = "comma" /\ json_next_token /\ at' = "head" /\ Len(stack) > 0
        /\ endpoint' = endpoint /\ stack' = stack /\ req' = req
    BY <1>1 DEF Comma, Bounded, StackShape
  <2>2. Recent'
    BY <1>1, <2>1, RecentStep DEF Bounded
  <2> QED
    BY <1>1, <2>1, <2>2, HistoryKeep
<1>2. ASSUME Comma, tok.t # "COMMA" PROVE History'
  <2>1. at = "comma" /\ at' = "head" /\ UNCHANGED <<endpoint, tok, read, stack, key, req>>
    BY <1>2 DEF Comma
  <2>2. Recent'
    BY <2>1 DEF History, Recent
  <2> QED
    BY <2>1, <2>2 DEF History
<1>3. ASSUME CloseAtEof PROVE History'
  <2>1. at = "head" /\ at' = "comma" /\ tok = EOF /\ UNCHANGED <<endpoint, tok, read, key, req>>
    BY <1>3 DEF CloseAtEof
  <2>2. Recent'
    BY <2>1 DEF History, Recent
  <2>3. tok'.t = "EOF"
    BY <2>1 DEF EOF, Plain
  <2> QED
    BY <2>1, <2>2, <2>3 DEF History
<1> QED
  BY <1>1, <1>2, <1>3

\* The parser stops in the loop of the request.
LEMMA OutcomeAccepted ==
  ASSUME Bounded, History, Accepted
  PROVE  Outcome'
<1>1. at = "head" /\ stack = <<"request">> /\ Ends /\ UNCHANGED <<endpoint, tok, read, stack, key, req, cut>>
  BY DEF Accepted
<1>2. Len(stack) = 1 /\ Len(stack) > 0 /\ Top = "request" /\ stack[1] = "request" /\ stack \in Seq(Frames)
  BY <1>1 DEF Top, Frames
<1>3. tok.t \in {"RBRACE", "EOF"} /\ (tok.t = "RBRACE" <=> tok.t # "EOF")
  BY <1>1, <1>2 DEF Ends, Closer, ObjectFrames
<1>4. Len(read) > 0 /\ tok = read[Len(read)] /\ Fields(read, endpoint, req) /\ read \in Seq(Token)
  BY DEF History, Recent, Bounded, ReaderTyped
<1>5. MatchedIn(read, Len(read))
  <2>1. CASE tok.t = "RBRACE"
    <3>1. NestedIn(read, endpoint, stack) /\ read[Len(read)].t = CloserFor(stack[1])
      BY <1>2, <1>3, <1>4, <2>1 DEF History, CloserFor, ObjectFrames
    <3> QED
      BY <1>2, <1>4, <3>1, NestMatched
  <2>2. CASE tok.t = "EOF"
    BY <1>4, <2>2, NoCloser DEF Closers
  <2> QED
    BY <1>3, <2>1, <2>2
<1>6. ~ValueHere(read, endpoint)
  <2>1. SUFFICES ASSUME ValueHere(read, endpoint) PROVE FALSE
    OBVIOUS
  <2>2. Len(read) \in Nat /\ Len(read) > 2 /\ RequiredIn(read, endpoint, Len(read) - 2)
    BY <1>4, <2>1 DEF ValueHere
  <2>3. Len(read) > 1 /\ (Len(read) - 2) + 1 = Len(read) - 1
    BY <2>2
  <2>4. read[Len(read) - 1].t = "COLON"
    BY <2>2, <2>3 DEF RequiredIn
  <2> QED
    BY <1>1, <2>3, <2>4 DEF History, Recent
<1>7. ~ItemAt(read, endpoint, Len(read))
  <2>1. CASE tok.t = "RBRACE"
    BY <1>2, <2>1, ItemIs
  <2>2. CASE tok.t = "EOF"
    BY <1>4, <2>2 DEF ItemAt
  <2> QED
    BY <1>3, <2>1, <2>2
<1> QED
  BY <1>1, <1>4, <1>5, <1>6, <1>7 DEF Outcome

\* Every step of the parser keeps its invariant.
LEMMA ReaderInvStep ==
  ASSUME ReaderInv, ReaderStep
  PROVE  ReaderInv'
<1>1. Bounded /\ Bounded'
  BY BoundedStep DEF ReaderInv
<1>2. at # "done" /\ res = "none"
  BY DEF ReaderInv, ReaderStep, Start, OpenRequest, Key, Colon, Value, Element, Break, Comma, Close, CloseAtEof,
         Accepted, Rejected
<1>3. ASSUME Start PROVE ReaderInv'
  <2>1. /\ at = "start" /\ json_next_token /\ at' = "open" /\ UNCHANGED <<endpoint, stack, key, req, res, cut>>
        /\ ReaderTyped /\ stack = <<>> /\ req = NoRequest /\ read = <<>>
    BY <1>3 DEF Start, ReaderInv, Bounded, StackShape
  <2>2. History'
    BY <2>1, HistoryStarts
  <2> QED
    BY <1>1, <1>2, <2>1, <2>2 DEF ReaderInv, Outcome
<1>4. ASSUME OpenRequest \/ Key \/ Colon \/ Value \/ Element \/ Comma \/ Close \/ CloseAtEof PROVE ReaderInv'
  <2>1. at \in {"open", "head", "colon", "value", "comma"} /\ cut' = cut /\ res' = res
    BY <1>4 DEF OpenRequest, Key, Colon, Value, Element, Comma, Close, CloseAtEof
  <2>2. at' \in {"head", "colon", "value", "comma"}
    BY <1>4 DEF OpenRequest, Key, Colon, Value, Element, Comma, Close, CloseAtEof, TakeValue
  <2>3. ~cut => History'
    <3>1. SUFFICES ASSUME ~cut PROVE History'
      OBVIOUS
    <3>2. History
      BY <2>1, <3>1 DEF ReaderInv
    <3> QED
      BY <1>1, <1>4, <3>2, HistoryOpens, HistoryKey, HistoryValue, HistoryElement, HistoryComma, HistoryClose
  <2> QED
    BY <1>1, <1>2, <2>1, <2>2, <2>3 DEF ReaderInv, Outcome
<1>5. ASSUME Break PROVE ReaderInv'
  <2>1. at' = "comma" /\ cut' = TRUE /\ res' = res
    BY <1>5 DEF Break
  <2> QED
    BY <1>1, <1>2, <2>1 DEF ReaderInv, Outcome
<1>6. ASSUME Accepted PROVE ReaderInv'
  <2>1. at = "head" /\ at' = "done" /\ cut' = cut
    BY <1>6 DEF Accepted
  <2>2. ~cut => History
    BY <2>1 DEF ReaderInv
  <2>3. Outcome'
    <3>1. CASE cut
      BY <2>1, <3>1 DEF Outcome
    <3>2. CASE ~cut
      BY <1>1, <1>6, <2>2, <3>2, OutcomeAccepted
    <3> QED
      BY <3>1, <3>2
  <2> QED
    BY <1>1, <2>1, <2>3 DEF ReaderInv
<1>7. ASSUME Rejected PROVE ReaderInv'
  <2>1. at' = "done" /\ res' = "error"
    BY <1>7 DEF Rejected
  <2> QED
    BY <1>1, <2>1 DEF ReaderInv, Outcome
<1> QED
  BY <1>3, <1>4, <1>5, <1>6, <1>7 DEF ReaderStep

\* Before the first token, and when the handler has forgotten the parser.
LEMMA ReaderInvIdle ==
  ASSUME ReaderInv
  PROVE  /\ UNCHANGED rvars => ReaderInv'
         /\ ForgetParser /\ res # "none" => ReaderInv'
<1>1. ASSUME UNCHANGED rvars PROVE ReaderInv'
  <2>1. UNCHANGED <<endpoint, tok, read, stack, at, key, req, res, cut>>
    BY <1>1 DEF rvars
  <2>2. Bounded'
    BY <2>1 DEF ReaderInv, Bounded, ReaderTyped, StackShape, Top
  <2>3. Outcome' /\ (History => History')
    BY <2>1 DEF ReaderInv, Outcome, History, Recent
  <2> QED
    BY <2>1, <2>2, <2>3 DEF ReaderInv
<1>2. ASSUME ForgetParser, res # "none" PROVE ReaderInv'
  <2>1. /\ read' = <<>> /\ tok' = EOF /\ stack' = <<>> /\ key' = "" /\ res' = "none" /\ cut' = FALSE
        /\ endpoint' = endpoint /\ at' = at /\ req' = req /\ at = "done"
    BY <1>2 DEF ForgetParser, ReaderInv
  <2>2. EOF \in Token /\ "" \in Texts
    BY EmptyTexts
  <2>3. <<>> \in Seq(Token) /\ <<>> \in Seq(Frames) /\ Len(<<>>) = 0
    OBVIOUS
  <2>4. Shape(stack', endpoint', req'.count)
    BY <2>1, ShapeEmpty
  <2>5. StackShape'
    BY <2>1, <2>4 DEF StackShape
  <2>6. ReaderTyped'
    BY <2>1, <2>2, <2>3 DEF ReaderInv, Bounded, ReaderTyped
  <2> QED
    BY <2>1, <2>5, <2>6 DEF ReaderInv, Bounded, Outcome
<1> QED
  BY <1>1, <1>2

----
\* Whatever tokens a body consists of, the parser's loops follow its brackets, and
\* the items stored stay within messages[] and tokens[] (parse_..._request in
\* api_v1.c).
THEOREM ReaderInductive == Spec => []ReaderInv
<1>1. Init => ReaderInv
  <2>1. SUFFICES ASSUME Init PROVE ReaderInv
    OBVIOUS
  <2>2. PICK e \in Endpoints : ReaderInit(e)
    BY <2>1 DEF Init
  <2>3. /\ endpoint = e /\ tok = EOF /\ read = <<>> /\ stack = <<>> /\ at = "start" /\ key = ""
        /\ req = NoRequest /\ res = "none" /\ cut = FALSE
    BY <2>2 DEF ReaderInit
  <2>4. StackShape
    BY <2>3, ShapeEmpty DEF StackShape
  <2>5. EOF \in Token /\ "" \in Texts /\ <<>> \in Seq(Token)
    <3>1. <<>> \in Seq(Token)
      OBVIOUS
    <3> QED
      BY <3>1, EmptyTexts, Zenon
  <2>6. NoRequest \in Request
    <3>1. ASSUME NEW a \in Texts, NEW b \in 0 .. MaxItems, NEW c \in 0 .. MaxGenerate
          PROVE  [text |-> a, count |-> b, max_tokens |-> c] \in Request
      BY DEF Request
    <3>2. 0 \in 0 .. MaxItems /\ 64 \in 0 .. MaxGenerate
      BY ReaderAssumption
    <3>3. [text |-> "", count |-> 0, max_tokens |-> 64] \in Request
      BY <2>5, <3>1, <3>2, Zenon
    <3> QED
      BY <3>3 DEF NoRequest
  <2>7. ReaderTyped
    BY <2>2, <2>3, <2>5, <2>6 DEF ReaderTyped, Places
  <2> QED
    BY <2>3, <2>4, <2>7 DEF ReaderInv, Bounded, Outcome
<1>2. ReaderInv /\ [Next]_avars => ReaderInv'
  <2>1. SUFFICES ASSUME ReaderInv, [Next]_avars PROVE ReaderInv'
    OBVIOUS
  <2>2. ReaderStep \/ UNCHANGED rvars \/ (ForgetParser /\ res # "none")
    <3>1. CASE UNCHANGED avars
      BY <3>1 DEF avars
    <3>2. CASE Parse
      BY <3>2 DEF Parse
    <3>3. CASE InvalidJson \/ MissingField \/ Answer
      BY <3>3 DEF InvalidJson, MissingField, Answer
    <3>4. CASE PostEmpty \/ PostBody \/ Write \/ Send \/ handle_model_metadata
      BY <3>4 DEF PostEmpty, PostBody, Write, Send, handle_model_metadata
    <3>5. ASSUME NEW path, Get(path) \/ Legacy(path) PROVE UNCHANGED rvars
      BY <3>5 DEF Get, Legacy
    <3>6. ASSUME NEW ctx, api_v1_init(ctx) PROVE UNCHANGED rvars
      BY <3>6 DEF api_v1_init
    <3> QED
      BY <2>1, <3>1, <3>2, <3>3, <3>4, <3>5, <3>6 DEF Next, Step
  <2> QED
    BY <2>1, <2>2, ReaderInvStep, ReaderInvIdle
<1> QED
  BY <1>1, <1>2, PTL DEF Spec

\* An accepted body is properly nested as far as it was read: every closing
\* bracket that the parser consumed, or stopped at, closes one of its own type.
THEOREM AcceptedIsNested == Spec => []AcceptedNests
<1>1. ReaderInv => AcceptedNests
  <2>1. SUFFICES ASSUME ReaderInv, res = "ok", ~cut, NEW i \in 1 .. Len(read) PROVE MatchedIn(read, i)
    BY ReadingIs DEF AcceptedNests, MatchedIn
  <2>2. Fields(read, endpoint, req) /\ MatchedIn(read, Len(read))
    BY <2>1 DEF ReaderInv, Outcome
  <2>3. Len(read) \in Nat
    BY <2>1 DEF ReaderInv, Bounded, ReaderTyped
  <2>4. i \in 1 .. Len(read) - 1 \/ i = Len(read)
    BY <2>3
  <2> QED
    BY <2>2, <2>4 DEF Fields
<1> QED
  BY <1>1, ReaderInductive, PTL

\* The handlers see the fields of the request itself and no others, whatever
\* same-named fields the values that json_skip_value skips contain.
THEOREM OnlyTopLevelFields == Spec => []FieldsFromTopLevel
<1>1. ReaderInv => FieldsFromTopLevel
  <2>1. SUFFICES ASSUME ReaderInv, res = "ok", ~cut PROVE FieldsFromTopLevel
    BY DEF FieldsFromTopLevel
  <2>2. /\ Fields(read, endpoint, req) /\ Len(read) > 0
        /\ ~ValueHere(read, endpoint) /\ ~ItemAt(read, endpoint, Len(read))
    BY <2>1 DEF ReaderInv, Outcome
  <2>3. Len(read) \in Nat /\ read \in Seq(Token)
    BY <2>1 DEF ReaderInv, Bounded, ReaderTyped
  <2>4. RequiredKeys = ValuesIn(read, endpoint)
    <3>1. ASSUME NEW i \in 1 .. Len(read), RequiredIn(read, endpoint, i) PROVE i + 2 < Len(read)
      <4>1. i + 2 <= Len(read)
        BY <3>1 DEF RequiredIn
      <4>2. i + 2 # Len(read)
        <5>1. SUFFICES ASSUME i + 2 = Len(read) PROVE FALSE
          OBVIOUS
        <5>2. Len(read) > 2 /\ i = Len(read) - 2
          BY <2>3, <5>1
        <5> QED
          BY <2>2, <3>1, <5>2 DEF ValueHere
      <4> QED
        BY <2>3, <4>1, <4>2
    <3> QED
      BY <3>1, ReadingIs DEF RequiredKeys, ValuesIn
  <2>5. req.text = IF Schema[endpoint][Required[endpoint]] # "string" \/ RequiredKeys = {} THEN ""
                   ELSE read[(CHOOSE i \in RequiredKeys : \A j \in RequiredKeys : j <= i) + 2].s
    <3>1. CASE Schema[endpoint][Required[endpoint]] # "string" \/ RequiredKeys = {}
      BY <2>2, <2>4, <3>1 DEF Fields, TextIs
    <3>2. CASE ~ (Schema[endpoint][Required[endpoint]] # "string" \/ RequiredKeys = {})
      <4>1. PICK i \in RequiredKeys : (\A j \in RequiredKeys : j <= i) /\ req.text = read[i + 2].s
        BY <2>2, <2>4, <3>2 DEF Fields, TextIs
      <4> DEFINE c == CHOOSE k \in RequiredKeys : \A j \in RequiredKeys : j <= k
      <4>2. c \in RequiredKeys /\ \A j \in RequiredKeys : j <= c
        BY <4>1
      <4>3. RequiredKeys \subseteq 1 .. Len(read)
        BY DEF RequiredKeys
      <4> HIDE DEF c
      <4>4. c \in Int /\ i \in Int /\ c <= i /\ i <= c
        BY <2>3, <4>1, <4>2, <4>3
      <4>5. c = i
        BY <4>4
      <4> QED
        BY <3>2, <4>1, <4>5 DEF c
    <3> QED
      BY <3>1, <3>2
  <2>6. ItemsRead = ItemsIn(read, endpoint)
    <3>1. ItemsRead = {i \in 1 .. Len(read) : ItemAt(read, endpoint, i)}
      BY ReadingIs DEF ItemsRead, ItemAt
    <3>2. \A i : i \in 1 .. Len(read) <=> i \in 1 .. Len(read) - 1 \/ i = Len(read)
      BY <2>2, <2>3
    <3> QED
      BY <2>2, <3>1, <3>2 DEF ItemsIn
  <2>7. req.count = Cardinality(ItemsRead)
    BY <2>2, <2>6 DEF Fields
  <2> QED
    BY <2>5, <2>7 DEF FieldsFromTopLevel
<1> QED
  BY <1>1, ReaderInductive, PTL
====
