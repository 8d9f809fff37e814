---- MODULE Llm ----
(***************************************************************************)
(* The LLM context (src/llm.c) on top of the heap: llm_init, llm_free and  *)
(* llm_generate with the llm_tokenize, llm_eval and llm_sample it calls.   *)
(* Inference is a placeholder (the next token is the last one plus one),   *)
(* so what matters is the token buffer, which every evaluation frees and   *)
(* allocates again, and the sliding window.  A call runs to completion;    *)
(* its calls of malloc and free are steps of their own.                    *)
(***************************************************************************)
EXTENDS Allocator, Sequences

CONSTANTS
    ContextSize,   \* sizeof(llm_context_t)
    Window,        \* 512, the size of the local token array
    OutputSize,    \* the size of the caller's output buffer
    CharMod,       \* a character is a token modulo CharMod (256)
    FirstToken,    \* 65, what an empty context samples
    Models,        \* the model images, as the bytes they start with
    Prompts,       \* the prompts, as sequences of characters
    Budgets        \* the max_tokens a caller asks for

ASSUME LlmAssumption ==
    /\ {ContextSize, Window, OutputSize, CharMod} \subseteq Nat \ {0} /\ FirstToken \in Nat
    /\ Prompts \subseteq Seq(0 .. CharMod - 1) /\ Budgets \subseteq Nat \ {0}

VARIABLES
    ctx,       \* the context: its address, tokens, token_count, and the stored tokens
    gen,       \* the running call: pc, prompt, max_tokens, tokens[], output
    others     \* the blocks in use that were allocated by other callers

llmvars == <<ctx, gen, others>>
heapvars == <<heap, need, freed, cut>>

NULL == -1
NoContext == [at |-> NULL, tokens |-> NULL, token_count |-> 0, data |-> <<>>]
NoCall == [pc |-> "idle", prompt |-> <<>>, max_tokens |-> 0, tokens |-> <<>>, output |-> <<>>]

\* The address malloc returns.
Result(n) == IF Fitting(heap, n) = {} THEN NULL ELSE Min(Fitting(heap, n))

\* malloc of n bytes, which may fail.
Malloc(n) == malloc(n) \/ (Fitting(heap, n) = {} /\ UNCHANGED heapvars)

LlmInit == ctx = NoContext /\ gen = NoCall /\ others = {}

Idle == gen.pc = "idle"
Goto(l) == gen' = [gen EXCEPT !.pc = l]

c_validate_gguf_format(model) == Len(model) >= 4 /\ SubSeq(model, 1, 4) = <<"G", "G", "U", "F">>

\* llm_init: a context without tokens.  Without model data it returns at once; a
\* model without the GGUF magic is refused after the allocation, which is given back.
llm_init(model) ==
    /\ Idle /\ ctx.at = NULL /\ model # <<>>
    /\ Malloc(ContextSize)
    /\ ctx' = [NoContext EXCEPT !.at = Result(ContextSize)]
    /\ Goto(IF c_validate_gguf_format(model) \/ Result(ContextSize) = NULL THEN "idle" ELSE "free_ctx")
    /\ UNCHANGED others

\* llm_free: the tokens if there are any, then the context.
llm_free ==
    /\ Idle /\ ctx.at # NULL
    /\ Goto(IF ctx.tokens # NULL THEN "free_tokens" ELSE "free_ctx")
    /\ UNCHANGED <<heapvars, ctx, others>>

FreeTokens ==
    /\ gen.pc = "free_tokens"
    /\ free(ctx.tokens)
    /\ ctx' = [ctx EXCEPT !.tokens = NULL]
    /\ Goto("free_ctx")
    /\ UNCHANGED others

FreeContext ==
    /\ gen.pc = "free_ctx"
    /\ free(ctx.at)
    /\ ctx' = NoContext
    /\ Goto("idle")
    /\ UNCHANGED others

----
(* llm_generate *)

\* llm_tokenize: a character is a token; what exceeds the window is cut off.
llm_tokenize(text) == SubSeq(text, 1, IF Len(text) < Window THEN Len(text) ELSE Window)

\* A new call; its first evaluation refuses an empty prompt.
llm_generate(prompt, max_tokens) ==
    /\ Idle /\ ctx.at # NULL
    /\ gen' = [pc |-> "loop", prompt |-> prompt, max_tokens |-> max_tokens,
               tokens |-> llm_tokenize(prompt), output |-> <<>>]
    /\ UNCHANGED <<heapvars, ctx, others>>

\* The condition of the loop over i, with room left for the terminating NUL.
More == Len(gen.output) < gen.max_tokens /\ Len(gen.output) + 1 < OutputSize

\* The loop condition, and llm_eval's guards: an empty context is refused, and
\* the old buffer is freed before the new one is allocated.
\* Mutant: the old buffer is kept.
EvalKeeps == IF ~More THEN "done" ELSE IF gen.tokens = <<>> THEN "failed" ELSE "alloc"
EvalNext == IF ~More THEN "done"
            ELSE IF gen.tokens = <<>> THEN "failed"
            ELSE IF ctx.tokens # NULL THEN "refill" ELSE "alloc"
Loop ==
    /\ gen.pc = "loop"
    /\ Goto(EvalNext)
    /\ UNCHANGED <<heapvars, ctx, others>>

EvalFree ==
    /\ gen.pc = "refill"
    /\ free(ctx.tokens)
    /\ Goto("alloc")
    /\ UNCHANGED <<ctx, others>>

\* token_count * sizeof(int), in units of one token.
BufferSize(n) == n

\* Mutant: the result of malloc is not looked at.
AfterAnyMalloc(p) == "sample"
AfterMalloc(p) == IF p = NULL THEN "failed" ELSE "sample"

\* token_count is only set when the allocation succeeds.
EvalAlloc ==
    LET n == Len(gen.tokens)
        p == Result(BufferSize(n))
    IN  /\ gen.pc = "alloc"
        /\ Malloc(BufferSize(n))
        /\ ctx' = IF p = NULL THEN [ctx EXCEPT !.tokens = NULL, !.data = <<>>]
                  ELSE [ctx EXCEPT !.tokens = p, !.token_count = n, !.data = gen.tokens]
        /\ Goto(AfterMalloc(p))
        /\ UNCHANGED others

\* llm_sample: one more than the last stored token.
llm_sample == IF ctx.token_count > 0 THEN ctx.data[ctx.token_count] + 1 ELSE FirstToken

\* Mutant: the window moves on without dropping its oldest token first.
ShiftedFull(tokens, t) == [tokens EXCEPT ![1] = t]
\* The token joins the window, from which the oldest one falls out when it is full.
Shifted(tokens, t) == IF Len(tokens) < Window THEN Append(tokens, t) ELSE Append(Tail(tokens), t)

Sample ==
    /\ gen.pc = "sample"
    /\ gen' = [gen EXCEPT !.pc = "loop", !.tokens = Shifted(@, llm_sample),
                          !.output = Append(@, llm_sample % CharMod)]
    /\ UNCHANGED <<heapvars, ctx, others>>

\* The length of the output, or -1.
Return ==
    /\ gen.pc \in {"done", "failed"}
    /\ gen' = NoCall
    /\ UNCHANGED <<heapvars, ctx, others>>

----
(* The other callers of the heap, between two calls of the LLM. *)

OthersMalloc(n) == malloc(n) /\ others' = others \cup {Result(n)}
OthersFree(p) == free(p) /\ others' = others \ {p}
OthersRealloc(p, n) ==
    \/ Shrink(p, n) /\ UNCHANGED others
    \/ Grow(p, n) /\ others' = (others \ {p}) \cup {Result(n)}

OthersStep ==
    /\ Idle
    /\ \/ \E n \in Sizes : OthersMalloc(n)
       \/ \E p \in others : OthersFree(p)
       \/ \E p \in freed : DoubleFree(p) /\ UNCHANGED others
       \/ \E p \in others, n \in Sizes : OthersRealloc(p, n)
    /\ UNCHANGED <<ctx, gen>>

LlmStep ==
    \/ \E model \in Models : llm_init(model)
    \/ llm_free \/ FreeTokens \/ FreeContext
    \/ \E prompt \in Prompts, max \in Budgets : llm_generate(prompt, max)
    \/ Loop \/ EvalFree \/ EvalAlloc \/ Sample \/ Return

----
\* The blocks the context owns.  Between freeing and replacing the buffer the
\* field still holds the old address.
Owned == {ctx.at, IF gen.pc = "alloc" THEN NULL ELSE ctx.tokens} \ {NULL}

\* Every block in use belongs to exactly one owner, and the context never holds
\* a block it has given back: no evaluation, failed evaluation, refused model
\* or freed context leaks a block or leaves a stale pointer behind.
NothingLeaks == InUse(heap) = others \cup Owned /\ others \cap Owned = {}

\* When llm_sample reads the stored tokens their block is in use and holds all
\* token_count of them, with the contents of the window, also after an
\* evaluation that failed for want of memory and left token_count as it was.
SampleInBounds ==
    gen.pc = "sample" => /\ ctx.tokens \in InUse(heap) /\ ctx.token_count > 0
                         /\ heap.size[ctx.tokens] >= ctx.token_count
                         /\ SubSeq(ctx.data, 1, ctx.token_count) = gen.tokens

\* The generated text continues the last character of the prompt that fits the
\* window, one by one and modulo the character size, up to max_tokens or the end
\* of the output buffer less its NUL, however often the window has moved.
GeneratedText ==
    LET kept == Min({Len(gen.prompt), Window})
    IN  gen.pc = "done" =>
            gen.output = [i \in 1 .. Min({gen.max_tokens, OutputSize - 1}) |-> (gen.prompt[kept] + i) % CharMod]
====
