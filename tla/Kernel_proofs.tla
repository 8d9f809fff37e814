---- MODULE Kernel_proofs ----
(***************************************************************************)
(* The kernel from its start through the loop, for every arena, window,    *)
(* model, prompt and machine: the heap stays sound, LLM calls neither leak *)
(* a block nor use one they gave back, and the PCI scan is exact.          *)
(***************************************************************************)
EXTENDS Kernel, Allocator_proofs, FiniteSetTheorems

(* Types. *)

Labels == {"idle", "free_ctx", "free_tokens", "loop", "refill", "alloc", "sample", "done", "failed"}
Context == [at : Int, tokens : Int, token_count : Nat, data : Seq(Nat)]
Call == [pc : Labels, prompt : Seq(0 .. CharMod - 1), max_tokens : Nat, tokens : Seq(Nat), output : Seq(Nat)]
Boot == [phase : {"scan", "pattern", "compare", "request", "response", "health", "served", "model", "halt", "loop"},
         net : BOOLEAN, failed : BOOLEAN, request : Int, response : Int]

\* The labels of a call that works on the context's tokens.
Evaluating == {"refill", "alloc", "sample"}

\* The state of a call: which pointers of the context it may rely on.  Between
\* free and malloc (label alloc) ctx.tokens is stale.
CallInv ==
    /\ ctx \in Context /\ gen \in Call
    /\ Len(gen.tokens) <= Window
    /\ gen.pc \in Evaluating => gen.tokens # <<>>
    /\ gen.pc = "sample" => /\ ctx.tokens # NULL /\ ctx.token_count = Len(gen.tokens)
                            /\ ctx.data = gen.tokens
    /\ gen.pc \in {"refill", "free_tokens"} => ctx.tokens # NULL
    /\ gen.pc = "free_ctx" => ctx.tokens = NULL
    /\ gen.pc # "idle" => ctx.at # NULL
    /\ ctx.at = NULL => ctx.tokens = NULL
    /\ ctx.tokens # NULL /\ gen.pc # "alloc" => ctx.tokens # ctx.at

\* Nobody uses the LLM before the loop.
BootInv ==
    /\ boot \in Boot
    /\ boot.phase # "loop" => ctx = NoContext /\ gen = NoCall

\* The inductive invariant.
KernelInv == HeapInv /\ CallInv /\ NothingLeaks /\ BootInv

\* What was asked for fits, and so do the tokens that llm_sample reads.
BufferFits == gen.pc = "sample" => heap.size[ctx.tokens] >= Len(gen.tokens)
Fits == Sized /\ BufferFits

\* The sizes that are asked for, and that their rounding does not wrap around.
Requests == Sizes \cup {ContextSize, TestSize, RequestSize, ResponseSize} \cup 0 .. Window
RequestsFit == \A n \in Requests : NoWrap(n)

----
(* Allocations that may fail. *)

\* A block that malloc returns was not in use; NULL changes nothing.
LEMMA MallocResult ==
  ASSUME HeapInv, NEW n \in Nat, Malloc(n)
  PROVE  /\ HeapInv' /\ Result(n) \in Int /\ Result(n) \notin InUse(heap)
         /\ InUse(heap') = InUse(heap) \cup ({Result(n)} \ {NULL})
         /\ Sized /\ NoWrap(n) => Sized' /\ (Result(n) # NULL => heap'.size[Result(n)] >= n)
<1>1. InUse(heap) \subseteq Nat /\ NULL \in Int /\ NULL \notin Nat
  BY DEF HeapInv, Arena, InUse, NULL
<1>2. CASE malloc(n)
  <2>1. Result(n) = Min(Fitting(heap, n))
    BY <1>2 DEF malloc, Result
  <2>2. /\ HeapInv' /\ InUse(heap') = InUse(heap) \cup {Result(n)} /\ Result(n) \notin InUse(heap)
        /\ Result(n) \in Nat
        /\ Sized /\ NoWrap(n) => Sized' /\ heap'.size[Result(n)] >= n
    BY <1>2, <2>1, MallocKeeps
  <2> QED
    BY <1>1, <2>2
<1>3. CASE Fitting(heap, n) = {} /\ UNCHANGED heapvars
  <2>1. Result(n) = NULL /\ heap' = heap /\ need' = need /\ cut' = cut
    BY <1>3 DEF Result, heapvars
  <2>2. HeapInv' /\ (Sized => Sized')
    BY <2>1 DEF HeapInv, Accounted, Sized, LargeEnough
  <2> QED
    BY <1>1, <2>1, <2>2
<1> QED
  BY <1>2, <1>3 DEF Malloc

\* No pointer, and the context that llm_init starts from.
LEMMA NoContextIs == NULL \in Int /\ NoContext \in Context /\ NoContext.at = NULL /\ NoContext.tokens = NULL
<1>1. NULL \in Int
  BY DEF NULL
<1>2. <<>> \in Seq(Nat)
  OBVIOUS
<1> QED
  BY <1>1, <1>2 DEF NoContext, Context

\* The sizes the kernel asks for are naturals.
LEMMA SizesNat ==
  /\ {ContextSize, TestSize, RequestSize, ResponseSize, Window, OutputSize} \subseteq Nat \ {0}
  /\ Sizes \subseteq Nat /\ CharMod \in Nat \ {0} /\ FirstToken \in Nat
BY SizeAssumption, LlmAssumption, KernelAssumption

\* The start of the kernel.
LEMMA InitInv == KernelInit => KernelInv /\ Fits
<1> SUFFICES ASSUME KernelInit PROVE KernelInv /\ Fits
  OBVIOUS
<1>1. HeapInv /\ Sized
  BY InitHeap DEF KernelInit
<1>2. ctx = NoContext /\ gen = NoCall /\ others = {} /\ boot = Start
  BY DEF KernelInit, LlmInit
<1>3. CallInv
  BY <1>2, SizesNat DEF CallInv, Context, Call, Labels, NoContext, NoCall, NULL, Evaluating
<1>4. InUse(heap) = {}
  BY DEF KernelInit, Init, InUse, Blocks
<1>5. NothingLeaks
  BY <1>2, <1>4 DEF NothingLeaks, Owned, NoContext, NoCall
<1>6. BootInv
  BY <1>2 DEF BootInv, Start, Boot, NULL
<1> QED
  BY <1>1, <1>2, <1>3, <1>5, <1>6 DEF KernelInv, Fits, BufferFits, NoCall

----
(* The steps before the loop. *)

Phases == {"scan", "pattern", "compare", "request", "response", "health", "served", "model", "halt"}

\* A step that leaves the heap and the LLM alone.
LEMMA QuietStep ==
  ASSUME KernelInv, UNCHANGED <<vars, llmvars>>,
         boot' \in Boot, boot.phase = "loop" => boot'.phase = "loop" \/ boot' = boot
  PROVE  KernelInv' /\ (Fits => Fits')
<1>1. heap' = heap /\ need' = need /\ cut' = cut /\ ctx' = ctx /\ gen' = gen /\ others' = others
  BY DEF vars, llmvars
<1>2. HeapInv' /\ (Fits => Fits')
  BY <1>1 DEF KernelInv, HeapInv, Accounted, Fits, BufferFits, Sized, LargeEnough
<1>3. CallInv' /\ NothingLeaks'
  BY <1>1 DEF KernelInv, CallInv, NothingLeaks, Owned
<1>4. BootInv'
  BY <1>1 DEF KernelInv, BootInv
<1> QED
  BY <1>2, <1>3, <1>4 DEF KernelInv

\* A self test's allocation.
LEMMA TestMallocKeeps ==
  ASSUME KernelInv, NEW n \in {TestSize, RequestSize, ResponseSize}, NEW f \in {"request", "response"},
         NEW next \in Phases, NEW without \in Phases, boot.phase # "loop",
         TestMalloc(n, f, next, without)
  PROVE  KernelInv' /\ (RequestsFit /\ Fits => Fits')
<1>1. n \in Nat /\ n \in Requests
  BY SizesNat DEF Requests
<1>2. Malloc(n) /\ ctx' = ctx /\ gen' = gen /\ others' = others \cup ({Result(n)} \ {NULL})
  BY DEF TestMalloc
<1>3. /\ HeapInv' /\ Result(n) \in Int /\ InUse(heap') = InUse(heap) \cup ({Result(n)} \ {NULL})
      /\ Sized /\ NoWrap(n) => Sized'
  BY <1>1, <1>2, MallocResult DEF KernelInv
<1>4. ctx = NoContext /\ gen = NoCall
  BY DEF KernelInv, BootInv
<1>5. CallInv'
  BY <1>2 DEF KernelInv, CallInv
<1>6. Owned = {} /\ Owned' = {}
  BY <1>2, <1>4 DEF Owned, NoContext, NoCall
<1>7. NothingLeaks'
  BY <1>2, <1>3, <1>6 DEF KernelInv, NothingLeaks
<1>8. BootInv'
  <2>1. boot \in Boot
    BY DEF KernelInv, BootInv
  <2> DEFINE p == IF Result(n) = NULL THEN without ELSE next
             b == boot.failed \/ Result(n) = NULL
  <2>2. boot' = [boot EXCEPT ![f] = Result(n), !.phase = p, !.failed = b]
    BY DEF TestMalloc
  <2>4. p \in Phases /\ b \in BOOLEAN
    OBVIOUS
  <2> HIDE DEF p, b
  <2>3. boot' \in Boot
    <3>1. CASE f = "request"
      BY <1>3, <2>1, <2>2, <2>4, <3>1 DEF Boot, Phases
    <3>2. CASE f = "response"
      BY <1>3, <2>1, <2>2, <2>4, <3>2 DEF Boot, Phases
    <3> QED
      BY <3>1, <3>2
  <2> QED
    BY <1>2, <1>4, <2>3 DEF BootInv
<1>9. RequestsFit /\ Fits => Fits'
  BY <1>1, <1>2, <1>3, <1>4 DEF RequestsFit, Fits, BufferFits, NoCall
<1> QED
  BY <1>3, <1>5, <1>7, <1>8, <1>9 DEF KernelInv

\* A self test frees its block.
LEMMA TestFreeKeeps ==
  ASSUME KernelInv, NEW f \in {"request", "response"}, NEW next \in Phases, boot.phase # "loop",
         TestFree(f, next)
  PROVE  KernelInv' /\ (Fits => Fits')
<1> DEFINE p == boot[f]
<1>1. free(p) /\ others' = others \ {p} /\ ctx' = ctx /\ gen' = gen
  BY DEF TestFree, OthersFree
<1>2. HeapInv' /\ InUse(heap') = InUse(heap) \ {p} /\ (Sized => Sized')
  BY <1>1, FreeKeeps DEF KernelInv
<1>3. ctx = NoContext /\ gen = NoCall
  BY DEF KernelInv, BootInv
<1>4. CallInv'
  BY <1>1 DEF KernelInv, CallInv
<1>5. Owned = {} /\ Owned' = {}
  BY <1>1, <1>3 DEF Owned, NoContext, NoCall
<1>6. NothingLeaks'
  BY <1>1, <1>2, <1>5 DEF KernelInv, NothingLeaks
<1>7. BootInv'
  <2>1. boot \in Boot
    BY DEF KernelInv, BootInv
  <2>2. boot' = [boot EXCEPT ![f] = NULL, !.phase = next]
    BY DEF TestFree
  <2>4. NULL \in Int
    BY DEF NULL
  <2>3. boot' \in Boot
    <3>1. CASE f = "request"
      BY <2>1, <2>2, <2>4, <3>1 DEF Boot, Phases
    <3>2. CASE f = "response"
      BY <2>1, <2>2, <2>4, <3>2 DEF Boot, Phases
    <3> QED
      BY <3>1, <3>2
  <2> QED
    BY <1>1, <1>3, <2>3 DEF BootInv
<1>8. Fits => Fits'
  BY <1>1, <1>2, <1>3 DEF Fits, BufferFits, NoCall
<1> QED
  BY <1>2, <1>4, <1>6, <1>7, <1>8 DEF KernelInv

\* The start-up, from the scan to the verdict of the self tests.
LEMMA BootStep ==
  ASSUME KernelInv, PciScan \/ NetworkInit \/ PatternTest \/ HealthTest \/ ModelTest \/ Forever
  PROVE  KernelInv' /\ (RequestsFit /\ Fits => Fits')
<1>1. boot \in Boot
  BY DEF KernelInv, BootInv
<1>2. CASE PciScan \/ Forever
  <2>1. UNCHANGED <<vars, llmvars>> /\ boot' = boot
    BY <1>2 DEF PciScan, Forever, kvars
  <2> QED
    BY <1>1, <2>1, QuietStep
<1>3. CASE NetworkInit
  <2>1. boot.phase = "scan" /\ boot' = [boot EXCEPT !.phase = "pattern", !.net = CardFound]
        /\ UNCHANGED <<vars, llmvars>>
    BY <1>3 DEF NetworkInit, Phase
  <2>2. CardFound \in BOOLEAN
    BY DEF CardFound
  <2>3. boot' \in Boot
    BY <1>1, <2>1, <2>2 DEF Boot
  <2> QED
    BY <2>1, <2>3, QuietStep
<1>4. CASE ModelTest
  <2>1. boot.phase = "model" /\ UNCHANGED <<vars, llmvars>>
        /\ boot' = [boot EXCEPT !.phase = IF boot.failed \/ ~c_load_embedded_model THEN "halt" ELSE "loop"]
    BY <1>4 DEF ModelTest, Phase
  <2>2. boot' \in Boot
    BY <1>1, <2>1 DEF Boot
  <2> QED
    BY <2>1, <2>2, QuietStep
<1>5. CASE PatternTest
  <2>1. CASE Phase("pattern") /\ TestMalloc(TestSize, "request", "compare", "request")
    BY <2>1, TestMallocKeeps DEF Phase, Phases
  <2>2. CASE Phase("compare") /\ TestFree("request", "request")
    BY <2>2, TestFreeKeeps DEF Phase, Phases
  <2> QED
    BY <1>5, <2>1, <2>2 DEF PatternTest
<1>6. CASE HealthTest
  <2>1. CASE Phase("request") /\ TestMalloc(RequestSize, "request", "response", "response")
    BY <2>1, TestMallocKeeps DEF Phase, Phases
  <2>2. CASE /\ Phase("response")
             /\ TestMalloc(ResponseSize, "response", IF boot.request = NULL THEN "model" ELSE "health", "model")
    BY <2>2, TestMallocKeeps DEF Phase, Phases
  <2>3. CASE Phase("health") /\ TestFree("request", "served")
    BY <2>3, TestFreeKeeps DEF Phase, Phases
  <2>4. CASE Phase("served") /\ TestFree("response", "model")
    BY <2>4, TestFreeKeeps DEF Phase, Phases
  <2> QED
    BY <1>6, <2>1, <2>2, <2>3, <2>4 DEF HealthTest
<1> QED
  BY <1>2, <1>3, <1>4, <1>5, <1>6

----
(* The other users of the heap. *)

\* What a step below the network loop keeps.
Preserved == HeapInv' /\ CallInv' /\ NothingLeaks' /\ (RequestsFit /\ Fits => Fits')

\* Blocks that others take from the heap or give back change nobody else's.
LEMMA OthersOwn ==
  ASSUME NothingLeaks, UNCHANGED <<ctx, gen>>, NEW A, NEW P,
         A \cap InUse(heap) = {}, P \subseteq others,
         InUse(heap') = (InUse(heap) \cup A) \ P, others' = (others \cup A) \ P
  PROVE  NothingLeaks'
<1>1. Owned' = Owned
  BY DEF Owned
<1> QED
  BY <1>1 DEF NothingLeaks

\* malloc, free, a repeated free and realloc by other callers.
LEMMA OthersKeeps ==
  ASSUME KernelInv, OthersStep
  PROVE  Preserved
<1>1. gen.pc = "idle" /\ ctx' = ctx /\ gen' = gen /\ HeapInv /\ NothingLeaks
  BY DEF OthersStep, Idle, KernelInv
<1>2. CallInv' /\ BufferFits'
  BY <1>1 DEF KernelInv, CallInv, BufferFits
<1>3. ASSUME NEW n \in Sizes, OthersMalloc(n) PROVE Preserved
  <2>1. n \in Nat /\ n \in Requests
    BY SizesNat DEF Requests
  <2>2. malloc(n) /\ Result(n) = Min(Fitting(heap, n)) /\ others' = others \cup {Result(n)}
    BY <1>3 DEF OthersMalloc, malloc, Result
  <2>3. /\ HeapInv' /\ InUse(heap') = InUse(heap) \cup {Result(n)} /\ Result(n) \notin InUse(heap)
        /\ Sized /\ NoWrap(n) => Sized'
    BY <1>1, <2>1, <2>2, MallocKeeps
  <2>4. NothingLeaks'
    <3>1. /\ {Result(n)} \cap InUse(heap) = {} /\ {} \subseteq others
          /\ InUse(heap') = (InUse(heap) \cup {Result(n)}) \ {}
          /\ others' = (others \cup {Result(n)}) \ {}
      BY <2>2, <2>3
    <3> QED
      BY <1>1, <3>1, OthersOwn
  <2> QED
    BY <1>2, <2>1, <2>3, <2>4 DEF Preserved, RequestsFit, Fits
<1>4. ASSUME NEW p \in others, OthersFree(p) PROVE Preserved
  <2>1. free(p) /\ others' = others \ {p}
    BY <1>4 DEF OthersFree
  <2>2. HeapInv' /\ InUse(heap') = InUse(heap) \ {p} /\ (Sized => Sized')
    BY <1>1, <2>1, FreeKeeps
  <2>3. NothingLeaks'
    <3>1. /\ {} \cap InUse(heap) = {} /\ {p} \subseteq others
          /\ InUse(heap') = (InUse(heap) \cup {}) \ {p} /\ others' = (others \cup {}) \ {p}
      BY <2>1, <2>2
    <3> QED
      BY <1>1, <3>1, OthersOwn
  <2> QED
    BY <1>2, <2>2, <2>3 DEF Preserved, Fits
<1>5. ASSUME NEW p \in freed, DoubleFree(p), UNCHANGED others PROVE Preserved
  <2>1. HeapInv' /\ InUse(heap') = InUse(heap) /\ (Sized => Sized')
    BY <1>1, <1>5, DoubleFreeKeeps
  <2>2. NothingLeaks'
    BY <1>1, <1>5, <2>1 DEF NothingLeaks, Owned
  <2> QED
    BY <1>2, <2>1, <2>2 DEF Preserved, Fits
<1>6. ASSUME NEW p \in others, NEW n \in Sizes, OthersRealloc(p, n) PROVE Preserved
  <2>1. n \in Nat /\ n \in Requests
    BY SizesNat DEF Requests
  <2>2. CASE Shrink(p, n) /\ UNCHANGED others
    <3>1. HeapInv' /\ InUse(heap') = InUse(heap) /\ (Sized => Sized')
      BY <1>1, <2>1, <2>2, ShrinkKeeps
    <3>2. NothingLeaks'
      BY <1>1, <2>2, <3>1 DEF NothingLeaks, Owned
    <3> QED
      BY <1>2, <3>1, <3>2 DEF Preserved, Fits
  <2>3. CASE Grow(p, n) /\ others' = (others \ {p}) \cup {Result(n)}
    <3>1. Result(n) = Min(Fitting(heap, n)) /\ p \in InUse(heap)
      BY <2>3 DEF Grow, Result
    <3>2. /\ HeapInv' /\ InUse(heap') = (InUse(heap) \cup {Result(n)}) \ {p}
          /\ Result(n) \notin InUse(heap) /\ (Sized /\ NoWrap(n) => Sized')
      BY <1>1, <2>1, <2>3, <3>1, GrowKeeps
    <3>3. NothingLeaks'
      <4>1. /\ {Result(n)} \cap InUse(heap) = {} /\ {p} \subseteq others
            /\ others' = (others \cup {Result(n)}) \ {p}
        BY <2>3, <3>1, <3>2
      <4> QED
        BY <1>1, <3>2, <4>1, OthersOwn
    <3> QED
      BY <1>2, <2>1, <3>2, <3>3 DEF Preserved, RequestsFit, Fits
  <2> QED
    BY <1>6, <2>2, <2>3 DEF OthersRealloc
<1> QED
  BY <1>3, <1>4, <1>5, <1>6 DEF OthersStep

----
(* The context: llm_init and llm_free. *)

\* A step of a call that leaves the heap alone.
LEMMA HeapSame ==
  ASSUME HeapInv, UNCHANGED heapvars
  PROVE  HeapInv' /\ heap' = heap /\ (Sized => Sized')
<1>1. heap' = heap /\ need' = need /\ cut' = cut
  BY DEF heapvars
<1> QED
  BY <1>1 DEF HeapInv, Accounted, Sized, LargeEnough

\* llm_init owns the block it got; a refused model's is freed next.
LEMMA InitKeeps ==
  ASSUME KernelInv, NEW model, llm_init(model)
  PROVE  Preserved
<1> DEFINE r == Result(ContextSize)
<1>1. /\ gen.pc = "idle" /\ ctx.at = NULL /\ Malloc(ContextSize) /\ others' = others
      /\ ctx' = [NoContext EXCEPT !.at = r]
      /\ \E l \in {"idle", "free_ctx"} : (r = NULL => l = "idle") /\ gen' = [gen EXCEPT !.pc = l]
  BY DEF llm_init, Idle, Goto
<1>2. ContextSize \in Nat /\ ContextSize \in Requests
  BY SizesNat DEF Requests
<1>3. /\ HeapInv' /\ r \in Int /\ r \notin InUse(heap) /\ InUse(heap') = InUse(heap) \cup ({r} \ {NULL})
      /\ (Sized /\ NoWrap(ContextSize) => Sized')
  BY <1>1, <1>2, MallocResult DEF KernelInv
<1> HIDE DEF r
<1>4. /\ ctx'.at = r /\ ctx'.tokens = NULL /\ ctx' \in Context
      /\ gen' \in Call /\ gen'.tokens = gen.tokens /\ gen'.pc \in {"idle", "free_ctx"}
      /\ gen'.pc = "free_ctx" => r # NULL
  BY <1>1, <1>3, NoContextIs DEF KernelInv, CallInv, Context, Call, Labels
<1>5. CallInv'
  BY <1>4 DEF KernelInv, CallInv, Evaluating
<1>6. Owned = {} /\ Owned' = {r} \ {NULL}
  BY <1>1, <1>4 DEF Owned, KernelInv, CallInv
<1>7. NothingLeaks'
  BY <1>1, <1>3, <1>6 DEF KernelInv, NothingLeaks
<1>8. RequestsFit /\ Fits => Fits'
  BY <1>2, <1>3, <1>4 DEF RequestsFit, Fits, BufferFits
<1> QED
  BY <1>3, <1>5, <1>7, <1>8 DEF Preserved

\* llm_free frees each of the two blocks once, and forgets it.
LEMMA LlmFreeKeeps ==
  ASSUME KernelInv, llm_free \/ FreeTokens \/ FreeContext
  PROVE  Preserved
<1>1. CASE llm_free
  <2>1. /\ gen.pc = "idle" /\ ctx.at # NULL /\ others' = others /\ ctx' = ctx /\ UNCHANGED heapvars
        /\ \E l \in {"free_tokens", "free_ctx"} : /\ l = "free_tokens" <=> ctx.tokens # NULL
                                                 /\ gen' = [gen EXCEPT !.pc = l]
    BY <1>1 DEF llm_free, Idle, Goto
  <2>2. HeapInv' /\ heap' = heap /\ (Sized => Sized')
    BY <2>1, HeapSame DEF KernelInv
  <2>3. /\ gen' \in Call /\ gen'.tokens = gen.tokens /\ gen'.pc \in {"free_tokens", "free_ctx"}
        /\ gen'.pc = "free_tokens" <=> ctx.tokens # NULL
    BY <2>1 DEF KernelInv, CallInv, Call, Labels
  <2>4. CallInv'
    BY <2>1, <2>3 DEF KernelInv, CallInv, Evaluating
  <2>5. NothingLeaks'
    BY <2>1, <2>2, <2>3 DEF KernelInv, NothingLeaks, Owned
  <2> QED
    BY <2>2, <2>3, <2>4, <2>5 DEF Preserved, Fits, BufferFits
<1>2. CASE FreeTokens
  <2>1. /\ gen.pc = "free_tokens" /\ free(ctx.tokens) /\ ctx' = [ctx EXCEPT !.tokens = NULL]
        /\ gen' = [gen EXCEPT !.pc = "free_ctx"] /\ others' = others
    BY <1>2 DEF FreeTokens, Goto
  <2>2. HeapInv' /\ InUse(heap') = InUse(heap) \ {ctx.tokens} /\ (Sized => Sized')
    BY <2>1, FreeKeeps DEF KernelInv
  <2>3. /\ ctx.at # NULL /\ ctx.tokens # NULL /\ ctx.tokens # ctx.at
    BY <2>1 DEF KernelInv, CallInv
  <2>4. /\ ctx' \in Context /\ ctx'.at = ctx.at /\ ctx'.tokens = NULL
        /\ gen' \in Call /\ gen'.tokens = gen.tokens /\ gen'.pc = "free_ctx"
    BY <2>1, NoContextIs DEF KernelInv, CallInv, Context, Call, Labels
  <2>5. CallInv'
    BY <2>3, <2>4 DEF KernelInv, CallInv, Evaluating
  <2>6. Owned = {ctx.at, ctx.tokens} /\ Owned' = {ctx.at}
    BY <2>1, <2>3, <2>4 DEF Owned
  <2>7. NothingLeaks'
    BY <2>1, <2>2, <2>3, <2>6 DEF KernelInv, NothingLeaks
  <2> QED
    BY <2>2, <2>4, <2>5, <2>7 DEF Preserved, Fits, BufferFits
<1>3. CASE FreeContext
  <2>1. /\ gen.pc = "free_ctx" /\ free(ctx.at) /\ ctx' = NoContext
        /\ gen' = [gen EXCEPT !.pc = "idle"] /\ others' = others
    BY <1>3 DEF FreeContext, Goto
  <2>2. HeapInv' /\ InUse(heap') = InUse(heap) \ {ctx.at} /\ (Sized => Sized')
    BY <2>1, FreeKeeps DEF KernelInv
  <2>3. ctx.at # NULL /\ ctx.tokens = NULL
    BY <2>1 DEF KernelInv, CallInv
  <2>4. /\ ctx' \in Context /\ ctx'.at = NULL /\ ctx'.tokens = NULL
        /\ gen' \in Call /\ gen'.tokens = gen.tokens /\ gen'.pc = "idle"
    BY <2>1, NoContextIs DEF KernelInv, CallInv, Call, Labels
  <2>5. CallInv'
    BY <2>4 DEF KernelInv, CallInv, Evaluating
  <2>6. Owned = {ctx.at} /\ Owned' = {}
    BY <2>1, <2>3, <2>4 DEF Owned
  <2>7. NothingLeaks'
    BY <2>1, <2>2, <2>6 DEF KernelInv, NothingLeaks
  <2> QED
    BY <2>2, <2>4, <2>5, <2>7 DEF Preserved, Fits, BufferFits
<1> QED
  BY <1>1, <1>2, <1>3

----
(* llm_generate. *)

\* llm_tokenize keeps the beginning of the prompt, up to the window.
LEMMA TokenizeIs ==
  ASSUME NEW prompt \in Seq(0 .. CharMod - 1)
  PROVE  LET t == llm_tokenize(prompt)
         IN  /\ t \in Seq(Nat) /\ Len(t) <= Window /\ Len(t) <= Len(prompt)
             /\ Len(t) = Len(prompt) \/ Len(t) = Window
             /\ \A i \in 1 .. Len(t) : t[i] = prompt[i]
<1> DEFINE k == IF Len(prompt) < Window THEN Len(prompt) ELSE Window
<1>1. Len(prompt) \in Nat /\ Window \in Nat /\ prompt \in Seq(Nat) /\ \A i \in 1 .. Len(prompt) : prompt[i] \in Nat
  BY SizesNat
<1>2. k \in Nat /\ k <= Len(prompt) /\ k <= Window /\ (k = Len(prompt) \/ k = Window)
  BY <1>1
<1>3. llm_tokenize(prompt) = SubSeq(prompt, 1, k)
  BY DEF llm_tokenize
<1> HIDE DEF k
<1>4. /\ SubSeq(prompt, 1, k) \in Seq(Nat) /\ Len(SubSeq(prompt, 1, k)) = k
      /\ \A i \in 1 .. k : SubSeq(prompt, 1, k)[i] = prompt[i]
  BY <1>1, <1>2
<1> QED
  BY <1>2, <1>3, <1>4

\* The window takes one more token at its end and does not outgrow its array.
LEMMA ShiftedIs ==
  ASSUME NEW tokens \in Seq(Nat), tokens # <<>>, Len(tokens) <= Window, NEW t \in Nat
  PROVE  LET w == Shifted(tokens, t)
         IN  /\ w \in Seq(Nat) /\ Len(w) <= Window /\ w # <<>> /\ Len(w) > 0
             /\ w[Len(w)] = t
<1>1. Window \in Nat \ {0} /\ Len(tokens) \in Nat \ {0}
  BY SizesNat
<1>2. CASE Len(tokens) < Window
  <2>1. Shifted(tokens, t) = Append(tokens, t)
    BY <1>2 DEF Shifted
  <2> QED
    BY <1>1, <1>2, <2>1
<1>3. CASE ~(Len(tokens) < Window)
  <2>1. Shifted(tokens, t) = Append(Tail(tokens), t)
    BY <1>3 DEF Shifted
  <2>2. Tail(tokens) \in Seq(Nat) /\ Len(Tail(tokens)) = Len(tokens) - 1
    OBVIOUS
  <2> QED
    BY <1>1, <2>1, <2>2
<1> QED
  BY <1>2, <1>3

\* The sampled token follows the last one of the window.
LEMMA SampleIs ==
  ASSUME CallInv, gen.pc = "sample"
  PROVE  /\ gen.tokens \in Seq(Nat) /\ Len(gen.tokens) > 0 /\ llm_sample \in Nat
         /\ llm_sample = gen.tokens[Len(gen.tokens)] + 1
<1>1. /\ gen.tokens \in Seq(Nat) /\ gen.tokens # <<>> /\ ctx.token_count = Len(gen.tokens)
      /\ ctx.data = gen.tokens
  BY DEF CallInv, Evaluating, Call
<1>2. Len(gen.tokens) \in Nat /\ Len(gen.tokens) > 0
  BY <1>1
<1>3. gen.tokens[Len(gen.tokens)] \in Nat
  BY <1>1, <1>2
<1> QED
  BY <1>1, <1>2, <1>3 DEF llm_sample

\* The steps of a call that do not touch the heap.
LEMMA GenerateKeeps ==
  ASSUME KernelInv,
         \/ \E prompt \in Prompts, max \in Budgets : llm_generate(prompt, max)
         \/ Loop \/ Sample \/ Return
  PROVE  Preserved
<1>1. UNCHANGED heapvars /\ ctx' = ctx /\ others' = others
  BY DEF llm_generate, Loop, Sample, Return
<1>2. HeapInv' /\ heap' = heap /\ (Sized => Sized')
  BY <1>1, HeapSame DEF KernelInv
<1>3. SUFFICES CallInv' /\ gen.pc # "alloc" /\ (gen'.pc = "alloc" => ctx.tokens = NULL) /\ gen'.pc # "sample"
  <2>1. NothingLeaks'
    BY <1>1, <1>2, <1>3 DEF KernelInv, NothingLeaks, Owned
  <2> QED
    BY <1>2, <1>3, <2>1 DEF Preserved, Fits, BufferFits
<1>4. ASSUME NEW prompt \in Prompts, NEW max \in Budgets, llm_generate(prompt, max)
      PROVE  CallInv' /\ gen.pc # "alloc" /\ (gen'.pc = "alloc" => ctx.tokens = NULL) /\ gen'.pc # "sample"
  <2>1. /\ gen.pc = "idle" /\ ctx.at # NULL
        /\ gen' = [pc |-> "loop", prompt |-> prompt, max_tokens |-> max,
                   tokens |-> llm_tokenize(prompt), output |-> <<>>]
    BY <1>4 DEF llm_generate, Idle
  <2>2. prompt \in Seq(0 .. CharMod - 1) /\ max \in Nat /\ <<>> \in Seq(Nat)
    BY LlmAssumption
  <2>3. llm_tokenize(prompt) \in Seq(Nat) /\ Len(llm_tokenize(prompt)) <= Window
    BY <2>2, TokenizeIs
  <2>4. gen' \in Call /\ gen'.pc = "loop" /\ Len(gen'.tokens) <= Window
    BY <2>1, <2>2, <2>3 DEF Call, Labels
  <2> QED
    BY <1>1, <2>1, <2>4 DEF KernelInv, CallInv, Evaluating
<1>5. CASE Loop
  <2>1. gen.pc = "loop" /\ gen' = [gen EXCEPT !.pc = EvalNext]
    BY <1>5 DEF Loop, Goto
  <2>2. /\ EvalNext \in {"done", "failed", "refill", "alloc"}
        /\ EvalNext \in {"refill", "alloc"} => gen.tokens # <<>>
        /\ EvalNext = "refill" => ctx.tokens # NULL
        /\ EvalNext = "alloc" => ctx.tokens = NULL
    BY DEF EvalNext
  <2>3. gen' \in Call /\ gen'.pc = EvalNext /\ gen'.tokens = gen.tokens
    BY <2>1, <2>2 DEF KernelInv, CallInv, Call, Labels
  <2> QED
    BY <1>1, <2>1, <2>2, <2>3 DEF KernelInv, CallInv, Evaluating
<1>6. CASE Sample
  <2>1. /\ gen.pc = "sample"
        /\ gen' = [gen EXCEPT !.pc = "loop", !.tokens = Shifted(gen.tokens, llm_sample),
                              !.output = Append(gen.output, llm_sample % CharMod)]
    BY <1>6 DEF Sample
  <2>2. gen.tokens \in Seq(Nat) /\ gen.tokens # <<>> /\ llm_sample \in Nat /\ Len(gen.tokens) <= Window
    BY <2>1, SampleIs DEF KernelInv, CallInv
  <2>3. Shifted(gen.tokens, llm_sample) \in Seq(Nat) /\ Len(Shifted(gen.tokens, llm_sample)) <= Window
    BY <2>2, ShiftedIs
  <2>4. gen.output \in Seq(Nat) /\ Append(gen.output, llm_sample % CharMod) \in Seq(Nat)
    BY <2>2, SizesNat DEF KernelInv, CallInv, Call
  <2>5. gen' \in Call /\ gen'.pc = "loop" /\ Len(gen'.tokens) <= Window
    BY <2>1, <2>3, <2>4 DEF KernelInv, CallInv, Call, Labels
  <2> QED
    BY <1>1, <2>1, <2>5 DEF KernelInv, CallInv, Evaluating
<1>7. CASE Return
  <2>1. gen.pc \in {"done", "failed"} /\ gen' = NoCall
    BY <1>7 DEF Return
  <2>2. gen' \in Call /\ gen'.pc = "idle" /\ Len(gen'.tokens) <= Window
    BY <2>1, SizesNat DEF NoCall, Call, Labels
  <2> QED
    BY <1>1, <2>1, <2>2 DEF KernelInv, CallInv, Evaluating
<1> QED
  BY <1>4, <1>5, <1>6, <1>7

\* llm_eval replaces the token buffer: the old block is freed before the new
\* one is allocated, and without a new one the context keeps none.
LEMMA EvaluationKeeps ==
  ASSUME KernelInv, EvalFree \/ EvalAlloc
  PROVE  Preserved
<1>1. CASE EvalFree
  <2>1. /\ gen.pc = "refill" /\ free(ctx.tokens) /\ ctx' = ctx /\ others' = others
        /\ gen' = [gen EXCEPT !.pc = "alloc"]
    BY <1>1 DEF EvalFree, Goto
  <2>2. HeapInv' /\ InUse(heap') = InUse(heap) \ {ctx.tokens} /\ (Sized => Sized')
    BY <2>1, FreeKeeps DEF KernelInv
  <2>3. ctx.at # NULL /\ ctx.tokens # NULL /\ ctx.tokens # ctx.at /\ gen.tokens # <<>>
    BY <2>1 DEF KernelInv, CallInv, Evaluating
  <2>4. gen' \in Call /\ gen'.tokens = gen.tokens /\ gen'.pc = "alloc"
    BY <2>1 DEF KernelInv, CallInv, Call, Labels
  <2>5. CallInv'
    BY <2>1, <2>3, <2>4 DEF KernelInv, CallInv, Evaluating
  <2>6. Owned = {ctx.at, ctx.tokens} /\ Owned' = {ctx.at}
    BY <2>1, <2>3, <2>4 DEF Owned
  <2>7. NothingLeaks'
    BY <2>1, <2>2, <2>3, <2>6 DEF KernelInv, NothingLeaks
  <2> QED
    BY <2>2, <2>4, <2>5, <2>7 DEF Preserved, Fits, BufferFits
<1>2. CASE EvalAlloc
  <2> DEFINE n == Len(gen.tokens)
             r == Result(n)
  <2>1. /\ gen.pc = "alloc" /\ Malloc(n) /\ others' = others
        /\ ctx' = IF r = NULL THEN [ctx EXCEPT !.tokens = NULL, !.data = <<>>]
                  ELSE [ctx EXCEPT !.tokens = r, !.token_count = n, !.data = gen.tokens]
        /\ gen' = [gen EXCEPT !.pc = IF r = NULL THEN "failed" ELSE "sample"]
    BY <1>2 DEF EvalAlloc, Goto, BufferSize, AfterMalloc
  <2>2. /\ gen \in Call /\ ctx \in Context /\ gen.tokens \in Seq(Nat) /\ n \in Nat /\ n <= Window
        /\ gen.tokens # <<>> /\ ctx.at # NULL
    BY <2>1 DEF KernelInv, CallInv, Call, Evaluating
  <2>3. n \in Requests
    BY <2>2, SizesNat DEF Requests
  <2>4. /\ HeapInv' /\ r \in Int /\ r \notin InUse(heap) /\ InUse(heap') = InUse(heap) \cup ({r} \ {NULL})
        /\ (Sized /\ NoWrap(n) => Sized' /\ (r # NULL => heap'.size[r] >= n))
    BY <2>1, <2>2, MallocResult DEF KernelInv
  <2> HIDE DEF r
  <2>5. Owned = {ctx.at} /\ ctx.at \in InUse(heap)
    BY <2>1, <2>2 DEF Owned, KernelInv, NothingLeaks
  <2>6. CASE r = NULL
    <3>1. /\ ctx'.tokens = NULL /\ ctx'.at = ctx.at /\ ctx' \in Context
      <4> DEFINE e == <<>>
      <4>1. e \in Seq(Nat) /\ ctx' = [ctx EXCEPT !.tokens = NULL, !.data = e]
        BY <2>1, <2>6
      <4> HIDE DEF e
      <4> QED
        BY <2>2, <4>1, NoContextIs DEF Context
    <3>2. gen' \in Call /\ gen'.pc = "failed" /\ gen'.tokens = gen.tokens
      BY <2>1, <2>2, <2>6 DEF Call, Labels
    <3>3. CallInv'
      BY <2>2, <3>1, <3>2 DEF CallInv, Evaluating
    <3>4. Owned' = {ctx.at}
      BY <2>2, <3>1, <3>2 DEF Owned
    <3>5. NothingLeaks'
      BY <2>1, <2>4, <2>5, <2>6, <3>4 DEF KernelInv, NothingLeaks
    <3> QED
      BY <2>3, <2>4, <3>2, <3>3, <3>5 DEF Preserved, RequestsFit, Fits, BufferFits
  <2>7. CASE r # NULL
    <3>1. /\ ctx'.tokens = r /\ ctx'.at = ctx.at /\ ctx'.token_count = n /\ ctx'.data = gen.tokens
          /\ ctx' \in Context
      BY <2>1, <2>2, <2>4, <2>7 DEF Context
    <3>2. gen' \in Call /\ gen'.pc = "sample" /\ gen'.tokens = gen.tokens
      BY <2>1, <2>2, <2>7 DEF Call, Labels
    <3>3. CallInv'
      BY <2>2, <2>4, <2>5, <2>7, <3>1, <3>2 DEF CallInv, Evaluating
    <3>4. Owned' = {ctx.at, r}
      BY <2>2, <2>7, <3>1, <3>2 DEF Owned
    <3>5. NothingLeaks'
      BY <2>1, <2>4, <2>5, <2>7, <3>4 DEF KernelInv, NothingLeaks
    <3> QED
      BY <2>3, <2>4, <2>7, <3>1, <3>2, <3>3, <3>5 DEF Preserved, RequestsFit, Fits, BufferFits
  <2> QED
    BY <2>6, <2>7
<1> QED
  BY <1>1, <1>2

----
(* The kernel. *)

\* Every step of the kernel keeps the invariant.
LEMMA KernelStep ==
  ASSUME KernelInv, [KernelNext]_kvars
  PROVE  KernelInv' /\ (RequestsFit /\ Fits => Fits')
<1>1. CASE PciScan \/ NetworkInit \/ PatternTest \/ HealthTest \/ ModelTest \/ Forever
  BY <1>1, BootStep
<1>2. CASE Handle
  <2>1. boot.phase = "loop" /\ boot' = boot /\ (OthersStep \/ LlmStep)
    BY <1>2 DEF Handle, Phase
  <2>2. Preserved
    BY <2>1, OthersKeeps, InitKeeps, LlmFreeKeeps, GenerateKeeps, EvaluationKeeps DEF LlmStep
  <2>3. BootInv'
    BY <2>1 DEF KernelInv, BootInv
  <2> QED
    BY <2>2, <2>3 DEF Preserved, KernelInv
<1>3. CASE UNCHANGED kvars
  <2>1. UNCHANGED <<vars, llmvars>> /\ boot' = boot /\ boot \in Boot
    BY <1>3 DEF kvars, KernelInv, BootInv
  <2> QED
    BY <2>1, QuietStep
<1> QED
  BY <1>1, <1>2, <1>3 DEF KernelNext

\* The inductive invariant holds of every behaviour.
THEOREM Inductive == KernelSpec => []KernelInv
<1>1. KernelInit => KernelInv
  BY InitInv
<1>2. KernelInv /\ [KernelNext]_kvars => KernelInv'
  BY KernelStep
<1> QED
  BY <1>1, <1>2, PTL DEF KernelSpec

\* The arena of allocator.c stays sound under any sequence of malloc, free,
\* repeated free and realloc by the self tests, the LLM and other callers:
\* blocks are aligned, inside the arena and apart from each other.
THEOREM HeapSound == KernelSpec => []NoOverlap
<1>1. KernelInv => NoOverlap
  BY HeapInvImplies DEF KernelInv
<1> QED
  BY <1>1, Inductive, PTL

\* free's merging loop leaves no adjacent free blocks, and nothing makes any.
THEOREM HeapCoalesced == KernelSpec => []Coalesced
<1>1. KernelInv => Coalesced
  BY HeapInvImplies DEF KernelInv
<1> QED
  BY <1>1, Inductive, PTL

\* Only a shrinking realloc takes bytes away from the arena.
THEOREM HeapAccounted == KernelSpec => []Accounted
<1>1. KernelInv => Accounted
  BY HeapInvImplies DEF KernelInv
<1> QED
  BY <1>1, Inductive, PTL

\* llm.c frees what it allocates, once, whatever fails.
THEOREM NoLeak == KernelSpec => []NothingLeaks
<1>1. KernelInv => NothingLeaks
  BY DEF KernelInv
<1> QED
  BY <1>1, Inductive, PTL

\* malloc and realloc return blocks no smaller than asked for, as long as the
\* rounding of a request does not wrap around: (size + 7) & ~7 of a size_t in
\* its last seven values is 0, and the block then has 8 bytes.
THEOREM HeapLargeEnough ==
  ASSUME RequestsFit
  PROVE  KernelSpec => []LargeEnough
<1>1. KernelInit => KernelInv /\ Fits
  BY InitInv
<1>2. KernelInv /\ Fits /\ [KernelNext]_kvars => KernelInv' /\ Fits'
  BY KernelStep
<1>3. Fits => LargeEnough
  BY DEF Fits, Sized
<1> QED
  BY <1>1, <1>2, <1>3, PTL DEF KernelSpec

\* llm_sample reads inside the block that llm_eval allocated last, also after
\* evaluations that failed.
THEOREM SampleReads ==
  ASSUME RequestsFit
  PROVE  KernelSpec => []SampleInBounds
<1>1. KernelInit => KernelInv /\ Fits
  BY InitInv
<1>2. KernelInv /\ Fits /\ [KernelNext]_kvars => KernelInv' /\ Fits'
  BY KernelStep
<1>3. KernelInv /\ Fits => SampleInBounds
  <2> SUFFICES ASSUME KernelInv, Fits, gen.pc = "sample"
               PROVE  /\ ctx.tokens \in InUse(heap) /\ ctx.token_count > 0
                      /\ heap.size[ctx.tokens] >= ctx.token_count
                      /\ SubSeq(ctx.data, 1, ctx.token_count) = gen.tokens
    BY DEF SampleInBounds
  <2>1. /\ ctx.tokens # NULL /\ ctx.token_count = Len(gen.tokens) /\ ctx.data = gen.tokens
    BY DEF KernelInv, CallInv
  <2>2. ctx.tokens \in InUse(heap)
    BY <2>1 DEF KernelInv, NothingLeaks, Owned
  <2>3. gen.tokens \in Seq(Nat) /\ Len(gen.tokens) > 0
    BY SampleIs DEF KernelInv
  <2>4. SubSeq(gen.tokens, 1, Len(gen.tokens)) = gen.tokens
    BY <2>3
  <2> QED
    BY <2>1, <2>2, <2>3, <2>4 DEF Fits, BufferFits
<1> QED
  BY <1>1, <1>2, <1>3, PTL DEF KernelSpec

----
(* The generated text. *)

\* The position of the last character of the prompt that fits the window.
Kept(prompt) == Min({Len(prompt), Window})

\* Of a call that has not failed: the window ends with the token that follows
\* the kept prompt by as many as were generated, and so did it at each of them.
Continues(c) ==
    /\ c.max_tokens > 0
    /\ c.tokens = <<>> <=> c.prompt = <<>>
    /\ Len(c.output) <= c.max_tokens /\ Len(c.output) < OutputSize
    /\ c.prompt = <<>> => c.output = <<>>
    /\ c.prompt # <<>> => c.prompt[Kept(c.prompt)] \in Nat
    /\ \A i \in 1 .. Len(c.output) : c.output[i] = (c.prompt[Kept(c.prompt)] + i) % CharMod
    /\ c.tokens # <<>> => c.tokens[Len(c.tokens)] = c.prompt[Kept(c.prompt)] + Len(c.output)

Unfinished(c) == Len(c.output) < c.max_tokens /\ Len(c.output) + 1 < OutputSize

TextInv ==
    /\ gen.pc \in Evaluating \cup {"loop", "done"} => Continues(gen)
    /\ gen.pc \in Evaluating => Unfinished(gen)
    /\ gen.pc = "done" => ~Unfinished(gen)

\* The smaller of two naturals.
LEMMA MinOfTwo ==
  ASSUME NEW a \in Nat, NEW b \in Nat
  PROVE  Min({a, b}) = IF a < b THEN a ELSE b
<1>1. Min({a, b}) \in {a, b} /\ \A j \in {a, b} : Min({a, b}) <= j
  <2>1. {a, b} \in SUBSET Nat /\ {a, b} # {}
    OBVIOUS
  <2> QED
    BY <2>1, MinIs, Zenon
<1> DEFINE m == Min({a, b})
<1>2. (m = a \/ m = b) /\ m <= a /\ m <= b
  BY <1>1
<1> HIDE DEF m
<1>3. m = IF a < b THEN a ELSE b
  BY <1>2
<1> QED
  BY <1>3 DEF m

\* A new call has generated nothing.
LEMMA NewCall ==
  ASSUME NEW prompt \in Seq(0 .. CharMod - 1), NEW max \in Nat \ {0}
  PROVE  Continues([pc |-> "loop", prompt |-> prompt, max_tokens |-> max,
                    tokens |-> llm_tokenize(prompt), output |-> <<>>])
<1> DEFINE t == llm_tokenize(prompt)
           c == [pc |-> "loop", prompt |-> prompt, max_tokens |-> max, tokens |-> t, output |-> <<>>]
<1>1. Len(prompt) \in Nat /\ Window \in Nat \ {0} /\ OutputSize \in Nat \ {0}
  BY SizesNat
<1>2. /\ t \in Seq(Nat) /\ Len(t) <= Window /\ Len(t) <= Len(prompt)
      /\ Len(t) = Len(prompt) \/ Len(t) = Window
      /\ \A i \in 1 .. Len(t) : t[i] = prompt[i]
  BY TokenizeIs
<1>3. Kept(prompt) = IF Len(prompt) < Window THEN Len(prompt) ELSE Window
  BY <1>1, MinOfTwo DEF Kept
<1> HIDE DEF t
<1>4. Len(t) \in Nat
  BY <1>2
<1>5. Len(t) = Kept(prompt)
  BY <1>1, <1>2, <1>3, <1>4
<1>6. t = <<>> <=> prompt = <<>>
  <2>1. t = <<>> <=> Len(t) = 0
    BY <1>2
  <2>2. prompt = <<>> <=> Len(prompt) = 0
    OBVIOUS
  <2> QED
    BY <1>1, <1>3, <1>5, <2>1, <2>2
<1>7. ASSUME prompt # <<>> PROVE t[Len(t)] = prompt[Kept(prompt)] /\ prompt[Kept(prompt)] \in Nat
  <2>1. Len(t) \in 1 .. Len(t)
    BY <1>2, <1>6, <1>7
  <2>2. t[Len(t)] \in Nat
    BY <1>2, <2>1
  <2>3. t[Len(t)] = prompt[Len(t)]
    BY <1>2, <2>1
  <2> QED
    BY <1>5, <2>2, <2>3
<1>8. /\ c.prompt = prompt /\ c.max_tokens = max /\ c.tokens = t /\ c.output = <<>>
  OBVIOUS
<1> HIDE DEF c
<1>9. Len(c.output) = 0
  BY <1>8
<1>10. Continues(c)
  <2>1. c.tokens # <<>> => c.tokens[Len(c.tokens)] = c.prompt[Kept(c.prompt)] + Len(c.output)
    BY <1>6, <1>7, <1>8, <1>9
  <2>2. c.prompt # <<>> => c.prompt[Kept(c.prompt)] \in Nat
    BY <1>7, <1>8
  <2>3. \A i \in 1 .. Len(c.output) : c.output[i] = (c.prompt[Kept(c.prompt)] + i) % CharMod
    BY <1>9
  <2> QED
    BY <1>1, <1>6, <1>8, <1>9, <2>1, <2>2, <2>3 DEF Continues
<1> QED
  BY <1>10 DEF c, t

\* llm_sample's token continues the text, whether or not the window moves.
LEMMA SampledText ==
  ASSUME CallInv, TextInv, Sample
  PROVE  Continues(gen')
<1> DEFINE s == llm_sample
           k == gen.prompt[Kept(gen.prompt)]
           n == Len(gen.output)
<1>1. /\ gen.pc = "sample" /\ gen \in Call
      /\ gen' = [gen EXCEPT !.pc = "loop", !.tokens = Shifted(gen.tokens, s),
                            !.output = Append(gen.output, s % CharMod)]
  BY DEF Sample, CallInv
<1>2. /\ gen'.prompt = gen.prompt /\ gen'.max_tokens = gen.max_tokens
      /\ gen'.tokens = Shifted(gen.tokens, s) /\ gen'.output = Append(gen.output, s % CharMod)
  BY <1>1 DEF Call
<1>3. Continues(gen) /\ Unfinished(gen)
  BY <1>1 DEF TextInv, Evaluating
<1>4. /\ gen.tokens \in Seq(Nat) /\ gen.tokens # <<>> /\ Len(gen.tokens) <= Window /\ s \in Nat
      /\ s = gen.tokens[Len(gen.tokens)] + 1
  BY <1>1, SampleIs DEF CallInv
<1>5. gen.output \in Seq(Nat) /\ n \in Nat /\ gen.max_tokens \in Nat /\ OutputSize \in Nat
  BY <1>1, SizesNat DEF Call
<1>6. gen.prompt # <<>> /\ k \in Nat /\ s = k + n + 1
  BY <1>3, <1>4, <1>5 DEF Continues
<1>7. /\ Shifted(gen.tokens, s) # <<>> /\ Shifted(gen.tokens, s)[Len(Shifted(gen.tokens, s))] = s
  BY <1>4, ShiftedIs
<1>8. /\ Len(gen'.output) = n + 1 /\ gen'.output[n + 1] = s % CharMod
      /\ \A i \in 1 .. n : gen'.output[i] = gen.output[i]
  <2>1. s % CharMod \in Nat
    BY <1>4, SizesNat
  <2> QED
    BY <1>2, <1>5, <2>1
<1>a. \A i \in 1 .. n : gen.output[i] = (k + i) % CharMod
  BY <1>3 DEF Continues
<1> HIDE DEF s, n, k
<1>9. \A i \in 1 .. Len(gen'.output) : gen'.output[i] = (k + i) % CharMod
  <2> SUFFICES ASSUME NEW i \in 1 .. n + 1 PROVE gen'.output[i] = (k + i) % CharMod
    BY <1>8
  <2>1. CASE i = n + 1
    <3>1. k + i = s
      BY <1>5, <1>6, <2>1
    <3> QED
      BY <1>8, <2>1, <3>1
  <2>2. CASE i \in 1 .. n
    BY <1>8, <1>a, <2>2
  <2> QED
    BY <1>5, <2>1, <2>2
<1>10. Len(gen'.output) <= gen'.max_tokens /\ Len(gen'.output) < OutputSize /\ gen'.max_tokens > 0
  BY <1>2, <1>3, <1>5, <1>8 DEF Continues, Unfinished, n
<1>11. gen'.tokens # <<>> /\ gen'.prompt # <<>> /\ gen'.prompt[Kept(gen'.prompt)] = k
  BY <1>2, <1>6, <1>7 DEF k
<1>12. gen'.tokens[Len(gen'.tokens)] = k + Len(gen'.output)
  <2>1. s = k + (n + 1)
    BY <1>5, <1>6
  <2> QED
    BY <1>2, <1>7, <1>8, <2>1
<1> QED
  BY <1>6, <1>9, <1>10, <1>11, <1>12 DEF Continues

\* A step that only changes where a call is.
LEMMA SameText ==
  ASSUME gen \in Call, NEW l \in Labels, gen' = [gen EXCEPT !.pc = l]
  PROVE  /\ gen'.pc = l /\ (Continues(gen) => Continues(gen'))
         /\ (Unfinished(gen) <=> Unfinished(gen'))
<1>1. /\ gen'.pc = l /\ gen'.prompt = gen.prompt /\ gen'.max_tokens = gen.max_tokens
      /\ gen'.tokens = gen.tokens /\ gen'.output = gen.output
  BY DEF Call
<1> QED
  BY <1>1 DEF Continues, Unfinished

\* Every step keeps the invariant of the text.
LEMMA TextStep ==
  ASSUME KernelInv, TextInv, [KernelNext]_kvars
  PROVE  TextInv'
<1>1. gen \in Call
  BY DEF KernelInv, CallInv
<1>2. CASE gen' = gen
  BY <1>2 DEF TextInv
<1>3. ASSUME NEW l \in {"idle", "free_tokens", "free_ctx", "failed"}, gen' = [gen EXCEPT !.pc = l]
      PROVE  TextInv'
  <2>1. gen'.pc = l
    BY <1>1, <1>3 DEF Call
  <2> QED
    BY <2>1 DEF TextInv, Evaluating
<1>4. ASSUME NEW prompt \in Prompts, NEW max \in Budgets, llm_generate(prompt, max) PROVE TextInv'
  <2>1. gen' = [pc |-> "loop", prompt |-> prompt, max_tokens |-> max,
                tokens |-> llm_tokenize(prompt), output |-> <<>>]
    BY <1>4 DEF llm_generate
  <2>2. prompt \in Seq(0 .. CharMod - 1) /\ max \in Nat \ {0}
    BY LlmAssumption
  <2>3. Continues(gen')
    BY <2>1, <2>2, NewCall
  <2>4. gen'.pc = "loop"
    BY <2>1
  <2> QED
    BY <2>3, <2>4 DEF TextInv, Evaluating
<1>5. CASE Loop
  <2>1. gen.pc = "loop" /\ gen' = [gen EXCEPT !.pc = EvalNext]
    BY <1>5 DEF Loop, Goto
  <2>2. /\ EvalNext \in {"done", "failed", "refill", "alloc"}
        /\ EvalNext = "done" <=> ~Unfinished(gen)
    BY DEF EvalNext, More, Unfinished
  <2>3. EvalNext \in Labels
    BY <2>2 DEF Labels
  <2>4. gen'.pc = EvalNext /\ Continues(gen') /\ (Unfinished(gen) <=> Unfinished(gen'))
    BY <1>1, <2>1, <2>3, SameText DEF TextInv
  <2> QED
    BY <2>2, <2>4 DEF TextInv, Evaluating
<1>6. CASE EvalFree
  <2>1. gen.pc = "refill" /\ gen' = [gen EXCEPT !.pc = "alloc"]
    BY <1>6 DEF EvalFree, Goto
  <2>2. Continues(gen) /\ Unfinished(gen)
    BY <2>1 DEF TextInv, Evaluating
  <2>3. gen'.pc = "alloc" /\ Continues(gen') /\ Unfinished(gen')
    BY <1>1, <2>1, <2>2, SameText DEF Labels
  <2> QED
    BY <2>3 DEF TextInv
<1>7. CASE EvalAlloc
  <2>1. gen.pc = "alloc" /\ \E l \in {"failed", "sample"} : gen' = [gen EXCEPT !.pc = l]
    BY <1>7 DEF EvalAlloc, Goto, AfterMalloc
  <2>2. Continues(gen) /\ Unfinished(gen)
    BY <2>1 DEF TextInv, Evaluating
  <2>3. PICK l \in {"failed", "sample"} : gen' = [gen EXCEPT !.pc = l]
    BY <2>1
  <2>4. gen'.pc = l /\ Continues(gen') /\ Unfinished(gen')
    BY <1>1, <2>2, <2>3, SameText DEF Labels
  <2> QED
    BY <2>4 DEF TextInv
<1>8. CASE Sample
  <2>1. Continues(gen')
    BY <1>8, SampledText DEF KernelInv
  <2>2. gen'.pc = "loop"
    BY <1>1, <1>8 DEF Sample, Call
  <2> QED
    BY <2>1, <2>2 DEF TextInv, Evaluating
<1>9. CASE Return
  BY <1>9 DEF Return, NoCall, TextInv, Evaluating
<1>10. CASE LlmStep
  <2>1. ASSUME NEW model \in Models, llm_init(model) PROVE TextInv'
    BY <1>3, <2>1 DEF llm_init, Goto
  <2>2. CASE llm_free \/ FreeTokens \/ FreeContext
    BY <1>3, <2>2 DEF llm_free, FreeTokens, FreeContext, Goto
  <2> QED
    BY <1>4, <1>5, <1>6, <1>7, <1>8, <1>9, <1>10, <2>1, <2>2 DEF LlmStep
<1>11. CASE ~LlmStep
  <2>1. gen' = gen
    BY <1>11 DEF KernelNext, PciScan, NetworkInit, PatternTest, HealthTest, TestMalloc, TestFree, ModelTest,
                 Forever, Handle, OthersStep, kvars, llmvars
  <2> QED
    BY <1>2, <2>1
<1> QED
  BY <1>10, <1>11

\* llm_generate's output continues the kept prompt, character by character, up
\* to the budget or the end of the buffer, for every window and prompt.
THEOREM TextGenerated == KernelSpec => []GeneratedText
<1>1. KernelInit => KernelInv /\ TextInv
  <2>1. KernelInit => TextInv
    BY DEF KernelInit, LlmInit, NoCall, TextInv, Evaluating
  <2> QED
    BY <2>1, InitInv
<1>2. KernelInv /\ TextInv /\ [KernelNext]_kvars => KernelInv' /\ TextInv'
  BY KernelStep, TextStep
<1>3. KernelInv /\ TextInv => GeneratedText
  <2> DEFINE k == gen.prompt[Kept(gen.prompt)]
             m == Min({gen.max_tokens, OutputSize - 1})
  <2> SUFFICES ASSUME KernelInv, TextInv, gen.pc = "done"
               PROVE  gen.output = [i \in 1 .. m |-> (k + i) % CharMod]
    BY DEF GeneratedText, Kept
  <2>1. Continues(gen) /\ ~Unfinished(gen)
    BY DEF TextInv
  <2>2. /\ gen.output \in Seq(Nat) /\ Len(gen.output) \in Nat /\ gen.max_tokens \in Nat
        /\ OutputSize \in Nat \ {0} /\ OutputSize - 1 \in Nat
    BY SizesNat DEF KernelInv, CallInv, Call
  <2>3. m = IF gen.max_tokens < OutputSize - 1 THEN gen.max_tokens ELSE OutputSize - 1
    BY <2>2, MinOfTwo
  <2>4. \A i \in 1 .. Len(gen.output) : gen.output[i] = (k + i) % CharMod
    BY <2>1 DEF Continues
  <2> HIDE DEF k, m
  <2>5. Len(gen.output) = m
    BY <2>1, <2>2, <2>3 DEF Continues, Unfinished
  <2>6. gen.output = [i \in 1 .. Len(gen.output) |-> gen.output[i]]
    BY <2>2
  <2> QED
    BY <2>4, <2>5, <2>6
<1> QED
  BY <1>1, <1>2, <1>3, PTL DEF KernelSpec

----
(* The PCI scan. *)

\* A place of the scan: a location, or the end.
Place == {l \in Location : l[1] < Buses - 1} \cup {Scanned}

\* The components of a location, and of the end of the scan.
LEMMA LocationIs ==
  /\ {Buses, SlotsPerBus, Funcs, MaxDevices} \subseteq Nat \ {0} /\ Buses > 1
  /\ \A l \in Location : /\ l = <<l[1], l[2], l[3]>> /\ l[1] \in Nat /\ l[2] \in Nat /\ l[3] \in Nat
                         /\ l[1] < Buses /\ l[2] < SlotsPerBus /\ l[3] < Funcs
  /\ Scanned[1] = Buses /\ Scanned[2] = 0 /\ Scanned[3] = 0
  /\ \A a, b, c \in Nat : a < Buses /\ b < SlotsPerBus /\ c < Funcs => <<a, b, c>> \in Location
BY PciAssumption DEF Location, Scanned

\* The components of a place.
LEMMA PlaceIs ==
  ASSUME NEW l \in Place
  PROVE  l[1] \in Nat /\ l[2] \in Nat /\ l[3] \in Nat
BY LocationIs DEF Place

\* A function comes before another or they are the same; the order is strict.
LEMMA BeforeOrder ==
  /\ \A k, l, m \in Place \cup Location : Before(k, l) /\ Before(l, m) => Before(k, m)
  /\ \A k, l \in Place \cup Location : ~(Before(k, l) /\ Before(l, k)) /\ ~Before(k, k)
  /\ \A k, l \in Location : Before(k, l) \/ Before(l, k) \/ k = l
<1>1. \A l \in Place \cup Location : l[1] \in Nat /\ l[2] \in Nat /\ l[3] \in Nat
  BY PlaceIs, LocationIs
<1>2. \A k, l, m \in Place \cup Location : Before(k, l) /\ Before(l, m) => Before(k, m)
  BY <1>1 DEF Before
<1>3. \A k, l \in Place \cup Location : ~(Before(k, l) /\ Before(l, k)) /\ ~Before(k, k)
  BY <1>1 DEF Before
<1>4. ASSUME NEW k \in Location, NEW l \in Location PROVE Before(k, l) \/ Before(l, k) \/ k = l
  <2>1. k = <<k[1], k[2], k[3]>> /\ l = <<l[1], l[2], l[3]>>
    BY LocationIs
  <2>2. k[1] = l[1] /\ k[2] = l[2] /\ k[3] = l[3] => k = l
    BY <2>1
  <2>3. /\ k[1] \in Nat /\ k[2] \in Nat /\ k[3] \in Nat
        /\ l[1] \in Nat /\ l[2] \in Nat /\ l[3] \in Nat
    BY LocationIs
  <2> QED
    BY <2>2, <2>3 DEF Before
<1> QED
  BY <1>2, <1>3, <1>4

\* The loop over slots goes to the first function of the next slot: only the
\* rest of the slot is passed over.
LEMMA NextSlotIs ==
  ASSUME NEW l \in Location, l[1] < Buses - 1
  PROVE  LET m == NextSlot(l)
         IN  /\ m \in Place /\ m[3] = 0 /\ Before(l, m)
             /\ \A k \in Location : k[1] < Buses - 1 /\ Before(k, m) =>
                    Before(k, l) \/ (k[1] = l[1] /\ k[2] = l[2])
<1>1. /\ l[1] \in Nat /\ l[2] \in Nat /\ l[3] \in Nat /\ l[1] < Buses /\ l[2] < SlotsPerBus /\ l[3] < Funcs
      /\ Buses \in Nat /\ SlotsPerBus \in Nat \ {0} /\ Funcs \in Nat \ {0}
  BY LocationIs
<1>2. \A k \in Location : /\ k[1] \in Nat /\ k[2] \in Nat /\ k[3] \in Nat /\ k[2] < SlotsPerBus
  BY LocationIs
<1> DEFINE m == NextSlot(l)
<1>3. CASE l[2] + 1 < SlotsPerBus
  <2>1. m = <<l[1], l[2] + 1, 0>>
    BY <1>3 DEF NextSlot
  <2>2. m \in Location
    BY <1>1, <1>3, <2>1, LocationIs
  <2>3. m[1] = l[1] /\ m[2] = l[2] + 1 /\ m[3] = 0
    BY <2>1
  <2> HIDE DEF m
  <2>4. m \in Place /\ Before(l, m)
    BY <1>1, <2>2, <2>3 DEF Place, Before
  <2>5. ASSUME NEW k \in Location, k[1] < Buses - 1, Before(k, m)
        PROVE  Before(k, l) \/ (k[1] = l[1] /\ k[2] = l[2])
    BY <1>1, <1>2, <2>3, <2>5 DEF Before
  <2> QED
    BY <2>3, <2>4, <2>5 DEF m
<1>4. CASE ~(l[2] + 1 < SlotsPerBus) /\ l[1] + 1 < Buses - 1
  <2>1. m = <<l[1] + 1, 0, 0>>
    BY <1>4 DEF NextSlot
  <2>2. m \in Location
    BY <1>1, <1>4, <2>1, LocationIs
  <2>3. m[1] = l[1] + 1 /\ m[2] = 0 /\ m[3] = 0
    BY <2>1
  <2> HIDE DEF m
  <2>4. m \in Place /\ Before(l, m)
    BY <1>1, <1>4, <2>2, <2>3 DEF Place, Before
  <2>5. ASSUME NEW k \in Location, k[1] < Buses - 1, Before(k, m)
        PROVE  Before(k, l) \/ (k[1] = l[1] /\ k[2] = l[2])
    BY <1>1, <1>2, <1>4, <2>3, <2>5 DEF Before
  <2> QED
    BY <2>3, <2>4, <2>5 DEF m
<1>5. CASE ~(l[2] + 1 < SlotsPerBus) /\ ~(l[1] + 1 < Buses - 1)
  <2>1. m = Scanned
    BY <1>5 DEF NextSlot
  <2>3. m[1] = Buses /\ m[2] = 0 /\ m[3] = 0
    BY <2>1, LocationIs
  <2> HIDE DEF m
  <2>4. m \in Place /\ Before(l, m)
    BY <1>1, <2>1, <2>3 DEF Place, Before
  <2>5. ASSUME NEW k \in Location, k[1] < Buses - 1, Before(k, m)
        PROVE  Before(k, l) \/ (k[1] = l[1] /\ k[2] = l[2])
    BY <1>1, <1>2, <1>5, <2>5 DEF Before
  <2> QED
    BY <2>3, <2>4, <2>5 DEF m
<1> QED
  BY <1>3, <1>4, <1>5

\* The loop over functions passes over nothing.
LEMMA NextFuncIs ==
  ASSUME NEW l \in Location, l[1] < Buses - 1
  PROVE  LET m == NextFunc(l)
         IN  /\ m \in Place /\ Before(l, m)
             /\ m[3] = 0 \/ (m[1] = l[1] /\ m[2] = l[2])
             /\ \A k \in Location : k[1] < Buses - 1 /\ Before(k, m) => Before(k, l) \/ k = l
<1>1. /\ l[1] \in Nat /\ l[2] \in Nat /\ l[3] \in Nat /\ l[1] < Buses /\ l[2] < SlotsPerBus /\ l[3] < Funcs
      /\ Buses \in Nat /\ SlotsPerBus \in Nat \ {0} /\ Funcs \in Nat \ {0}
  BY LocationIs
<1>2. \A k \in Location : k[1] \in Nat /\ k[2] \in Nat /\ k[3] \in Nat /\ k[3] < Funcs
  BY LocationIs
<1>a. \A k \in Location : Before(k, l) \/ Before(l, k) \/ k = l
  BY BeforeOrder
<1> DEFINE m == NextFunc(l)
<1>3. CASE l[3] + 1 < Funcs
  <2>1. m = <<l[1], l[2], l[3] + 1>>
    BY <1>3 DEF NextFunc
  <2>2. m \in Location
    BY <1>1, <1>3, <2>1, LocationIs
  <2>3. m[1] = l[1] /\ m[2] = l[2] /\ m[3] = l[3] + 1
    BY <2>1
  <2> HIDE DEF m
  <2>4. m \in Place /\ Before(l, m)
    BY <1>1, <2>2, <2>3 DEF Place, Before
  <2>5. ASSUME NEW k \in Location, k[1] < Buses - 1, Before(k, m) PROVE Before(k, l) \/ k = l
    <3>1. ~Before(l, k)
      BY <1>1, <1>2, <2>3, <2>5 DEF Before
    <3> QED
      BY <1>a, <3>1
  <2> QED
    BY <2>3, <2>4, <2>5 DEF m
<1>4. CASE ~(l[3] + 1 < Funcs)
  <2>1. m = NextSlot(l)
    BY <1>4 DEF NextFunc
  <2>2. /\ m \in Place /\ m[3] = 0 /\ Before(l, m)
        /\ \A k \in Location : k[1] < Buses - 1 /\ Before(k, m) =>
               Before(k, l) \/ (k[1] = l[1] /\ k[2] = l[2])
    BY <2>1, NextSlotIs
  <2> HIDE DEF m
  <2>3. ASSUME NEW k \in Location, k[1] < Buses - 1, Before(k, m) PROVE Before(k, l) \/ k = l
    <3>1. CASE k[1] = l[1] /\ k[2] = l[2]
      <4>1. ~Before(l, k)
        BY <1>1, <1>2, <1>4, <3>1 DEF Before
      <4> QED
        BY <1>a, <4>1
    <3> QED
      BY <2>2, <2>3, <3>1
  <2> QED
    BY <2>2, <2>3 DEF m
<1> QED
  BY <1>3, <1>4

\* A table in the order of the scan that is complete up to place s, or full of
\* functions that come before what it lacks.
InOrder(d, s) ==
    /\ \A i, j \in 1 .. Len(d) : i < j => Before(d[i], d[j])
    /\ \A i \in 1 .. Len(d) : Before(d[i], s)
UpTo(d, s) ==
    \A l \in Reachable : Before(l, s) => \/ \E i \in 1 .. Len(d) : d[i] = l
                                         \/ Len(d) = MaxDevices /\ Before(d[MaxDevices], l)

\* Where a slot is entered beyond function 0, function 0 says so.
MultiAt(l) == l[3] # 0 => <<l[1], l[2], 0>> \in DOMAIN machine /\ machine[<<l[1], l[2], 0>>].multi

ScanInv ==
    /\ DOMAIN machine \subseteq Location
    /\ scan \in Place /\ MultiAt(scan)
    /\ pci_devices \in Seq(Reachable) /\ Len(pci_devices) <= MaxDevices
    /\ InOrder(pci_devices, scan) /\ UpTo(pci_devices, scan)

\* A step of the scan passes over what is not there, and over nothing else.
LEMMA StepPasses ==
  ASSUME ScanInv, pci_enumerate_step
  PROVE  /\ scan \in Location /\ scan[1] < Buses - 1
         /\ scan' \in Place /\ MultiAt(scan') /\ Before(scan, scan')
         /\ scan \in DOMAIN machine => scan \in Reachable
         /\ \A l \in Reachable : Before(l, scan') => Before(l, scan) \/ l = scan
<1>1. /\ scan \in Location /\ scan[1] < Buses - 1 /\ DOMAIN machine \subseteq Location /\ MultiAt(scan)
      /\ scan' = IF Skips(scan) THEN NextSlot(scan) ELSE NextFunc(scan)
  BY DEF ScanInv, Place, pci_enumerate_step
<1>2. scan = <<scan[1], scan[2], scan[3]>> /\ \A l \in Reachable : l = <<l[1], l[2], l[3]>>
  BY <1>1, LocationIs DEF Reachable
<1>3. \A l \in Reachable : l \in Location /\ l[1] < Buses - 1 /\ MultiAt(l)
  BY <1>1 DEF Reachable, MultiAt
<1>4. scan \in DOMAIN machine => scan \in Reachable
  BY <1>1 DEF Reachable, MultiAt
<1>5. CASE Skips(scan)
  <2>1. scan' = NextSlot(scan)
    BY <1>1, <1>5
  <2>2. /\ scan' \in Place /\ scan'[3] = 0 /\ Before(scan, scan')
        /\ \A k \in Location : k[1] < Buses - 1 /\ Before(k, scan') =>
               Before(k, scan) \/ (k[1] = scan[1] /\ k[2] = scan[2])
    BY <1>1, <2>1, NextSlotIs
  <2>3. scan[3] = 0 /\ (scan \notin DOMAIN machine \/ ~machine[scan].multi)
    BY <1>5 DEF Skips
  <2>4. scan = <<scan[1], scan[2], 0>>
    BY <1>2, <2>3
  <2>5. ASSUME NEW l \in Reachable, Before(l, scan') PROVE Before(l, scan) \/ l = scan
    <3>1. CASE l[1] = scan[1] /\ l[2] = scan[2]
      <4>1. l[3] = 0
        <5> SUFFICES ASSUME l[3] # 0 PROVE FALSE
          OBVIOUS
        <5>1. <<l[1], l[2], 0>> \in DOMAIN machine /\ machine[<<l[1], l[2], 0>>].multi
          BY <1>3 DEF MultiAt
        <5>2. <<l[1], l[2], 0>> = scan
          BY <2>4, <3>1
        <5> QED
          BY <2>3, <5>1, <5>2
      <4>2. l = scan
        BY <1>2, <2>4, <3>1, <4>1
      <4> QED
        BY <4>2
    <3> QED
      BY <1>3, <2>2, <2>5, <3>1
  <2>6. MultiAt(scan')
    BY <2>2 DEF MultiAt
  <2> QED
    BY <1>1, <1>4, <2>2, <2>5, <2>6
<1>6. CASE ~Skips(scan)
  <2>1. scan' = NextFunc(scan)
    BY <1>1, <1>6
  <2>2. /\ scan' \in Place /\ Before(scan, scan')
        /\ scan'[3] = 0 \/ (scan'[1] = scan[1] /\ scan'[2] = scan[2])
        /\ \A k \in Location : k[1] < Buses - 1 /\ Before(k, scan') => Before(k, scan) \/ k = scan
    BY <1>1, <2>1, NextFuncIs
  <2>3. <<scan[1], scan[2], 0>> \in DOMAIN machine /\ machine[<<scan[1], scan[2], 0>>].multi
    <3>1. CASE scan[3] = 0
      <4>1. scan \in DOMAIN machine /\ machine[scan].multi
        BY <1>6, <3>1 DEF Skips
      <4>2. scan = <<scan[1], scan[2], 0>>
        BY <1>2, <3>1
      <4> QED
        BY <4>1, <4>2
    <3>2. CASE scan[3] # 0
      BY <1>1, <3>2 DEF MultiAt
    <3> QED
      BY <3>1, <3>2
  <2>4. MultiAt(scan')
    BY <2>2, <2>3 DEF MultiAt
  <2> QED
    BY <1>1, <1>3, <1>4, <2>2, <2>4
<1> QED
  BY <1>5, <1>6

\* The table stays in order and complete, and never outgrows its array.
LEMMA ScanStep ==
  ASSUME ScanInv, pci_enumerate_step
  PROVE  ScanInv'
<1> DEFINE d == pci_devices
           e == pci_devices'
<1>1. /\ scan \in Location /\ scan[1] < Buses - 1
      /\ scan' \in Place /\ MultiAt(scan') /\ Before(scan, scan')
      /\ scan \in DOMAIN machine => scan \in Reachable
      /\ \A l \in Reachable : Before(l, scan') => Before(l, scan) \/ l = scan
  BY StepPasses
<1>2. /\ machine' = machine /\ d \in Seq(Reachable) /\ Len(d) <= MaxDevices /\ InOrder(d, scan) /\ UpTo(d, scan)
      /\ e = IF scan \in DOMAIN machine /\ Len(d) < MaxDevices THEN Append(d, scan) ELSE d
      /\ DOMAIN machine \subseteq Location /\ scan \in Place
  BY DEF ScanInv, pci_enumerate_step
<1>3. Reachable' = Reachable
  BY <1>2 DEF Reachable
<1>4. Len(d) \in Nat /\ MaxDevices \in Nat \ {0} /\ \A i \in 1 .. Len(d) : d[i] \in Reachable /\ d[i] \in Location
  BY <1>2, LocationIs DEF Reachable
<1>5. \A i \in 1 .. Len(d) : Before(d[i], scan) /\ Before(d[i], scan')
  BY <1>1, <1>2, <1>4, BeforeOrder DEF InOrder
<1>6. MultiAt(scan)'
  BY <1>1, <1>2 DEF MultiAt
<1>7. e \in Seq(Reachable) /\ Len(e) <= MaxDevices /\ InOrder(e, scan') /\ UpTo(e, scan')
  <2>1. CASE scan \in DOMAIN machine /\ Len(d) < MaxDevices
    <3>1. e = Append(d, scan) /\ scan \in Reachable
      BY <1>1, <1>2, <2>1
    <3>2. /\ e \in Seq(Reachable) /\ Len(e) = Len(d) + 1 /\ e[Len(d) + 1] = scan
          /\ \A i \in 1 .. Len(d) : e[i] = d[i]
      BY <1>2, <1>4, <3>1
    <3> HIDE DEF e, d
    <3>3. InOrder(e, scan')
      <4>1. ASSUME NEW i \in 1 .. Len(e), NEW j \in 1 .. Len(e), i < j PROVE Before(e[i], e[j])
        <5>1. i \in 1 .. Len(d)
          BY <1>4, <3>2, <4>1
        <5>2. CASE j \in 1 .. Len(d)
          BY <1>2, <3>2, <4>1, <5>1, <5>2 DEF InOrder
        <5>3. CASE j = Len(d) + 1
          BY <1>5, <3>2, <5>1, <5>3
        <5> QED
          BY <1>4, <3>2, <5>2, <5>3
      <4>2. ASSUME NEW i \in 1 .. Len(e) PROVE Before(e[i], scan')
        <5>1. CASE i \in 1 .. Len(d)
          BY <1>5, <3>2, <5>1
        <5>2. CASE i = Len(d) + 1
          BY <1>1, <3>2, <5>2
        <5> QED
          BY <1>4, <3>2, <5>1, <5>2
      <4> QED
        BY <4>1, <4>2 DEF InOrder
    <3>4. UpTo(e, scan')
      <4> SUFFICES ASSUME NEW l \in Reachable, Before(l, scan') PROVE \E i \in 1 .. Len(e) : e[i] = l
        BY DEF UpTo
      <4>1. CASE l = scan
        BY <1>4, <3>2, <4>1
      <4>2. CASE Before(l, scan)
        <5>1. PICK i \in 1 .. Len(d) : d[i] = l
          BY <1>2, <1>4, <2>1, <4>2 DEF UpTo
        <5> QED
          BY <1>4, <3>2, <5>1
      <4> QED
        BY <1>1, <4>1, <4>2
    <3> QED
      BY <1>4, <2>1, <3>2, <3>3, <3>4
  <2>2. CASE ~(scan \in DOMAIN machine /\ Len(d) < MaxDevices)
    <3>1. e = d
      BY <1>2, <2>2
    <3>2. InOrder(d, scan')
      BY <1>2, <1>5 DEF InOrder
    <3>3. UpTo(d, scan')
      <4> SUFFICES ASSUME NEW l \in Reachable, Before(l, scan')
                   PROVE  \/ \E i \in 1 .. Len(d) : d[i] = l
                          \/ Len(d) = MaxDevices /\ Before(d[MaxDevices], l)
        BY DEF UpTo
      <4>1. CASE Before(l, scan)
        BY <1>2, <4>1 DEF UpTo
      <4>2. CASE l = scan
        <5>1. scan \in DOMAIN machine
          BY <4>2 DEF Reachable
        <5>2. Len(d) = MaxDevices
          BY <1>2, <1>4, <2>2, <5>1
        <5> QED
          BY <1>4, <1>5, <4>2, <5>2
      <4> QED
        BY <1>1, <4>1, <4>2
    <3> QED
      BY <1>2, <3>1, <3>2, <3>3
  <2> QED
    BY <2>1, <2>2
<1>8. InOrder(pci_devices, scan)' /\ UpTo(pci_devices, scan)'
  BY <1>3, <1>7 DEF InOrder, UpTo
<1> QED
  BY <1>1, <1>2, <1>3, <1>6, <1>7, <1>8 DEF ScanInv

\* The scan over the life of the kernel: only the start-up scans, and the card
\* is looked for in a complete table.
NetInv ==
    /\ ScanInv
    /\ boot.phase # "scan" => scan = Scanned
    /\ boot.phase \notin {"scan", "halt", "loop"} => boot.net = CardFound

\* A step that leaves the scan alone and does not return to it.
LEMMA ScanRests ==
  ASSUME NetInv, UNCHANGED pcivars,
         boot'.phase # "scan" => scan = Scanned,
         boot'.phase \notin {"scan", "halt", "loop"} => boot'.net = CardFound
  PROVE  NetInv'
<1>1. machine' = machine /\ scan' = scan /\ pci_devices' = pci_devices
  BY DEF pcivars
<1>2. ScanInv' /\ CardFound' = CardFound
  BY <1>1 DEF NetInv, ScanInv, MultiAt, InOrder, UpTo, Reachable, CardFound, pci_find_device
<1> QED
  BY <1>1, <1>2 DEF NetInv

\* The self tests, which leave the network's verdict alone.
LEMMA TestsRest ==
  ASSUME boot \in Boot, PatternTest \/ HealthTest
  PROVE  /\ boot.phase \notin {"scan", "halt", "loop"} /\ UNCHANGED pcivars
         /\ boot'.net = boot.net /\ boot'.phase # "scan"
<1> DEFINE Tests == {"compare", "request", "response", "health", "served", "model"}
<1>1. ASSUME NEW n, NEW f \in {"request", "response"}, NEW next \in Tests, NEW without \in Tests,
             TestMalloc(n, f, next, without)
      PROVE  UNCHANGED pcivars /\ boot'.net = boot.net /\ boot'.phase # "scan"
  <2> DEFINE p == IF Result(n) = NULL THEN without ELSE next
             b == boot.failed \/ Result(n) = NULL
             r == Result(n)
  <2>1. UNCHANGED pcivars /\ boot' = [boot EXCEPT ![f] = r, !.phase = p, !.failed = b]
    BY <1>1 DEF TestMalloc
  <2>2. p # "scan"
    OBVIOUS
  <2> HIDE DEF p, b, r
  <2>3. CASE f = "request"
    BY <2>1, <2>2, <2>3 DEF Boot
  <2>4. CASE f = "response"
    BY <2>1, <2>2, <2>4 DEF Boot
  <2> QED
    BY <2>3, <2>4
<1>2. ASSUME NEW f \in {"request", "response"}, NEW next \in Tests, TestFree(f, next)
      PROVE  UNCHANGED pcivars /\ boot'.net = boot.net /\ boot'.phase # "scan"
  <2>1. UNCHANGED pcivars /\ boot' = [boot EXCEPT ![f] = NULL, !.phase = next]
    BY <1>2 DEF TestFree
  <2>2. CASE f = "request"
    BY <2>1, <2>2 DEF Boot
  <2>3. CASE f = "response"
    BY <2>1, <2>3 DEF Boot
  <2> QED
    BY <2>2, <2>3
<1>3. boot.phase \notin {"scan", "halt", "loop"}
  BY DEF PatternTest, HealthTest, Phase
<1>4. CASE PatternTest
  BY <1>1, <1>2, <1>3, <1>4 DEF PatternTest
<1>5. CASE HealthTest
  <2>1. (IF boot.request = NULL THEN "model" ELSE "health") \in Tests
    OBVIOUS
  <2> QED
    BY <1>1, <1>2, <1>3, <1>5, <2>1 DEF HealthTest
<1> QED
  BY <1>4, <1>5

\* The empty table of an empty machine, which the loop starts with, is exact.
LEMMA EmptyScan ==
  ASSUME machine' = [l \in {} |-> 0], pci_devices' = <<>>, scan' = Scanned, scan' \in Place
  PROVE  ScanInv'
<1>1. DOMAIN machine' = {} /\ Reachable' = {}
  BY DEF Reachable
<1>2. pci_devices' \in Seq(Reachable') /\ Len(pci_devices') = 0 /\ Len(pci_devices') <= MaxDevices
  BY LocationIs
<1>3. InOrder(pci_devices, scan)' /\ UpTo(pci_devices, scan)'
  BY <1>1, <1>2 DEF InOrder, UpTo
<1>4. MultiAt(scan)'
  BY LocationIs DEF MultiAt
<1> QED
  BY <1>1, <1>2, <1>3, <1>4 DEF ScanInv

\* Every step keeps the invariant of the scan.
LEMMA NetStep ==
  ASSUME KernelInv, NetInv, [KernelNext]_kvars
  PROVE  NetInv'
<1>1. boot \in Boot
  BY DEF KernelInv, BootInv
<1>2. CASE PciScan
  <2>1. boot.phase = "scan" /\ boot' = boot /\ pci_enumerate_step
    BY <1>2 DEF PciScan, Phase
  <2>2. ScanInv'
    BY <2>1, ScanStep DEF NetInv
  <2> QED
    BY <2>1, <2>2 DEF NetInv
<1>3. CASE NetworkInit
  <2>1. scan = Scanned /\ UNCHANGED pcivars /\ boot' = [boot EXCEPT !.phase = "pattern", !.net = CardFound]
    BY <1>3 DEF NetworkInit
  <2>2. boot'.net = CardFound
    BY <1>1, <2>1 DEF Boot
  <2> QED
    BY <2>1, <2>2, ScanRests
<1>4. CASE PatternTest \/ HealthTest
  <2>1. /\ boot.phase \notin {"scan", "halt", "loop"} /\ UNCHANGED pcivars
        /\ boot'.net = boot.net /\ boot'.phase # "scan"
    BY <1>1, <1>4, TestsRest
  <2> QED
    BY <2>1, ScanRests DEF NetInv
<1>5. CASE ModelTest
  <2>1. /\ boot.phase = "model" /\ machine' = [l \in {} |-> 0] /\ pci_devices' = <<>> /\ scan' = scan
        /\ boot' = [boot EXCEPT !.phase = IF boot.failed \/ ~c_load_embedded_model THEN "halt" ELSE "loop"]
    BY <1>5 DEF ModelTest, Phase
  <2>2. scan = Scanned /\ scan \in Place
    BY <2>1 DEF NetInv, ScanInv
  <2>3. boot'.phase \in {"halt", "loop"}
    BY <1>1, <2>1 DEF Boot
  <2>4. ScanInv'
    BY <2>1, <2>2, EmptyScan
  <2> QED
    BY <2>1, <2>2, <2>3, <2>4 DEF NetInv
<1>6. CASE Forever \/ Handle \/ UNCHANGED kvars
  <2>1. UNCHANGED pcivars /\ boot' = boot
    BY <1>6 DEF Forever, Handle, kvars
  <2> QED
    BY <2>1, ScanRests DEF NetInv
<1> QED
  BY <1>2, <1>3, <1>4, <1>5, <1>6 DEF KernelNext

\* The scan starts with an empty table and with nothing before it.
LEMMA NetInit == KernelInit => NetInv
<1> SUFFICES ASSUME KernelInit PROVE NetInv
  OBVIOUS
<1>1. /\ machine \in Machines /\ scan = <<0, 0, 0>> /\ pci_devices = <<>> /\ boot.phase = "scan"
  BY DEF KernelInit, PciInit, Start
<1>2. DOMAIN machine \subseteq Location /\ scan \in Location /\ scan[1] = 0 /\ scan[2] = 0 /\ scan[3] = 0
  BY <1>1, PciAssumption, LocationIs
<1>3. scan \in Place /\ MultiAt(scan)
  BY <1>2, LocationIs DEF Place, MultiAt
<1>4. \A l \in Reachable : ~Before(l, scan)
  BY <1>2, LocationIs DEF Before, Reachable
<1>5. pci_devices \in Seq(Reachable) /\ Len(pci_devices) = 0 /\ Len(pci_devices) <= MaxDevices
  BY <1>1, LocationIs
<1>6. InOrder(pci_devices, scan) /\ UpTo(pci_devices, scan)
  BY <1>4, <1>5 DEF InOrder, UpTo
<1>7. ScanInv
  BY <1>2, <1>3, <1>5, <1>6 DEF ScanInv
<1> QED
  BY <1>1, <1>7 DEF NetInv

\* The invariants of the scan hold of every behaviour.
THEOREM ScanInductive == KernelSpec => []NetInv
<1>1. KernelInit => KernelInv /\ NetInv
  BY InitInv, NetInit
<1>2. KernelInv /\ NetInv /\ [KernelNext]_kvars => KernelInv' /\ NetInv'
  BY KernelStep, NetStep
<1> QED
  BY <1>1, <1>2, PTL DEF KernelSpec

\* pci_enumerate_devices fills its table with the first MaxDevices functions it
\* can see, in order, on every machine.
THEOREM ScanIsExact == KernelSpec => []ScanExact
<1>1. NetInv => ScanExact
  <2> SUFFICES ASSUME NetInv, scan = Scanned
               PROVE  /\ \A i \in 1 .. Len(pci_devices) : pci_devices[i] \in Reachable
                      /\ InOrder(pci_devices, scan)
                      /\ \A l \in Reachable : Before(l, scan)
                      /\ UpTo(pci_devices, scan)
    BY DEF ScanExact, InOrder, UpTo
  <2>1. \A l \in Reachable : Before(l, scan)
    BY LocationIs DEF NetInv, ScanInv, Reachable, Before
  <2> QED
    BY <2>1 DEF NetInv, ScanInv
<1> QED
  BY <1>1, ScanInductive, PTL

----
(* The network card. *)

\* There are finitely many locations on the buses.
LEMMA FiniteLocation == IsFiniteSet(Location)
<1> DEFINE A == 0 .. Buses - 1
           B == 0 .. SlotsPerBus - 1
           C == 0 .. Funcs - 1
           S == (A \X B) \X C
           f == [p \in S |-> <<p[1][1], p[1][2], p[2]>>]
<1>1. IsFiniteSet(A) /\ IsFiniteSet(B) /\ IsFiniteSet(C)
  <2>1. 0 \in Int /\ Buses - 1 \in Int /\ SlotsPerBus - 1 \in Int /\ Funcs - 1 \in Int
    BY LocationIs
  <2>2. \A b \in Int : IsFiniteSet(0 .. b)
    BY <2>1, FS_Interval
  <2> QED
    BY <2>1, <2>2, Zenon
<1>2. Location = A \X B \X C
  BY DEF Location
<1> HIDE DEF A, B, C
<1>3. IsFiniteSet(A \X B)
  BY <1>1, FS_Product
<1>4. IsFiniteSet(S)
  BY <1>1, <1>3, FS_Product
<1>5. f \in Surjection(S, Location)
  <2>1. f \in [S -> Location]
    BY <1>2
  <2>2. ASSUME NEW l \in Location PROVE \E p \in S : f[p] = l
    <3>1. PICK a \in A, b \in B, c \in C : l = <<a, b, c>>
      BY <1>2
    <3>2. <<<<a, b>>, c>> \in S
      OBVIOUS
    <3>3. f[<<<<a, b>>, c>>] = <<a, b, c>>
      BY <3>2
    <3> QED
      BY <3>1, <3>2, <3>3
  <2> QED
    BY <2>1, <2>2 DEF Surjection
<1> HIDE DEF f, S
<1> QED
  BY <1>4, <1>5, FS_Surjection

\* The functions that the scan sees before l.
Ahead(l) == {k \in Reachable : Before(k, l)}

\* They are finitely many.
LEMMA FiniteAhead ==
  ASSUME ScanInv, NEW l
  PROVE  IsFiniteSet(Ahead(l)) /\ Cardinality(Ahead(l)) \in Nat
<1>1. Ahead(l) \in SUBSET Location
  BY DEF Ahead, Reachable, ScanInv
<1>2. IsFiniteSet(Ahead(l))
  BY <1>1, FiniteLocation, FS_Subset
<1> QED
  BY <1>2, FS_CardinalityType

\* What precedes a device in the finished table is all that precedes it in the
\* machine: fewer than MaxDevices functions.
LEMMA ListedAhead ==
  ASSUME ScanInv, scan = Scanned, NEW i \in 1 .. Len(pci_devices)
  PROVE  Cardinality(Ahead(pci_devices[i])) < MaxDevices
<1> DEFINE d == pci_devices
           f == [j \in 1 .. i - 1 |-> d[j]]
           l == d[i]
<1>1. /\ d \in Seq(Reachable) /\ Len(d) \in Nat /\ Len(d) <= MaxDevices /\ MaxDevices \in Nat \ {0}
      /\ InOrder(d, scan) /\ UpTo(d, scan)
  BY LocationIs DEF ScanInv
<1>2. /\ \A j \in 1 .. Len(d) : d[j] \in Reachable
      /\ \A j, k \in 1 .. Len(d) : j < k => Before(d[j], d[k])
  BY <1>1 DEF InOrder
<1>3. Reachable \subseteq Location /\ \A k \in Reachable : Before(k, scan)
  BY LocationIs DEF ScanInv, Reachable, Before
<1>4. i \in Nat /\ 1 <= i /\ i <= Len(d)
  BY <1>1
<1>5. ASSUME NEW k \in Ahead(l) PROVE \E j \in 1 .. i - 1 : d[j] = k
  <2>1. k \in Reachable /\ Before(k, l) /\ l \in Location /\ k \in Location
    BY <1>2, <1>3 DEF Ahead
  <2>2. CASE Len(d) = MaxDevices /\ Before(d[MaxDevices], k)
    <3>1. Before(d[MaxDevices], l) /\ d[MaxDevices] \in Location
      BY <1>1, <1>2, <1>3, <2>1, <2>2, BeforeOrder
    <3>2. CASE i = MaxDevices
      BY <2>1, <3>1, <3>2, BeforeOrder
    <3>3. CASE i < MaxDevices
      <4>1. Before(l, d[MaxDevices])
        BY <1>1, <1>2, <1>4, <2>2, <3>3
      <4> QED
        BY <2>1, <3>1, <4>1, BeforeOrder
    <3> QED
      BY <1>1, <1>4, <2>2, <3>2, <3>3
  <2>3. CASE \E j \in 1 .. Len(d) : d[j] = k
    <3>1. PICK j \in 1 .. Len(d) : d[j] = k
      BY <2>3
    <3>2. j # i
      BY <2>1, <3>1, BeforeOrder
    <3>3. ~(i < j)
      <4> SUFFICES ASSUME i < j PROVE FALSE
        OBVIOUS
      <4>1. Before(l, k)
        BY <1>2, <3>1
      <4> QED
        BY <2>1, <4>1, BeforeOrder
    <3>4. j \in 1 .. i - 1
      BY <1>4, <3>2, <3>3
    <3> QED
      BY <3>1, <3>4
  <2> QED
    BY <1>1, <1>3, <2>1, <2>2, <2>3 DEF UpTo
<1>6. f \in Surjection(1 .. i - 1, Ahead(l))
  <2>1. \A j \in 1 .. i - 1 : d[j] \in Ahead(l)
    BY <1>2, <1>4 DEF Ahead
  <2>2. f \in [1 .. i - 1 -> Ahead(l)]
    BY <2>1
  <2> QED
    BY <1>5, <2>2 DEF Surjection
<1>7. IsFiniteSet(1 .. i - 1) /\ Cardinality(1 .. i - 1) = i - 1
  <2>1. 1 \in Int /\ i - 1 \in Int /\ (1 > i - 1 => i - 1 = 0)
    BY <1>4
  <2> QED
    BY <1>4, <2>1, FS_Interval
<1> HIDE DEF f, d, l
<1>8. Cardinality(Ahead(l)) <= Cardinality(1 .. i - 1)
  BY <1>6, <1>7, FS_Surjection
<1>9. Cardinality(Ahead(l)) \in Nat
  BY FiniteAhead
<1> QED
  BY <1>1, <1>4, <1>7, <1>8, <1>9 DEF d, l

\* What the finished table lacks has MaxDevices functions before it.
LEMMA UnlistedAhead ==
  ASSUME ScanInv, scan = Scanned, NEW l \in Reachable, \A i \in 1 .. Len(pci_devices) : pci_devices[i] # l
  PROVE  Cardinality(Ahead(l)) >= MaxDevices
<1> DEFINE d == pci_devices
           f == [j \in 1 .. MaxDevices |-> d[j]]
<1>1. /\ d \in Seq(Reachable) /\ Len(d) \in Nat /\ MaxDevices \in Nat \ {0}
      /\ InOrder(d, scan) /\ UpTo(d, scan)
  BY LocationIs DEF ScanInv
<1>2. Reachable \subseteq Location /\ Before(l, scan)
  BY LocationIs DEF ScanInv, Reachable, Before
<1>3. Len(d) = MaxDevices /\ Before(d[MaxDevices], l)
  BY <1>1, <1>2 DEF UpTo
<1>4. /\ \A j \in 1 .. MaxDevices : d[j] \in Reachable /\ d[j] \in Location
      /\ \A j, k \in 1 .. MaxDevices : j < k => Before(d[j], d[k])
  BY <1>1, <1>2, <1>3 DEF InOrder
<1>5. ASSUME NEW j \in 1 .. MaxDevices PROVE d[j] \in Ahead(l)
  <2>1. CASE j = MaxDevices
    BY <1>3, <1>4, <2>1 DEF Ahead
  <2>2. CASE j < MaxDevices
    <3>1. Before(d[j], d[MaxDevices]) /\ d[MaxDevices] \in Location
      BY <1>1, <1>4, <2>2
    <3> QED
      BY <1>2, <1>3, <1>4, <3>1, BeforeOrder DEF Ahead
  <2> QED
    BY <1>1, <2>1, <2>2
<1>6. ASSUME NEW j \in 1 .. MaxDevices, NEW k \in 1 .. MaxDevices, d[j] = d[k] PROVE j = k
  <2>1. ~(j < k) /\ ~(k < j)
    BY <1>4, <1>6, BeforeOrder
  <2> QED
    BY <1>1, <2>1
<1>7. f \in Injection(1 .. MaxDevices, Ahead(l))
  BY <1>5, <1>6 DEF Injection, IsInjective
<1>8. Cardinality(1 .. MaxDevices) = MaxDevices
  BY <1>1, FS_Interval
<1> HIDE DEF f, d
<1>9. Cardinality(1 .. MaxDevices) <= Cardinality(Ahead(l))
  BY <1>7, FiniteAhead, FS_Injection
<1> QED
  BY <1>1, <1>8, <1>9, FiniteAhead

\* e1000_init finds its device exactly when the bounded table could hold it.
THEOREM CardUsed == KernelSpec => []CardIsUsed
<1>1. NetInv => CardIsUsed
  <2> SUFFICES ASSUME NetInv, boot.phase \notin {"scan", "halt", "loop"}
               PROVE  boot.net = \E l \in Reachable : /\ machine[l].kind = "e1000"
                                                     /\ Cardinality(Ahead(l)) < MaxDevices
    BY DEF CardIsUsed, Ahead
  <2>1. ScanInv /\ scan = Scanned /\ boot.net = CardFound
    BY DEF NetInv
  <2>2. ASSUME CardFound
        PROVE  \E l \in Reachable : machine[l].kind = "e1000" /\ Cardinality(Ahead(l)) < MaxDevices
    <3>1. PICK i \in 1 .. Len(pci_devices) : machine[pci_devices[i]].kind = "e1000"
      BY <2>2 DEF CardFound, pci_find_device
    <3>2. pci_devices[i] \in Reachable
      BY <2>1 DEF ScanInv
    <3>3. Cardinality(Ahead(pci_devices[i])) < MaxDevices
      BY <2>1, ListedAhead
    <3> QED
      BY <3>1, <3>2, <3>3
  <2>3. ASSUME NEW l \in Reachable, machine[l].kind = "e1000", Cardinality(Ahead(l)) < MaxDevices
        PROVE  CardFound
    <3>1. Cardinality(Ahead(l)) \in Nat /\ MaxDevices \in Nat
      BY <2>1, FiniteAhead, LocationIs
    <3>2. PICK i \in 1 .. Len(pci_devices) : pci_devices[i] = l
      BY <2>1, <2>3, <3>1, UnlistedAhead
    <3> QED
      BY <2>3, <3>2 DEF CardFound, pci_find_device
  <2> QED
    BY <2>1, <2>2, <2>3 DEF CardFound
<1> QED
  BY <1>1, ScanInductive, PTL
====
