---- MODULE Kernel ----
(***************************************************************************)
(* kernel_main (src/kernel.c): memory_init, network_init (network.c) with  *)
(* the PCI scan and the search for the network card, the self tests on the *)
(* heap, and then the network loop, below which the heap and the LLM       *)
(* context are used.  Without a card the loop runs idle.                   *)
(***************************************************************************)
EXTENDS Llm, Pci

CONSTANTS
    TestSize,       \* 64, the block of the first self test
    RequestSize,    \* sizeof(http_request_t)
    ResponseSize,   \* sizeof(http_response_t)
    EmbeddedModel   \* the first bytes of embedded_model_bytes

ASSUME KernelAssumption == {TestSize, RequestSize, ResponseSize} \subseteq 1 .. SizeMod - 1

VARIABLE boot   \* the phase, whether the network is up, and the self test's blocks

kvars == <<vars, llmvars, pcivars, boot>>

Start == [phase |-> "scan", net |-> FALSE, failed |-> FALSE, request |-> NULL, response |-> NULL]
Phase(p) == boot.phase = p

\* memory_init
KernelInit == Init /\ LlmInit /\ PciInit /\ boot = Start

PciScan ==
    /\ Phase("scan")
    /\ pci_enumerate_step
    /\ UNCHANGED <<vars, llmvars, boot>>

\* Mutant: the first device is taken for the card.
AnyDevice == pci_devices # <<>>
\* e1000_init finds its device.
CardFound == pci_find_device("e1000") # {}

\* e1000_init: without its device network_init fails before arp_init and
\* tcp_init, and the kernel goes on.
NetworkInit ==
    /\ Phase("scan") /\ scan = Scanned
    /\ boot' = [boot EXCEPT !.phase = "pattern", !.net = CardFound]
    /\ UNCHANGED <<vars, llmvars, pcivars>>

----
(* run_self_tests.  A test that fails is counted and the next one runs. *)

\* A block of the tests is allocated and remembered in boot's field f.
TestMalloc(n, f, next, without) ==
    /\ Malloc(n)
    /\ boot' = [boot EXCEPT ![f] = Result(n),
                            !.phase = IF Result(n) = NULL THEN without ELSE next,
                            !.failed = @ \/ Result(n) = NULL]
    /\ others' = others \cup ({Result(n)} \ {NULL})
    /\ UNCHANGED <<ctx, gen, pcivars>>

TestFree(f, next) ==
    /\ OthersFree(boot[f])
    /\ boot' = [boot EXCEPT ![f] = NULL, !.phase = next]
    /\ UNCHANGED <<ctx, gen, pcivars>>

\* A pattern is written, compared and the block freed.
PatternTest ==
    \/ Phase("pattern") /\ TestMalloc(TestSize, "request", "compare", "request")
    \/ Phase("compare") /\ TestFree("request", "request")

\* GET /health is routed, which answers 200.  When one of the two allocations
\* fails the other block is not freed.
HealthTest ==
    \/ Phase("request") /\ TestMalloc(RequestSize, "request", "response", "response")
    \/ /\ Phase("response")
       /\ TestMalloc(ResponseSize, "response", IF boot.request = NULL THEN "model" ELSE "health", "model")
    \/ Phase("health") /\ TestFree("request", "served")
    \/ Phase("served") /\ TestFree("response", "model")

\* info.is_valid of the model that is linked into the kernel.
c_load_embedded_model == c_validate_gguf_format(EmbeddedModel)

\* The verdict.  After start-up nothing reads the
\* device table any more.
ModelTest ==
    /\ Phase("model")
    /\ boot' = [boot EXCEPT !.phase = IF boot.failed \/ ~c_load_embedded_model
                                      THEN "halt" ELSE "loop"]
    /\ machine' = [l \in {} |-> 0] /\ pci_devices' = <<>>
    /\ UNCHANGED <<vars, llmvars, scan>>

\* Halted, or polling without a card, which finds no packet.
Forever ==
    /\ Phase("halt") \/ (Phase("loop") /\ ~boot.net)
    /\ UNCHANGED kvars

\* network_loop: the handlers below it, and any code built on these libraries,
\* use the heap and the LLM context in any order.  (Today's handlers reach
\* llm_generate only when api_v1_init was given a context.)
Handle ==
    /\ Phase("loop") /\ boot.net
    /\ OthersStep \/ LlmStep
    /\ UNCHANGED <<pcivars, boot>>

KernelNext == PciScan \/ NetworkInit \/ PatternTest \/ HealthTest \/ ModelTest \/ Forever \/ Handle

KernelSpec == KernelInit /\ [][KernelNext]_kvars

----
\* The network comes up exactly when there is a card that the scan can see and
\* that has a place in the table: fewer than MaxDevices functions come before it.
CardIsUsed ==
    boot.phase \notin {"scan", "halt", "loop"} =>
        boot.net = \E l \in Reachable : /\ machine[l].kind = "e1000"
                                        /\ Cardinality({k \in Reachable : Before(k, l)}) < MaxDevices
====
