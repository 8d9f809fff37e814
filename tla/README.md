# A TLA+ verification of the cllm unikernel

cllm is a bare-metal x86 kernel that serves a language model over HTTP. One
CPU runs one polling loop: it takes a frame from an e1000 network card, passes it
through a small IP/TCP stack, answers HTTP requests from inside the TCP handler,
and ticks a software timer. This directory models the parts of it that keep
state, checks them with TLC on small instances, and proves the main invariants
with TLAPS for every size of the tables and rings.

## 1. The system

| Part | Source | State | Operations |
|---|---|---|---|
| Network loop | `src/network.c` | loop counter | `network_init`, `network_loop` (poll, dispatch, every 100000th iteration `tcp_periodic`) |
| e1000 driver | `src/network/e1000.c` | two descriptor rings shared with the device, `rx_head`, `tx_tail` | `e1000_init`, `e1000_send_packet`, `e1000_receive_packet` |
| PCI | `src/network/pci.c` | table of 32 devices | `pci_enumerate_devices`, `pci_find_device` |
| ARP | `src/network/arp.c` | four-entry table | `arp_init`, `arp_receive`, `arp_resolve` |
| IP | `src/network/ip.c` | none (the sender's address of the current packet) | `ip_receive`, `net_send_ip`, `net_send_tcp`, ICMP echo |
| TCP server | `src/network/tcp.c` | four sockets, `tcp_now` | `tcp_init`, `tcp_receive`, `tcp_periodic` |
| HTTP | `src/http.c` | none | `http_parse_request`, `http_generate_response` |
| Router, API | `src/api.c`, `src/api_v1.c` | `g_api_ctx`: model loaded, request counter | `api_v1_init`, `route_request`, one handler per endpoint |
| JSON | `src/json.c` | parser position and current token; writer offset, depth and `needs_comma` | parser and writer calls |
| LLM context | `src/llm.c` | token buffer and count | `llm_init`, `llm_generate` (tokenize, evaluate, sample), `llm_free` |
| Heap | `src/allocator.c` | arena and free list | `malloc`, `free`, `realloc` |
| Spinlock | `src/spinlock.c`, `src/interrupts.c` | lock word, saved interrupt flag | `spinlock_lock`, `spinlock_trylock`, `spinlock_unlock` |
| Kernel | `src/kernel.c` | the serial lock | `kernel_main`, `run_self_tests`, `serial_write` |
| Rest | `memory.c`, `error.c`, `string.c`, `safestring.c`, `model_embedding.c`, `c_model_interface.c`, `cuda_interface.c`, `boot.S` | start-up data, counters | |

**How they interact.** Everything in the network stack is a direct call below
`network_loop`, so a TCP handler runs to completion before the next frame is
looked at: `e1000_receive_packet` → `ip_receive` → `tcp_receive` →
`http_parse_request` → `route_request` → `http_generate_response` →
`tcp_send_data` → `net_send_tcp` → `net_send_ip` → `e1000_send_packet`. Real
concurrency exists in three places: the network card works on the descriptor
rings while the driver does; the remote hosts and the network between them send,
lose, repeat and reorder segments; and interrupt handlers, once they are wired
up, may run between any two instructions of the code that logs. The heap and the
API layer are sequential; what is hard about them is long histories of calls.

**What is hard.** The list under `hazards` in `PROJECT.json` names each place.
In short: a lookup that treats a zero address as a wildcard; a listener that
lives in the same table as the connections; unsigned timer differences across
the wrap; a receive buffer whose bound is strict; a retransmitted SYN-ACK that
crosses the client's acknowledgement; a handshake that ends with whatever segment
acknowledges first, and data that is taken without a look at its number; FIN handling that has no timer; ring
indices read before the device moves them; a send that stops waiting while its
frame is still queued; a lock taken one instruction before interrupts are
disabled; free-list merging after splits, double frees and reallocs; nested
parser loops that share one current token; a writer whose callers ignore that a
piece did not fit; a send path that drops what it cannot resolve while its
callers count it as sent; a token buffer that is given back before its
replacement is known to exist.

## 2. The modules

| Module | Models | Kind |
|---|---|---|
| `Tcp` | `tcp.c`: the socket table, every branch of `tcp_receive`, `tcp_periodic` | component |
| `Connections` | what the table promises: one slot per connection, one answer each, and only a connection from 0.0.0.0 passes to another host | abstract |
| `Tcp_proofs` | the theorems about `Tcp` | proofs |
| `MCTcp` | two hosts that send every shape of segment in every order | TLC |
| `Http` | request bytes to status: `http_parse_request`, `route_request`, handler guards | pure operators |
| `Arp` | `arp.c`: the neighbour table | component |
| `Arp_proofs` | the theorems about it | proofs |
| `HttpExchange` | clients with conforming TCP stacks, the wires, the loop and the send path, around `Tcp` and `Arp` | composition |
| `HttpExchange_proofs` | the theorems about the exchange, on top of those about `Tcp` and `Arp` | proofs |
| `MCHttpExchange` | `HttpExchange` with `Http` as the HTTP layer | TLC |
| `E1000` | `e1000.c` under the loop, and the device | component |
| `NicQueues` | two bounded FIFO queues | abstract |
| `E1000_proofs`, `MCE1000` | | proofs, TLC |
| `Spinlock`, `Spinlock_proofs` | lock, interrupt flag and `serial_write`, with nested handlers | component, proofs |
| `Allocator` | `allocator.c` | component |
| `Allocator_proofs` | what `malloc`, `free` and `realloc` preserve in every arena | lemmas |
| `Llm` | `llm.c` on top of `Allocator` | composition |
| `Pci` | `pci.c` | component |
| `Kernel` | `kernel_main`: scan, self tests, then the loop, around `Pci` and `Llm` | composition |
| `Kernel_proofs` | the theorems about `Kernel`, and so about `Allocator`, `Llm` and `Pci` | proofs |
| `MCKernel` | `Kernel` on nine machines and a small heap | TLC |
| `JsonReader` | the parser of `json.c` and the five `parse_..._request` functions | component |
| `Api` | all handlers, the writer of `json.c`, `http_generate_response`, around `JsonReader` | composition |
| `Api_proofs` | the theorems about the parser below the endpoints | proofs |
| `MCApi` | `Api` with the code's sizes, and a grammar of documents as reference | TLC |

Some definitions carry the comment "Mutant:". They are altered forms of the
definition that follows them (a dropped guard, an off-by-one, a missing reset)
and are used by no specification. `PROJECT.json` pairs each property with the
mutant that breaks it, to show that the property depends on that piece of code.

### Tcp

`sockets` is `sockets[TCP_MAX_SOCKETS]`, with the fields of `tcp_socket_t`; `rx`
stands for `rx_buf` and `rx_len`. `tcp_now` is the tick counter. `out` is what
the last step handed to the IP layer, in order, so that properties can speak of
it. A segment carries the address that `ip_receive` leaves in
`tcp_current_remote_ip`, which may be 0.0.0.0 (`AnyIP`): nothing on the way
checks it. To `socket_lookup` a zero `remote_ip` is a wildcard, so the socket of
such a SYN matches every host on its port until the first of them gives it an
address (`Touch`). `ZeroPorts` are the ports from which such segments come.

`tcp_receive(m)` is a disjunction with one action per branch: `Reject` (no
socket), `Accept` (a SYN takes a closed slot and falls into the switch),
`SynReceived`, then the branches of `ESTABLISHED`/`CLOSE_WAIT` in the code's
order (`StraySyn`, `PeerFin`, `NoAck`, `Collect`, `Serve`), `FinWait1`,
`FinWait2` and `Ignored`. The guards are disjoint because each includes the
negation of the early returns before it. All of them start with the touch of the
socket (`remote_ip` when it was zero, `last_activity`), as the code does.

Payloads are sequences of tokens of which only CRLF is told apart, since the
code's only test on the bytes is the search for an empty line. The HTTP layer is
the pair of constants `Responses` and `Answers`: TLC and the proofs know of a
response only its length and its status, and a response of length 0 stands for
`http_generate_response` failing. Sequence numbers and ticks wrap at `SeqMod` and
`NowMod`. States the code declares and never leaves a socket in (`SYN_SENT`,
`CLOSING`, `LAST_ACK`) do not occur.

### HttpExchange and Http

`HttpExchange` adds, for each client, a state machine of an ordinary TCP stack
and a FIFO wire in each direction. `Poll` is one iteration of the loop that
receives a TCP segment, `Tick` one that reaches the timer. Both end in `Deliver`,
the send path: `net_send_ip` looks the client's address up in the table of
`Arp`, and on a miss asks for it and drops the segment, which its callers do
not notice. `asked` says that such an ARP request or its reply is under way;
`Answer`, `Announce` and `Ping` are the frames (replies, requests of neighbours,
ICMP echoes) that the loop receives besides. A client repeats its SYN and, when
no answer is to come any more, the data that was not acknowledged; it sends its
request in arbitrary pieces, acknowledges what it gets, and closes after the
server's FIN. With `AckData` its acknowledgement of the SYN-ACK may carry the
start of the request. The network may lose a SYN, a SYN-ACK or an ARP frame and,
as `LostAcks` says, the client's bare acknowledgements or the server's. `FromClient`
applies what `ip_receive` does with lengths: the payload length is the frame's,
so `Padding`, what the link appends to a short frame, arrives as payload.
Clients, wires and losses are marked external in the map; they are not in the
repository, and follow what `tests/integration/http_smoke.py` does through the
host's stack.

`Http` computes the status for a request: the request line must be the only
thing before the first CRLF, a C string ends at the first NUL, the body is what
follows the first empty line, and each handler has its guards in the code's
order.

### Arp

`arp_table` is the table, `arp_out` the frame the last step sent and
`announced` a history variable with the hardware address each neighbour sent
last. A frame is good when it passes the length and type tests; `arp_receive`
stores its sender whether it is a request or a reply. A new address takes
the first unused slot, or slot 0 when there is none.

### E1000

The ring slots, the four registers and the driver's indices are variables.
`pc` follows `network_loop` through `e1000_receive_packet` (`poll`, `clear`,
`handback`) and `e1000_send_packet` (`check`, `tail`, `wait`, `sent`); each label
is a point where the device can observe or change something. The device fills
from `RDH` to `RDT` and sends from `TDH` to `TDT`, concurrently. The bounded
wait for DD may give up at any moment. The mapping to `NicQueues` reads the
queues out of the rings, from `TDH` to `TDT` and from `rx_head` to `RDH`.

### Spinlock

The label of a context is the instruction it executes next. Interrupts push a
handler with interrupts off; handlers log too, and return when they have. Only
the topmost context runs. `interrupts_were_enabled` is the shared field of the
lock, `was` the local copies, `entry` a history variable with the flag at the
call.

### Allocator

A block is the offset of its header. `heap.size` is the size field of every
block, and `heap.free` the blocks on the free list; the list is sorted by address
after every insertion, so the set determines it. `need`, `freed` and `cut` are
history variables: what was asked for, which pointers were freed, which bytes a
shrinking realloc left out of every block. `DoubleFree` covers the guard
`is_free` where the old header is still readable, `Intact` says when.

### Llm, Pci and Kernel

`Llm` runs one call at a time (`gen.pc`), with a step for every `malloc` and
`free` it makes, and between calls lets other users of the heap do what they
like (`OthersStep`), so that an evaluation meets every fragmentation and
exhaustion of the arena. `ctx` is the context with the address of its token
buffer, which between `free` and `malloc` still holds the old one as in the
code; `ctx.data` is what is stored there. Tokens are small numbers and inference
is what the source has in its place: the last token plus one.

`Pci` visits one function of configuration space per step. A machine is the set
of functions that answer, each an e1000 or something else, with the
multi-function bit; a function without a function 0, and one that answers for a
device that claims to have only one, are machines too.

`Kernel` follows `kernel_main`: the scan, the outcome of `e1000_init`, the two
self tests that use the heap and the one that looks at the linked model, the
verdict, and the loop. `network_init` failing does not stop the kernel, which
then polls for ever without a card (`Forever`). In the loop it takes the steps of
`Llm`. The table of devices is forgotten there, since nothing reads it any more.
Today nothing in the kernel creates a context or calls `realloc`; these steps
are what the libraries offer to the code that will.

### JsonReader and Api

The five parse functions are the same loop with different fields, so they are
one machine and a table, `Schema`, of the fields each knows and what their
values must be. `stack` is the nesting of the loops, the recursion of
`json_skip_value` included, and `at` the place in the innermost loop. The
document is not fixed in advance: `json_next_token` may find any token, so that
every document of up to `MaxTokens` tokens is read, malformed ones too. A string
or a number is one token; how its characters are decoded is not modelled, and
neither is the truncation of long strings. A list longer than `MaxItems` is left
in its middle by a `break`, after which its remaining elements are read as
members of the request; `cut` records that, since the document's own structure
then says nothing about what was parsed.

`Api` follows one request from the router to TCP. A handler's response is a list
of writer calls, each of them a sequence of `write_raw` pieces with their
real lengths; the handlers of `api.c` copy a text instead. A call stops at its first piece that does not fit and the handler
goes on with the next call, as the code does, which ignores the results. Formats
are what the kernel's `vsnprintf` makes of them: `%lld` and `%016llx` are
emitted as they stand. In the metadata's format the four `%c` take no argument,
so that every later specifier gets the argument of another; `%s` gets a
character for a pointer and the text is whatever lies in memory there
(`MemoryTexts` gives its lengths, up to one that overflows the body). `Send` adds the header's length and drops what exceeds
one segment.

## 3. What TLC checks

| Run | Properties | Instance | Shows |
|---|---|---|---|
| `tcp_server` | `TypeOK`, `ListenerKept`, `OneSocketPerPeer`, `RetryNeverOverdue`, `NoPendingRequest`, `ImplementsConnections`, `AnswerThenFin` | 3 sockets, 2 hosts and the source 0.0.0.0, remote ports 0, 7 and 8, 2 local ports, buffer of 3, numbers mod 2, ticks mod 3 | the server is safe against any order of segments, conforming or not; on ports without segments from 0.0.0.0 a peer has one socket |
| `http_exchange` | `RequestIntact`, `OwnResponse`, `NumbersInStep`, `EveryoneServed`, `AnsweredSocketCloses` | 2 clients, 1 slot besides the listener, an empty ARP table of 1, a repeated SYN, a loss of a SYN, SYN-ACK or ARP frame | with conforming clients requests arrive intact, each gets its own response, everyone is answered or refused, slots come back |
| `smoke_get` | `SmokeTestPasses` (violated) | 1 client, a GET, padded frames, a loss, also of an acknowledgement, data on the acknowledgement of the SYN-ACK | findings 1 to 3 |
| `slot_leak` | `AnsweredSocketCloses` (violated) | 1 client that may acknowledge with its FIN | finding 5 |
| `arp` | `ArpTruthful`, `NoNeedlessEviction` | 3 slots, 4 neighbours, 2 hardware addresses | entries are unique and current, and lost only for want of room |
| `arp_drop` | `EveryoneServed` (violated) | 1 client, 1 slot, another neighbour, 2 repetitions | finding 6 |
| `e1000_rings` | `TypeOK`, `RxOwnership`, `TxOwnership`, `SuccessMeansSent`, `ImplementsQueues`, `RingsDrain` | rings of 3 | no race on the rings; they are FIFO queues and drain |
| `spinlock` | `MutualExclusion`, `CriticalUninterrupted`, `SpinsOnlyInWindow`, `RestoresInterrupts` | handlers 4 deep | one holder, an uninterrupted message, the flag restored; who has to wait interrupted the holder in one window |
| `spinlock_window` | `HandlersLog` (violated) | 1 handler | finding 7 |
| `kernel` | `NoOverlap`, `LargeEnough`, `Coalesced`, `Accounted`, `NothingLeaks`, `SampleInBounds`, `GeneratedText`, `ScanExact`, `CardIsUsed` | arena of 28 bytes, window of 3 tokens, 9 machines with 3 buses and a table of 3 | the scan finds what it should, blocks never overlap and nothing is lost except by shrinking, LLM calls neither leak nor use what they gave back |
| `api` | `ApiTypeOK`, `FieldsFromTopLevel`, `AcceptedNests`, `ValidIsAccepted`, `SentIsStructured`, `GenerationIsSent`, `HandlerReturns` | bodies of up to 7 to 10 tokens, lists of 1, the code's buffer and segment sizes | valid requests are accepted and read correctly, what is sent is complete, every request is answered |
| `created_number` | `SentIsJson` (violated) | the same | finding 8 |

**Bounds, and why they are enough.**

- `tcp_server`: two slots besides the listener are what it takes to have one peer
  in two slots or two peers in one. Remote port 0 is there because the listener's
  own `remote_port` is 0, so it is the port that finds the listener. Both hosts use
  ports 7 and 8; segments from 0.0.0.0 come from port 8 too, so that the wildcard
  meets both hosts' own sockets. A buffer of
  three tokens (two usable) fills with a request, overflows, and accepts
  nothing more. Three ticks let the timer wrap between a SYN and its
  retransmission. `MCView` leaves out `out` and the fields later steps cannot
  read (the old contents of a closed slot, which `memset` clears before reuse, and
  `last_activity` of sockets without a pending SYN-ACK); properties of `out` are
  action properties, evaluated on every step. The hosts are symmetric, since no
  definition names one.
- `http_exchange`: with two clients and one slot, one of them is refused or comes
  after the other. The loss and the repeated SYN make SYN-ACKs cross and repeat, and
  the first SYN-ACK always finds the ARP table empty. The table has room for the
  one host behind which both clients sit, so nothing is evicted.
  `MaxInFlight` lets the timer tick only while each connection has fewer than two
  segments under way, which bounds the retransmissions on the wire. Client 8
  sends a request without a request line (answered 400) so that a mixed-up
  response is visible. This run sends unpadded frames, clients acknowledge at once,
  no acknowledgement is lost or carries data, and no neighbour evicts a client; the
  violation runs show what happens otherwise. Two clients hold sockets at the same
  time only in the theorems of section 4, which have any number of slots.
- `smoke_get`: one client and one GET; at most one loss and one repetition, which
  are what it takes. TLC stops at the shortest counterexample; section 5 says which
  constants leave only one of its causes.
- `arp`: four neighbours do not fit three slots, and two hardware addresses let
  each of them change.
- `arp_drop`: a second neighbour and one slot stand for five neighbours and four
  slots. The client repeats its data twice and no frame is lost, so the only loss
  is that of the send path.
- `e1000_rings`: three slots are the smallest ring with an empty, a partly
  filled and a full state, and both indices wrap.
- `spinlock`: nesting four deep has every handler of the chain at a different
  instruction. `spinlock_window` needs one handler.
- `kernel`: 28 bytes with a header of 4 and alignment 2 hold up to four
  blocks, enough for a split, a merge on either side, a merge of three, and a
  double free of a pointer inside a merged block. Sizes stay below the wrap of
  `size_t`. A context, its tokens and one more block fill the arena, so an
  evaluation fails at its first token and at a later one. A window of three
  tokens moves within one call, a prompt of four is cut, and the output buffer
  ends before and after `max_tokens`. The machines are the ones that take different
  paths through the scan: none, a gap, a phantom function, a function without
  function 0, the last bus, which is not scanned, and a table that fills before
  and at the card. In TLC's states a `malloc` of the self tests does not fail, as
  it does not on a fresh heap.
- `api`: eight tokens hold two fields, or one field around a nested list and an
  object, ten hold a chat request with a message and a field; a list limit of 1 is
  passed within them. Each endpoint has its required key, another string, and
  tokens of every other kind its parser tells apart. Buffer, segment and
  generation limits are those of the code, so the lengths are exact; generated
  texts, token counts and the digits of numbers are taken at their extremes. One
  behaviour is one request and ends when the response is handed over, hence no
  deadlock check.

**Fairness.** `network_loop` has no exit and every handler it calls returns, so a
frame that has arrived is received and the timer keeps ticking (`WF` on taking
the head of the wire and on the tick; in `E1000`, `WF` on the driver). The device
sends what lies before its tail (`WF` on `DeviceTransmit`). Clients are ordinary
programs over an ordinary stack: it processes what it gets, repeats a SYN that
is not answered, gives up when it has none left, sends the rest of the request and closes after the server's FIN.
A host answers an ARP request that reached it (`WF` on `asked` being cleared, by the
reply or by a loss, of which there are finitely many); other neighbours need not
send anything. In `Spinlock`, the running context takes its next step; interrupts
may come or not. (The spinning handler of `spinlock_window` is running all the time,
so this fairness is all it could ask for.) In `Api`, a handler runs to its end (`WF` of `Step`): it is a call of the polling
loop, and nothing preempts it for good. No fairness is assumed of the network: losses are bounded by `Losses`, and a SYN
is only lost when a repetition is left, because a client whose last SYN is
lost gives up whatever the server does.

## 4. What is proved

All proofs hold for every value of the constants that satisfies the named
assumptions: tables, buffers, rings and arenas of any size, any set of hosts,
ports, tokens, segments and responses, any machine, request bodies of any length.
The assumptions are those of the declaring modules: sizes are positive,
`NowMod > 2` (with a smaller one a difference of two ticks could not be told from
none), the listener's port is one of the local ports, `AnyIP` is the name of the
zero address and `IPs` are the other ones (segments have either), `MAX_GENERATION_TOKENS` is at least the 64 of `DEFAULT_MAX_TOKENS`, and
the value field of a string token is unused. Of the 40 properties of the passing
runs 32 are stated by a theorem.

**`Tcp_proofs`.** `TypeCorrect` proves `TypeOK`, the strict bound of the buffer
included. The other invariants need each other, so `InvCorrect` proves `Inv(ZeroPorts)`,
the conjunction of `ListenerKept`, `OneSocketPerPeer`, `RetryNeverOverdue`,
`NoPendingRequest` and a strengthening, `AcceptedHavePeer`: a live slot other than
the listener has a non-zero address, unless its remote port is one of
`ZeroPorts`. Without it `OneSocketPerPeer` is not inductive: a second socket with
a zero address would match every host, and `Touch` could then give it the address
of a peer that has a slot already. That is what happens on the ports in
`ZeroPorts`, and why the property speaks of the others; it says of them that no
socket is a wildcard and no peer has two, whatever arrives elsewhere. One
lemma per action shows that it preserves `Inv`; a frame lemma handles all actions
that change a single slot without changing whose it is. `ListenerSafe`,
`LookupExact`, `RetryOnTime` and `RequestsAnswered` are its parts, and
`Refinement` shows `Spec => ImplementsConnections`: each action maps to one step
of `Connections` or to a stutter, also for segments from 0.0.0.0, whose connection
may pass to a host (`Heirs`, `Inherit`) and no other may. `AnswersOnce` proves the action property
`AnswerThenFin`: all actions but `Serve` send segments without a response, and
`Serve` is examined.

**`E1000_proofs`.** `RxSafe` proves `RxOwnership` from an invariant that fixes
`RDT` as the slot before `rx_head` and gives the DD bits as a function of the
distance between `rx_head` and `RDH`; `TxSafe` proves `TxOwnership` from one that
places the device's head between the head the driver has read and the
tail, which is why the stale value is safe to test against. `SuccessSafe` proves
`SuccessMeansSent` from both plus the fact that the slot waited for is the last
one before the tail. Slot arithmetic modulo the ring size is isolated in lemmas
about `After`, `Before` and `Between`. `Refinement` proves
`Spec => ImplementsQueues`. Its step lemmas say how the queue that is read out of
a ring changes when an index moves by one or a slot outside the queue is
written, and the ownership invariants say that only such slots are written;
`CopyInv` adds that the copy of a received frame is still the head of the
queue until its slot is handed back.

**`Spinlock_proofs`.** `LockExcludes` and `WriteUninterrupted` for any nesting
depth. The invariant adds that contexts above the running one are idle and that
the context that writes is the topmost one with interrupts off. `FlagRestored`
proves `RestoresInterrupts` from `SavedFlag`, which follows the flag from the call
through the local copy and the shared field of the lock and back. The waiting
loop of `spinlock_lock` turns interrupts on and off and would spoil it; what saves
the property is `SpinsOnlyInWindow`: only a context that interrupted the holder
between `xchg` and `cli` ever waits, and such a context never gets the lock.
`WaitsOnlyInWindow` proves it for any nesting depth: the window of finding 7 is
the only way into the deadlock.

**`Arp_proofs`.** `TableTruthful` proves `ArpTruthful` for tables of every size.
With the type of the table it is inductive as it stands: a store goes to the slot
that holds the address, if there is one, so the other slots hold other
addresses. That a slot is found at all rests on the least element of a nonempty
set of slots, taken from the well-foundedness of the naturals.

`NeighboursKept` proves `NoNeedlessEviction` from `Remembered`: all that have
announced themselves can be resolved, or there are more of them than slots, and a
used slot holds the address of one of them. A full table whose addresses are
distinct and announced, and one neighbour more that takes a slot of it, are more
than the slots. The set of neighbours may be infinite.

**`Allocator_proofs` and `Kernel_proofs`.** `HeapInv` says that the blocks lie in
the arena, are aligned, pairwise disjoint, merged where two free
ones meet, and cover the arena together with `cut`; one lemma per operation shows
that it is preserved (`MallocKeeps`, `FreeKeeps`, `DoubleFreeKeeps`, `ShrinkKeeps`,
`GrowKeeps`). `KernelInv` joins `HeapInv` with
the ownership of every block through the LLM calls (`CallInv`, `NothingLeaks`) and
the self tests (`BootInv`); `Inductive` proves it, and `HeapSound`,
`HeapCoalesced`, `HeapAccounted` and `NoLeak` are its parts. `HeapLargeEnough` and
`SampleReads` have one hypothesis more, `RequestsFit`: no size that is asked for
is so close to the modulus of `size_t` that its rounding wraps around. It is needed: `malloc` of
such a size rounds it to a small one and returns a block that is too short. The
sizes the kernel asks for satisfy it. `TextGenerated` needs `TextInv`: the
last token of the window follows the last kept one of the prompt by as many as
were generated, however often the window has moved. `ScanIsExact` and `CardUsed` need `ScanInv`: the
table is always the ordered list of the reachable functions before the scan's
place, or of the first `MaxDevices` of them, and the scan is at a function other
than 0 only of a device whose function 0 has the multi-function bit. `NetInv` adds
that only the start-up scans.

**`Api_proofs`.** `ReaderInductive` proves `ReaderInv` for every document. Its part
`Bounded` gives the nestings of loops that can occur and keeps the stored items
within `messages[]` and `tokens[]`, also after a list was left in its middle.
`History` relates the loops to the brackets read: `NestedIn` says that every
loop has the bracket that opened it, at the depth of the loop, with everything
after it deeper, and that a loop reads a list of the request exactly when it is
the value of the required key at depth 1. From that, `KeyRead` and `InList` tell
from the stack alone whether the token in hand is the required value or an item of
the list, and `Fields` follows token by token. `AcceptedIsNested` and
`OnlyTopLevelFields` are the two properties when the document is accepted. The
depth of a token sequence is a cardinality, so no recursion is involved.

**`HttpExchange_proofs`.** `RequestsIntact`, `NumbersAgree` and `OwnResponses`
prove `RequestIntact`, `NumbersInStep` and `OwnResponse` for any number of
clients, sockets and neighbours, so also for clients that hold sockets at the same
time, any requests and segmentation, and any number of repetitions and of losses of
SYNs, SYN-ACKs and ARP frames. Their hypothesis, `SoundDeployment`, is a condition on
constants that the instance of `http_exchange` satisfies:

- the link does not pad; otherwise padding becomes payload (finding 2);
- the ARP table has room for all neighbours; otherwise acknowledgements are
  dropped, data is repeated and appended twice (findings 3 and 6);
- no acknowledgement is lost, on either side, and the one that ends the handshake
  carries no data; otherwise the start of the request is dropped (finding 1) or
  a part of it taken twice (finding 3), and `RequestIntact` is false;
- a request is shorter than the receive buffer, or its end is dropped, and than
  the sequence space;
- every response is written and fits one segment; otherwise `net_send_tcp` refuses
  it and only a FIN arrives, with a number that is too high.

`OwnResponses` needs `RequestsEndBlank` too: a request ends with its first empty
line. The server answers what lies before it, so a request with a body is
answered without the body (finding 4). Nothing is assumed about when clients
acknowledge: the slot leak of finding 5 does not touch these properties.

None of the three is inductive. `XInv`, which `ExchangeInductive` proves, is a
statement about each client's record, its two wires and its socket. `UpInv` gives
the wire to the server: SYNs, then the acknowledgement that ends the handshake,
then the request without gaps, up to what the client has sent. `SocketInv` says
for each state of the socket what the wires hold: `HalfOpen` (every SYN-ACK
under way carries the socket's number, and a client that has taken one up has its
ACK under way), `Transfer` (the buffer ends where the first segment under way
begins, both ends agree on the server's number, and what is buffered is
acknowledged or the acknowledgement is the last segment under way, which is why a
client never repeats data), and `AnswerUnderWay` (response and FIN are the last
two segments, with consecutive numbers). `NoSocketInv` covers a client without a
socket: it was never connected, or it has closed. `HostKnown` says that a client
that was sent anything stays in the ARP table; it rests on `Remembered`. `XInv`
includes `Inv({})` of `Tcp_proofs`, since all segments of the exchange have the
clients' address: because a peer has only one socket, a step for
one client leaves what is said about the others alone. There is a lemma for each
action of a client, for each branch of `tcp_receive` under `Poll`, for the timer
and for the ARP frames. On the constants of `http_exchange` TLC finds both
hypotheses true and `XInv` an invariant, so the theorems are not vacuous.

**Only model-checked.**

- Liveness (`EveryoneServed`, `AnsweredSocketCloses`, `RingsDrain`,
  `HandlerReturns`) is outside the prover's reach, as is what a request parses to
  in `Http`.
- `ApiTypeOK`, `GenerationIsSent` and `SentIsStructured`: the pieces of a
  response have the lengths of the code's string literals, and the prover knows
  neither the length of a literal nor that it is in `STRING`. The part of
  `ApiTypeOK` that concerns the parser is in `ReaderInv`.
- `ValidIsAccepted` compares the parser with a grammar that is enumerated up to a
  length.

## 5. Findings

1. **The start of a request can be lost** (`smoke_get`). In SYN_RECEIVED every segment
   with ACK ends the handshake: its payload is dropped and its first byte
   acknowledged. That segment is the first one of the request when the client's
   acknowledgement carries data, which is the trace TLC shows, or when it was lost.
   The client goes on behind the acknowledged byte, and the GET of the smoke test is
   answered 400. In the model a token stands for the byte, so a whole token is
   missing. Either cause alone is enough: `AckData = TRUE` without padding and
   losses, or `LostAcks = {"client"}` without the others.
2. **Padding can end up in front of a request** (`smoke_get` with `LostAcks = {}`,
   `AckData = FALSE`). The payload length comes from the frame. A second
   acknowledgement of the handshake, caused by a repeated SYN-ACK, reaches an
   established socket, and its padding is buffered.
3. **Repeated data is taken twice** (`smoke_get` with `LostAcks = {"server"}`,
   `AckData = FALSE` and no padding). Sequence numbers of data are not looked at. When
   the acknowledgement of a part of the request is lost the client sends the part
   again, and the server appends it again: 400.
4. **A POST is always answered 400** (no run: `PostLosesBody`, an assumption of
   `MCHttpExchange` that TLC evaluates). `tcp_receive` hands `http_parse_request`
   only the bytes up to the empty line, so the body never reaches the handler. The
   smoke test posts to `/v1/completions` (`http_smoke.py:76`) and expects 200.
5. **TIME_WAIT is never left** (`slot_leak`). A FIN that arrives in FIN_WAIT_1
   uses the slot up.
6. **A response that cannot be addressed is lost** (`arp_drop`). `net_send_ip` says
   its caller should retry when the address is not resolved; no caller does, and
   `s->seq` advances. An ARP frame of a fifth neighbour evicts slot 0, whoever
   uses it (the comment says LRU), and the response of that client is
   dropped for good. With the same constants `RequestIntact` fails as well: the
   dropped segment may be the acknowledgement of data, which the client then
   repeats and the server appends a second time.
7. **The lock's own window** (`spinlock_window`). The lock is taken by `xchg` before
   interrupts are disabled, so a handler that logs in between spins for ever on the
   lock of the context below it. `include/spinlock.h:11-12` says that this is
   avoided. No interrupt is enabled today; it waits for the first handler that logs.
8. **`"created":%lld`** (`created_number`). `json_write_int64` uses a length
   modifier that the kernel's `vsnprintf` does not know, so three endpoints send
   that text as JSON. For the same reason `generate_request_id` gives every
   request the same id, `cmpl-%016llx`, and `/model/metadata` shows the magic's bytes
   as version and counts and reads its architecture at address 70.

Three more defects have no run of their own, because no text of the repository
says otherwise or because they lie outside the models.

- A SYN from 0.0.0.0 opens a socket that matches every host on its port. It can stand
  beside a host's own socket, or become a second one of that host: with the
  constants of `tcp_server` TLC violates `AmbiguousOnlyOn({})` with two SYNs. The
  first match then gets all segments, and the other slot none while the first lives.
- A shrinking `realloc` stores the unrounded size and gives nothing back, so the
  block no longer meets its neighbour and the two never merge; `Accounted` says
  that no other operation loses bytes (`cut` holds these).
- `handle_v1_chat_completions` has a `chat_completion_request_t` of about 131 KB (32
  messages of 4096 characters and more) among its locals (`api_v1.c:504`), on a boot
  stack of 64 KB (`boot.S:21`). The stack is not modelled, so
  what calls made from such a frame overwrite is not either.

## 6. Not modelled, and why

- `boot.S`, the VGA terminal, the CUDA stubs: machine set-up and output without
  later state.
- Checksums and header formats: pure functions of bytes.
- Model checksums and `model_embedding.c`: functions of a constant array;
  `llm.cpp` is not part of the C build, and `llm_detokenize` is a copy.
- Logging and most string helpers: formatting and copying. The memory pools are
  stubs that return NULL, and nothing calls the stack guard.
- In `Tcp`, segments with malformed header lengths. In `E1000`, frame lengths and the register programming besides the
  ring indices.
- In `JsonReader`, the characters inside a token and the lengths of the string
  fields.
- In `HttpExchange`, loss of the client's data segments and of responses and FINs
  by the network, and duplicates that the network makes. Of the send path's own
  drops, those on an ARP miss are there; a send that `e1000_send_packet` refuses or
  gives up on is in `E1000` and not in the exchange.
- The size of the stack.

## 7. Plan

Done, in order of importance: `Tcp` with its abstraction and proofs, the
exchange around it with the send path and the neighbour table, the e1000 rings
with abstraction and proofs, the lock, the heap with the LLM context above it,
start-up with the PCI scan, the JSON layer and all handlers; then the proofs of
section 4, component by component, and of the exchange end to end. Left: the
strict bound of the writer's buffer and the balance of its brackets, with the
lengths of the literals as parameters.
