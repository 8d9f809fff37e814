---- MODULE Allocator ----
(***************************************************************************)
(* The heap (src/allocator.c): malloc, free and realloc over one arena of  *)
(* blocks, each a header followed by its payload.  An address is a byte    *)
(* offset into the arena and stands for the block whose header is there.   *)
(* The free list is kept sorted by address by every insertion, so the set  *)
(* of its blocks determines it.                                            *)
(***************************************************************************)
EXTENDS Integers, FiniteSets, FiniteSetsExt

CONSTANTS
    HeapSize,     \* HEAP_SIZE
    Header,       \* HEADER_SIZE
    Align,        \* 8
    SizeMod,      \* size_t is modulo SizeMod (2^32)
    Sizes         \* the sizes callers ask for

ASSUME SizeAssumption ==
    /\ {HeapSize, Header, Align, SizeMod} \subseteq Nat \ {0}
    /\ HeapSize % Align = 0 /\ Header % Align = 0 /\ HeapSize >= Header + Align
    /\ Sizes \subseteq 1 .. SizeMod - 1

VARIABLES
    heap,     \* size: the size field of every block; free: the blocks of the free list
    need,     \* what was asked for each block in use
    freed,    \* pointers that were freed and not handed out again since
    cut       \* the bytes realloc has cut off

vars == <<heap, need, freed, cut>>

Blocks(h) == DOMAIN h.size
InUse(h) == Blocks(h) \ h.free
End(h, a) == a + Header + h.size[a]
Bytes(h, a) == a .. End(h, a) - 1

\* memory_init_heap
Init ==
    /\ heap = [size |-> [a \in {0} |-> HeapSize - Header], free |-> {0}]
    /\ need = [a \in {} |-> 0]
    /\ freed = {} /\ cut = {}

----
(* malloc *)

\* Mutant: sizes are rounded down.
RoundDown(n) == IF n < Align THEN Align ELSE (n \div Align) * Align

\* size = (size + 7) & ~7, and 8 when that is 0.
Rounded(n) ==
    LET r == (((n + Align - 1) % SizeMod) \div Align) * Align
    IN  IF r = 0 THEN Align ELSE r

Fitting(h, n) == {a \in h.free : h.size[a] >= Rounded(n)}

\* Mutant: the remainder comes out one unit short.
RestShort(size, r) == size - (r + Header) - Align

\* The payload of the remainder when a block of the given size is split after r bytes.
Rest(size, r) == size - (r + Header)

\* The first fitting block leaves the free list; what it has to spare becomes
\* a block of its own if there is room for a header and a payload.
Alloc(h, n) ==
    LET a == Min(Fitting(h, n))
        r == Rounded(n)
        b == a + Header + r
    IN  IF h.size[a] >= r + Header + Header + Align
        THEN [size |-> [x \in Blocks(h) \cup {b} |->
                            CASE x = a -> r
                              [] x = b -> Rest(h.size[a], r)
                              [] OTHER -> h.size[x]],
              free |-> (h.free \ {a}) \cup {b}]
        ELSE [h EXCEPT !.free = @ \ {a}]

\* Out of memory returns NULL and changes nothing.
malloc(n) ==
    /\ Fitting(heap, n) # {}
    /\ LET a == Min(Fitting(heap, n))
       IN  /\ heap' = Alloc(heap, n)
           /\ need' = [x \in InUse(heap) \cup {a} |-> IF x = a THEN n ELSE need[x]]
           /\ freed' = freed \ {a}
    /\ UNCHANGED cut

----
(* free *)

\* Mutant: no merging.
Uncoalesced(h) == h

\* Runs of adjacent free blocks become one block, which ends where the first
\* gap after its start is.
Coalesce(h) ==
    LET Heads == {a \in h.free : \A b \in h.free : End(h, b) # a}
        RunEnd(a) == Min({End(h, b) : b \in {c \in h.free : c >= a /\ End(h, c) \notin h.free}})
    IN  [size |-> [x \in InUse(h) \cup Heads |-> IF x \in h.free THEN RunEnd(x) - x - Header ELSE h.size[x]],
         free |-> Heads]

Release(h, p) == Coalesce([h EXCEPT !.free = @ \cup {p}])

free(p) ==
    /\ p \in InUse(heap)
    /\ heap' = Release(heap, p)
    /\ need' = [x \in InUse(heap) \ {p} |-> need[x]]
    /\ freed' = freed \cup {p}
    /\ UNCHANGED cut

\* A pointer freed once more while no block in use and no free header lies over
\* its header.  One that such a block has left a trace in is among these pointers
\* too; what free reads there is not known, and the model takes the guard's branch.
Intact(p) ==
    /\ \A b \in InUse(heap) : (p .. p + Header - 1) \cap Bytes(heap, b) = {}
    /\ \A b \in heap.free \ {p} : (p .. p + Header - 1) \cap (b .. b + Header - 1) = {}

\* Mutant: without the double-free guard the block is inserted again.
FreedTwice(h, p) == [size |-> [x \in Blocks(h) \cup {p} |-> IF x = p THEN Align ELSE h.size[x]], free |-> h.free \cup {p}]

\* The header still says is_free, and free returns.
Guarded(h, p) == h

DoubleFree(p) ==
    /\ p \in freed /\ Intact(p)
    /\ heap' = Guarded(heap, p)
    /\ UNCHANGED <<need, freed, cut>>

----
(* realloc, of a pointer in use; of NULL it is malloc, to size 0 it is free. *)

\* A size that does not exceed the block's becomes the block's size as it is,
\* neither rounded nor split off.
Shrink(p, n) ==
    /\ p \in InUse(heap) /\ n <= heap.size[p]
    /\ heap' = [heap EXCEPT !.size[p] = n]
    /\ need' = [need EXCEPT ![p] = n]
    /\ cut' = cut \cup (p + Header + n .. End(heap, p) - 1)
    /\ UNCHANGED freed

\* A larger one moves to a new block, and the old one is freed afterwards.
Grow(p, n) ==
    /\ p \in InUse(heap) /\ n > heap.size[p]
    /\ Fitting(heap, n) # {}
    /\ LET a == Min(Fitting(heap, n))
       IN  /\ heap' = Release(Alloc(heap, n), p)
           /\ need' = [x \in (InUse(heap) \cup {a}) \ {p} |-> IF x = a THEN n ELSE need[x]]
           /\ freed' = (freed \ {a}) \cup {p}
    /\ UNCHANGED cut

----
TypeOK ==
    /\ Blocks(heap) \subseteq 0 .. HeapSize - 1 /\ heap.free \subseteq Blocks(heap)
    /\ \A a \in Blocks(heap) : heap.size[a] \in Nat
    /\ DOMAIN need = InUse(heap)
    /\ freed \subseteq 0 .. HeapSize - 1 /\ cut \subseteq 0 .. HeapSize - 1

\* Blocks lie inside the arena, start on an aligned address (so payloads are
\* aligned too) and do not overlap, headers included: no allocation is ever
\* handed memory that another block or the free list uses.
NoOverlap ==
    /\ \A a \in Blocks(heap) : a % Align = 0 /\ End(heap, a) <= HeapSize
    /\ \A a, b \in Blocks(heap) : a < b => End(heap, a) <= b

\* Every block in use is at least as large as what was last asked for it.
LargeEnough == \A a \in InUse(heap) : heap.size[a] >= need[a]

\* free leaves no two adjacent free blocks behind, and nor does any later
\* split or shrink.
Coalesced == \A a, b \in heap.free : End(heap, a) # b

\* No byte of the arena is lost by splitting, merging and moving: what is in
\* no block any more was cut off by a realloc to a smaller size.
Accounted == 0 .. HeapSize - 1 = cut \cup UNION {Bytes(heap, a) : a \in Blocks(heap)}
====
