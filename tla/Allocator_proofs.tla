---- MODULE Allocator_proofs ----
(***************************************************************************)
(* What malloc, free and realloc keep of the heap, for an arena, a header, *)
(* an alignment and requests of every size.                                *)
(***************************************************************************)
EXTENDS Allocator, WellFoundedInduction, TLAPS

(* Smallest and largest elements: the scans of the free list stop somewhere. *)

\* A nonempty set of naturals has a least element.
LEMMA LeastExists ==
  ASSUME NEW S \in SUBSET Nat, S # {}
  PROVE  \E i \in S : \A j \in S : i <= j
<1> DEFINE R == OpToRel(<, Nat)
<1>1. \E i \in S : \A j \in S : ~(<<j, i>> \in R)
  <2>1. IsWellFoundedOn(R, Nat)
    BY NatLessThanWellFounded
  <2> HIDE DEF R
  <2> QED
    BY <2>1, WFMin
<1>2. \A i, j \in Nat : j < i => <<j, i>> \in R
  BY DEF OpToRel
<1> HIDE DEF R
<1>3. PICK i \in S : \A j \in S : ~(<<j, i>> \in R)
  BY <1>1
<1>4. ASSUME NEW j \in S PROVE i <= j
  <2>1. i \in Nat /\ j \in Nat
    OBVIOUS
  <2>2. ~(j < i)
    BY <1>2, <1>3, <2>1, Zenon
  <2> QED
    BY <2>1, <2>2
<1> QED
  BY <1>4

\* The first fitting block of malloc is one of the fitting blocks.
LEMMA MinIs ==
  ASSUME NEW S \in SUBSET Nat, S # {}
  PROVE  Min(S) \in S /\ \A j \in S : Min(S) <= j
BY LeastExists DEF Min

\* A nonempty bounded set of naturals has a greatest element.
LEMMA GreatestExists ==
  ASSUME NEW S \in SUBSET Nat, S # {}, NEW N \in Nat, \A i \in S : i <= N
  PROVE  \E i \in S : \A j \in S : j <= i
<1> DEFINE T == {N - i : i \in S}
<1>1. T \in SUBSET Nat /\ T # {}
  <2>1. \A i \in S : N - i \in Nat
    OBVIOUS
  <2>2. PICK i \in S : TRUE
    OBVIOUS
  <2>3. N - i \in T
    OBVIOUS
  <2> QED
    BY <2>1, <2>3
<1>2. PICK t \in T : \A u \in T : t <= u
  <2> HIDE DEF T
  <2> QED
    BY <1>1, LeastExists
<1>3. PICK i \in S : t = N - i
  OBVIOUS
<1>4. ASSUME NEW j \in S PROVE j <= i
  <2>1. N - i <= N - j
    BY <1>2, <1>3
  <2>2. i \in Nat /\ j \in Nat
    OBVIOUS
  <2> HIDE DEF T
  <2> QED
    BY <2>1, <2>2
<1> QED
  BY <1>4

----
(* Alignment. *)

\* A multiple of the alignment is aligned.
LEMMA MultipleAligned ==
  ASSUME NEW q \in Nat
  PROVE  (q * Align) % Align = 0
BY SizeAssumption

\* Aligned addresses are multiples of the alignment.
LEMMA AlignedMultiple ==
  ASSUME NEW a \in Nat, a % Align = 0
  PROVE  a \div Align \in Nat /\ a = (a \div Align) * Align
BY SizeAssumption

\* An aligned offset from an aligned address is aligned.
LEMMA AlignedSum ==
  ASSUME NEW a \in Nat, NEW b \in Nat, a % Align = 0, b % Align = 0
  PROVE  (a + b) % Align = 0
<1> DEFINE i == a \div Align
           j == b \div Align
<1>1. i \in Nat /\ j \in Nat /\ a = i * Align /\ b = j * Align
  BY AlignedMultiple
<1> HIDE DEF i, j
<1>2. a + b = (i + j) * Align
  BY <1>1, SizeAssumption
<1>3. ((i + j) * Align) % Align = 0
  BY <1>1, MultipleAligned
<1> QED
  BY <1>2, <1>3

\* Rounding gives an aligned size, no smaller than the request unless the
\* addition in it wraps around.
LEMMA RoundedIs ==
  ASSUME NEW n \in Nat
  PROVE  /\ Rounded(n) \in Nat \ {0} /\ Rounded(n) % Align = 0
         /\ n + Align - 1 < SizeMod => Rounded(n) >= n
<1> DEFINE m == (n + Align - 1) % SizeMod
           q == m \div Align
<1>1. m \in Nat /\ (n + Align - 1 < SizeMod => m = n + Align - 1)
  BY SizeAssumption
<1>2. q \in Nat /\ q * Align <= m /\ m < q * Align + Align
  <2> HIDE DEF m
  <2> QED
    BY <1>1, SizeAssumption
<1>3. (q * Align) % Align = 0 /\ Align % Align = 0 /\ q * Align \in Nat
  <2> HIDE DEF q
  <2> QED
    BY <1>2, MultipleAligned, SizeAssumption
<1>4. Rounded(n) = IF q * Align = 0 THEN Align ELSE q * Align
  BY DEF Rounded
<1> HIDE DEF q, m
<1>5. Rounded(n) \in Nat \ {0} /\ Rounded(n) % Align = 0
  BY <1>3, <1>4, SizeAssumption
<1>6. ASSUME n + Align - 1 < SizeMod PROVE Rounded(n) >= n
  BY <1>1, <1>2, <1>3, <1>4, <1>6, SizeAssumption
<1> QED
  BY <1>5, <1>6

----
(* The shape of the arena. *)

\* A heap of the right type whose blocks are aligned, inside the arena and
\* apart from each other: NoOverlap with its types, of any heap.
Arena(h) ==
    /\ h = [size |-> h.size, free |-> h.free]
    /\ h.size \in [Blocks(h) -> Nat] /\ Blocks(h) \subseteq Nat /\ h.free \subseteq Blocks(h)
    /\ \A a \in Blocks(h) : a % Align = 0 /\ End(h, a) <= HeapSize
    /\ \A a, b \in Blocks(h) : a < b => End(h, a) <= b

\* Coalesced, of any heap.
Merged(h) == \A a, b \in h.free : End(h, a) # b

\* The bytes that lie in some block.
Covered(h) == UNION {Bytes(h, a) : a \in Blocks(h)}

\* Where a block of a sound heap ends.
LEMMA EndIs ==
  ASSUME NEW h, Arena(h), NEW a \in Blocks(h)
  PROVE  /\ a \in Nat /\ h.size[a] \in Nat /\ End(h, a) = a + Header + h.size[a]
         /\ End(h, a) \in Nat /\ a < End(h, a) /\ End(h, a) <= HeapSize
BY SizeAssumption DEF Arena, End

\* malloc takes one fitting block off the free list and splits it inside its
\* own bytes.
LEMMA AllocArena ==
  ASSUME NEW h, Arena(h), NEW n \in Nat, Fitting(h, n) # {}
  PROVE  LET a == Min(Fitting(h, n))
             g == Alloc(h, n)
         IN  /\ a \in h.free /\ h.size[a] >= Rounded(n)
             /\ Arena(g)
             /\ InUse(g) = InUse(h) \cup {a} /\ a \notin InUse(h)
             /\ g.size[a] >= Rounded(n) /\ \A x \in InUse(h) : g.size[x] = h.size[x]
             /\ Merged(h) => Merged(g)
             /\ Covered(g) = Covered(h)
<1> DEFINE a == Min(Fitting(h, n))
           g == Alloc(h, n)
           r == Rounded(n)
           b == a + Header + r
<1>1. a \in Fitting(h, n)
  <2>1. Fitting(h, n) \in SUBSET Nat
    BY DEF Fitting, Arena
  <2> QED
    BY <2>1, MinIs
<1>2. /\ a \in h.free /\ a \in Blocks(h) /\ h.size[a] >= r /\ a \in Nat /\ h.size[a] \in Nat
      /\ r \in Nat \ {0} /\ a % Align = 0
  BY <1>1, RoundedIs DEF Fitting, Arena
<1>3. g = IF h.size[a] >= r + Header + Header + Align
          THEN [size |-> [x \in Blocks(h) \cup {b} |->
                            CASE x = a -> r [] x = b -> Rest(h.size[a], r) [] OTHER -> h.size[x]],
                free |-> (h.free \ {a}) \cup {b}]
          ELSE [h EXCEPT !.free = @ \ {a}]
  BY DEF Alloc
<1> HIDE DEF a, g, r
<1> SUFFICES /\ Arena(g)
             /\ InUse(g) = InUse(h) \cup {a} /\ a \notin InUse(h)
             /\ g.size[a] >= r /\ \A x \in InUse(h) : g.size[x] = h.size[x]
             /\ Merged(h) => Merged(g)
             /\ Covered(g) = Covered(h)
  BY <1>2 DEF a, g, r
<1>4. CASE ~(h.size[a] >= r + Header + Header + Align)
  <2>1. /\ g.size = h.size /\ g.free = h.free \ {a} /\ g = [size |-> g.size, free |-> g.free]
        /\ Blocks(g) = Blocks(h)
    BY <1>3, <1>4 DEF Arena, Blocks
  <2>2. Arena(g)
    BY <2>1 DEF Arena, End
  <2>3. \A x : End(g, x) = End(h, x) /\ Bytes(g, x) = Bytes(h, x)
    BY <2>1 DEF End, Bytes
  <2> QED
    BY <1>2, <2>1, <2>2, <2>3 DEF InUse, Merged, Covered, Arena
<1>5. CASE h.size[a] >= r + Header + Header + Align
  <2>a. Header \in Nat \ {0} /\ Align \in Nat \ {0}
    BY SizeAssumption
  <2>b. b \in Nat /\ a < b /\ b + Header < End(h, a)
    BY <1>2, <1>5, <2>a DEF End
  <2>c. b \notin Blocks(h)
    <3> SUFFICES ASSUME b \in Blocks(h) PROVE FALSE
      OBVIOUS
    <3>1. End(h, a) <= b
      BY <1>2, <2>b DEF Arena
    <3> QED
      BY <1>2, <2>a, <2>b, <3>1, EndIs
  <2>1. /\ Blocks(g) = Blocks(h) \cup {b} /\ g.free = (h.free \ {a}) \cup {b}
        /\ g = [size |-> g.size, free |-> g.free]
    BY <1>3, <1>5 DEF Blocks
  <2>2. /\ g.size[a] = r /\ g.size[b] = Rest(h.size[a], r)
        /\ \A x \in Blocks(h) \ {a} : g.size[x] = h.size[x]
    BY <1>2, <1>3, <1>5, <2>b, <2>c DEF Blocks
  <2>3. End(g, a) = b /\ End(g, b) = End(h, a) /\ \A x \in Blocks(h) \ {a} : End(g, x) = End(h, x)
    BY <1>2, <2>a, <2>b, <2>2 DEF End, Rest
  <2>4. Rest(h.size[a], r) \in Nat /\ b % Align = 0
    <3>1. Rest(h.size[a], r) \in Nat
      BY <1>2, <1>5, <2>a DEF Rest
    <3>2. (a + Header) % Align = 0
      BY <1>2, <2>a, AlignedSum, SizeAssumption
    <3>3. r % Align = 0
      BY RoundedIs DEF r
    <3>4. ASSUME NEW c \in Nat, c % Align = 0 PROVE (c + r) % Align = 0
      BY <1>2, <3>3, <3>4, AlignedSum
    <3>5. a + Header \in Nat
      BY <1>2, <2>a
    <3>6. (a + Header + r) % Align = 0
      BY <3>2, <3>4, <3>5
    <3> QED
      BY <3>1, <3>6
  <2>d. a \in Nat /\ b \in Nat /\ End(h, a) \in Nat /\ Header \in Nat /\ b < End(h, a)
    BY <1>2, <2>a, <2>b, EndIs
  <2> HIDE DEF b
  <2>5. Arena(g)
    <3>1. g.size \in [Blocks(g) -> Nat]
      <4>1. g.size = [x \in Blocks(g) |-> g.size[x]]
        BY <1>3, <1>5 DEF Blocks
      <4>2. \A x \in Blocks(g) : g.size[x] \in Nat
        BY <1>2, <2>1, <2>2, <2>4 DEF Arena
      <4> QED
        BY <4>1, <4>2
    <3>2. \A x \in Blocks(g) : x % Align = 0 /\ End(g, x) <= HeapSize
      <4>1. b <= HeapSize /\ End(h, a) <= HeapSize
        BY <1>2, <2>a, <2>b, EndIs, SizeAssumption
      <4>2. \A x \in Blocks(h) : x % Align = 0 /\ End(h, x) <= HeapSize
        BY DEF Arena
      <4> QED
        BY <1>2, <2>1, <2>3, <2>4, <4>1, <4>2
    <3>3. ASSUME NEW x \in Blocks(g), NEW y \in Blocks(g), x < y PROVE End(g, x) <= y
      <4>a. \A u, v \in Blocks(h) : u < v => End(h, u) <= v
        BY DEF Arena
      <4>b. \A u \in Blocks(h) : u \in Nat /\ u < End(h, u) /\ End(h, u) \in Nat
        BY EndIs
      <4>1. CASE x = a
        <5>1. CASE y = b
          BY <2>3, <2>b, <4>1, <5>1
        <5>2. CASE y \in Blocks(h)
          <6>1. End(h, a) <= y
            BY <1>2, <3>3, <4>a, <4>1, <5>2
          <6> QED
            BY <1>2, <2>a, <2>b, <2>3, <4>b, <4>1, <5>2, <6>1
        <5> QED
          BY <2>1, <5>1, <5>2
      <4>2. CASE x = b
        <5>1. y \in Blocks(h) /\ y # a /\ a < y
          BY <1>2, <2>1, <2>b, <3>3, <4>2, <4>b
        <5>2. End(h, a) <= y
          BY <1>2, <4>a, <5>1
        <5> QED
          BY <2>3, <4>2, <5>2
      <4>3. CASE x \in Blocks(h) \ {a}
        <5>1. End(g, x) = End(h, x)
          BY <2>3, <4>3
        <5>2. CASE y \in Blocks(h)
          BY <3>3, <4>a, <4>3, <5>1, <5>2
        <5>3. CASE y = b
          <6>1. x < a
            <7>1. ~(a < x)
              <8> SUFFICES ASSUME a < x PROVE FALSE
                OBVIOUS
              <8>1. End(h, a) <= x
                BY <1>2, <4>a, <4>3
              <8> QED
                BY <2>d, <3>3, <4>b, <4>3, <5>3, <8>1
            <7>2. x \in Nat /\ x # a
              BY <4>b, <4>3
            <7> QED
              BY <2>d, <7>1, <7>2
          <6>2. End(h, x) <= a
            BY <1>2, <4>a, <4>3, <6>1
          <6> QED
            BY <2>b, <2>d, <4>b, <4>3, <5>1, <5>3, <6>2
        <5> QED
          BY <2>1, <5>2, <5>3
      <4> QED
        BY <2>1, <4>1, <4>2, <4>3
    <3>4. Blocks(g) \subseteq Nat /\ g.free \subseteq Blocks(g)
      BY <2>1, <2>b DEF Arena
    <3> QED
      BY <2>1, <3>1, <3>2, <3>3, <3>4, Zenon DEF Arena
  <2>6. InUse(g) = InUse(h) \cup {a} /\ a \notin InUse(h)
    BY <1>2, <2>1, <2>c DEF InUse
  <2>7. \A x \in InUse(h) : g.size[x] = h.size[x]
    BY <1>2, <2>2 DEF InUse
  <2>8. ASSUME Merged(h) PROVE Merged(g)
    <3> SUFFICES ASSUME NEW x \in g.free, NEW y \in g.free, End(g, x) = y PROVE FALSE
      BY DEF Merged
    <3>1. CASE x = b
      <4>1. y \in h.free
        BY <2>1, <2>3, <2>a, <2>b, <3>1
      <4> QED
        BY <1>2, <2>3, <2>8, <3>1, <4>1 DEF Merged
    <3>2. CASE x # b
      <4>1. x \in h.free /\ x # a /\ x \in Blocks(h) /\ End(g, x) = End(h, x)
        BY <2>1, <2>3, <3>2 DEF Arena
      <4>2. CASE y \in h.free
        BY <2>8, <4>1, <4>2 DEF Merged
      <4>3. CASE y = b
        <5>1. CASE x < a
          <6>1. End(h, x) <= a
            BY <1>2, <4>1, <5>1 DEF Arena
          <6> QED
            <7>1. End(h, x) = b
              BY <4>1, <4>3
            <7> QED
              BY <2>b, <2>d, <6>1, <7>1
        <5>2. CASE a < x
          <6>1. End(h, a) <= x
            BY <1>2, <4>1, <5>2 DEF Arena
          <6> QED
            <7>1. x \in Nat /\ x < End(h, x) /\ End(h, x) = b
              BY <4>1, <4>3, EndIs
            <7> QED
              BY <2>d, <6>1, <7>1
        <5> QED
          BY <1>2, <4>1, <5>1, <5>2, EndIs
      <4> QED
        BY <2>1, <4>2, <4>3
    <3> QED
      BY <3>1, <3>2
  <2>9. Covered(g) = Covered(h)
    <3>1. Bytes(h, a) = Bytes(g, a) \cup Bytes(g, b)
      BY <1>2, <2>a, <2>b, <2>3, EndIs DEF Bytes
    <3>2. \A x \in Blocks(h) \ {a} : Bytes(g, x) = Bytes(h, x)
      BY <2>3 DEF Bytes
    <3> QED
      BY <1>2, <2>1, <3>1, <3>2, Zenon DEF Covered
  <2> QED
    BY <1>2, <2>2, <2>5, <2>6, <2>7, <2>8, <2>9
<1> QED
  BY <1>4, <1>5

----
(* Merging: the loop at the end of free. *)

\* The free blocks that no free block ends at, and the end of the run of
\* adjacent free blocks that such a block starts.
HeadsOf(h) == {a \in h.free : \A b \in h.free : End(h, b) # a}
RunEndOf(h, a) == Min({End(h, b) : b \in {c \in h.free : c >= a /\ End(h, c) \notin h.free}})

\* A run ends with its last block: one whose end is not free, and the first such.
LEMMA RunEndIs ==
  ASSUME NEW h, Arena(h), NEW a \in h.free
  PROVE  /\ \E c \in h.free : c >= a /\ End(h, c) \notin h.free /\ RunEndOf(h, a) = End(h, c)
         /\ \A d \in h.free : d >= a /\ End(h, d) \notin h.free => RunEndOf(h, a) <= End(h, d)
<1> DEFINE A == {c \in h.free : c >= a}
           L == {c \in h.free : c >= a /\ End(h, c) \notin h.free}
           E == {End(h, b) : b \in L}
<1>1. h.free \subseteq Blocks(h) /\ h.free \subseteq Nat
  BY DEF Arena
<1>2. \A c \in h.free : End(h, c) \in Nat /\ c < End(h, c) /\ c <= HeapSize
  BY <1>1, EndIs, SizeAssumption
<1>3. PICK c \in A : \A d \in A : d <= c
  <2>1. A \in SUBSET Nat /\ A # {} /\ \A i \in A : i <= HeapSize
    BY <1>1, <1>2
  <2> HIDE DEF A
  <2> QED
    BY <2>1, GreatestExists, SizeAssumption
<1>4. End(h, c) \notin h.free
  BY <1>1, <1>2, <1>3
<1>5. E \in SUBSET Nat /\ E # {}
  BY <1>2, <1>3, <1>4
<1>6. RunEndOf(h, a) = Min(E)
  BY DEF RunEndOf
<1>7. Min(E) \in E /\ \A e \in E : Min(E) <= e
  <2> HIDE DEF E
  <2> QED
    BY <1>5, MinIs
<1> QED
  BY <1>6, <1>7

\* A run stops before the next block that is not part of it.
LEMMA RunStops ==
  ASSUME NEW h, Arena(h), NEW x \in HeadsOf(h), NEW y \in InUse(h) \cup HeadsOf(h), x < y
  PROVE  RunEndOf(h, x) <= y
<1> DEFINE A == {c \in h.free : c >= x /\ c < y}
<1>1. h.free \subseteq Blocks(h) /\ h.free \subseteq Nat /\ x \in h.free /\ y \in Blocks(h) /\ y \in Nat
  BY DEF Arena, HeadsOf, InUse
<1>2. \A c \in h.free : End(h, c) \in Nat /\ c < End(h, c)
  BY <1>1, EndIs
<1>3. PICK c \in A : \A d \in A : d <= c
  <2>1. A \in SUBSET Nat /\ A # {} /\ \A i \in A : i <= y
    BY <1>1
  <2> HIDE DEF A
  <2> QED
    BY <1>1, <2>1, GreatestExists
<1>4. End(h, c) <= y
  BY <1>1, <1>3 DEF Arena
<1>5. End(h, c) \notin h.free
  <2> SUFFICES ASSUME End(h, c) \in h.free PROVE FALSE
    OBVIOUS
  <2>1. CASE End(h, c) < y
    <3>1. End(h, c) \in A
      BY <1>1, <1>2, <1>3, <2>1
    <3> QED
      BY <1>1, <1>2, <1>3, <3>1
  <2>2. CASE End(h, c) = y
    BY <1>3, <2>2 DEF HeadsOf, InUse
  <2> QED
    BY <1>1, <1>2, <1>3, <1>4, <2>1, <2>2
<1>6. RunEndOf(h, x) <= End(h, c)
  BY <1>1, <1>3, <1>5, RunEndIs
<1>7. RunEndOf(h, x) \in Nat
  BY <1>1, <1>2, RunEndIs
<1> QED
  BY <1>1, <1>2, <1>3, <1>4, <1>6, <1>7

\* Every free block lies in the run of some head.
LEMMA RunCovers ==
  ASSUME NEW h, Arena(h), NEW f \in h.free
  PROVE  \E x \in HeadsOf(h) : x <= f /\ End(h, f) <= RunEndOf(h, x)
<1> DEFINE G == {g \in h.free : g <= f /\ \A c \in h.free : g <= c /\ c < f => End(h, c) \in h.free}
<1>1. h.free \subseteq Blocks(h) /\ h.free \subseteq Nat
  BY DEF Arena
<1>2. \A c \in h.free : End(h, c) \in Nat /\ c < End(h, c)
  BY <1>1, EndIs
<1>3. PICK x \in G : \A g \in G : x <= g
  <2>1. f \in G
    BY <1>1
  <2>2. G \in SUBSET Nat /\ G # {}
    BY <1>1, <2>1
  <2> HIDE DEF G
  <2> QED
    BY <2>2, LeastExists
<1>4. x \in HeadsOf(h)
  <2> SUFFICES ASSUME NEW b \in h.free, End(h, b) = x PROVE FALSE
    BY <1>3 DEF HeadsOf
  <2>1. b < x /\ b <= f /\ x \in h.free
    BY <1>1, <1>2, <1>3
  <2>2. ASSUME NEW c \in h.free, b <= c, c < f PROVE End(h, c) \in h.free
    <3>1. CASE c = b
      BY <2>1, <3>1
    <3>2. CASE b < c
      <4>1. x <= c
        BY <1>1, <3>2 DEF Arena
      <4> QED
        BY <1>3, <2>2, <4>1
    <3> QED
      BY <1>1, <2>2, <3>1, <3>2
  <2>3. b \in G
    BY <2>1, <2>2
  <2> QED
    BY <1>1, <1>3, <2>1, <2>3
<1>5. PICK c \in h.free : c >= x /\ End(h, c) \notin h.free /\ RunEndOf(h, x) = End(h, c)
  BY <1>3, RunEndIs
<1>6. c >= f
  BY <1>1, <1>3, <1>5
<1>7. End(h, f) <= End(h, c)
  <2>1. CASE c = f
    BY <1>2, <2>1
  <2>2. CASE f < c
    <3>1. End(h, f) <= c
      BY <1>1, <2>2 DEF Arena
    <3> QED
      BY <1>1, <1>2, <3>1
  <2> QED
    BY <1>1, <1>6, <2>1, <2>2
<1> QED
  BY <1>3, <1>4, <1>5, <1>7

\* Merging keeps the arena sound, the blocks in use and the bytes covered, and
\* leaves no two adjacent free blocks.
LEMMA CoalesceArena ==
  ASSUME NEW h, Arena(h)
  PROVE  LET g == Coalesce(h)
         IN  /\ Arena(g) /\ Merged(g)
             /\ InUse(g) = InUse(h) /\ \A x \in InUse(h) : g.size[x] = h.size[x]
             /\ Covered(h) \subseteq Covered(g)
<1> DEFINE g == Coalesce(h)
           H == HeadsOf(h)
           U == InUse(h)
<1>1. g = [size |-> [x \in U \cup H |-> IF x \in h.free THEN RunEndOf(h, x) - x - Header ELSE h.size[x]],
           free |-> H]
  BY DEF Coalesce, HeadsOf, RunEndOf
<1>2. /\ H \subseteq h.free /\ U \cap h.free = {} /\ U \subseteq Blocks(h) /\ h.free \subseteq Blocks(h)
      /\ Blocks(h) \subseteq Nat /\ Blocks(h) = U \cup h.free
  BY DEF HeadsOf, InUse, Arena
<1>a. Header \in Nat \ {0} /\ HeapSize \in Nat
  BY SizeAssumption
<1> HIDE DEF g, H, U
<1>3. /\ Blocks(g) = U \cup H /\ g.free = H /\ g = [size |-> g.size, free |-> g.free]
      /\ \A x \in U : g.size[x] = h.size[x]
      /\ \A x \in H : g.size[x] = RunEndOf(h, x) - x - Header
  BY <1>1, <1>2 DEF Blocks
<1>4. ASSUME NEW x \in H
      PROVE  /\ RunEndOf(h, x) \in Nat /\ RunEndOf(h, x) \notin h.free /\ RunEndOf(h, x) <= HeapSize
             /\ x + Header <= RunEndOf(h, x) /\ x \in Nat
  <2>1. PICK c \in h.free : c >= x /\ End(h, c) \notin h.free /\ RunEndOf(h, x) = End(h, c)
    BY <1>2, RunEndIs
  <2>2. c \in Nat /\ h.size[c] \in Nat /\ End(h, c) = c + Header + h.size[c] /\ End(h, c) <= HeapSize
    BY <1>2, <2>1, EndIs
  <2>3. x \in Nat
    BY <1>2
  <2> QED
    BY <1>a, <2>1, <2>2, <2>3
<1>5. \A x \in U : End(g, x) = End(h, x)
  BY <1>3 DEF End
<1>6. ASSUME NEW x \in H PROVE End(g, x) = RunEndOf(h, x) /\ g.size[x] \in Nat
  <2>1. g.size[x] = RunEndOf(h, x) - x - Header
    BY <1>3
  <2> QED
    BY <1>a, <1>4, <2>1 DEF End
<1>7. Arena(g)
  <2>1. g.size \in [Blocks(g) -> Nat]
    <3>1. g.size = [x \in Blocks(g) |-> g.size[x]]
      BY <1>1 DEF Blocks
    <3>2. \A x \in Blocks(g) : g.size[x] \in Nat
      BY <1>2, <1>3, <1>6 DEF Arena
    <3> QED
      BY <3>1, <3>2
  <2>2. \A x \in Blocks(g) : x % Align = 0 /\ End(g, x) <= HeapSize
    BY <1>2, <1>3, <1>4, <1>5, <1>6 DEF Arena
  <2>3. ASSUME NEW x \in Blocks(g), NEW y \in Blocks(g), x < y PROVE End(g, x) <= y
    <3>1. CASE x \in U
      BY <1>2, <1>3, <1>5, <2>3, <3>1 DEF Arena
    <3>2. CASE x \in H
      <4>1. RunEndOf(h, x) <= y
        BY <1>3, <2>3, <3>2, RunStops DEF H, U
      <4> QED
        BY <1>6, <3>2, <4>1
    <3> QED
      BY <1>3, <3>1, <3>2
  <2>4. Blocks(g) \subseteq Nat /\ g.free \subseteq Blocks(g)
    BY <1>2, <1>3
  <2> QED
    BY <1>3, <2>1, <2>2, <2>3, <2>4, Zenon DEF Arena
<1>8. Merged(g)
  BY <1>2, <1>3, <1>4, <1>6 DEF Merged
<1>9. InUse(g) = U
  BY <1>2, <1>3 DEF InUse
<1>10. Covered(h) \subseteq Covered(g)
  <2> SUFFICES ASSUME NEW a \in Blocks(h), NEW k \in Bytes(h, a) PROVE \E x \in Blocks(g) : k \in Bytes(g, x)
    BY DEF Covered
  <2>1. CASE a \in U
    BY <1>3, <1>5, <2>1 DEF Bytes
  <2>2. CASE a \in h.free
    <3>1. PICK x \in H : x <= a /\ End(h, a) <= RunEndOf(h, x)
      BY <2>2, RunCovers DEF H
    <3>2. k \in Int /\ a <= k /\ k <= End(h, a) - 1 /\ a \in Nat /\ End(h, a) \in Nat
      BY EndIs DEF Bytes
    <3>3. x \in Blocks(g) /\ End(g, x) = RunEndOf(h, x) /\ RunEndOf(h, x) \in Nat /\ x \in Nat
      BY <1>3, <1>4, <1>6
    <3>4. x <= k /\ k <= End(g, x) - 1
      BY <3>1, <3>2, <3>3
    <3> QED
      BY <3>2, <3>3, <3>4 DEF Bytes
  <2> QED
    BY <1>2, <2>1, <2>2
<1> QED
  BY <1>3, <1>7, <1>8, <1>9, <1>10 DEF g, U

----
(* The operations. *)

\* The inductive invariant of the heap: a sound arena without adjacent free
\* blocks and without lost bytes.
HeapInv == Arena(heap) /\ Merged(heap) /\ cut \subseteq 0 .. HeapSize - 1 /\ Accounted

\* What was asked for fits, of the blocks in use and of no others.
Sized == need \in [InUse(heap) -> Nat] /\ LargeEnough

\* A request whose rounding does not wrap around.
NoWrap(n) == n + Align - 1 < SizeMod

\* The whole arena is free at first.
LEMMA InitHeap == Init => HeapInv /\ Sized
<1> SUFFICES ASSUME Init PROVE HeapInv /\ Sized
  OBVIOUS
<1>1. /\ Header \in Nat \ {0} /\ HeapSize \in Nat \ {0} /\ Align \in Nat \ {0} /\ HeapSize >= Header + Align
      /\ HeapSize - Header \in Nat
  BY SizeAssumption
<1>2. /\ heap = [size |-> heap.size, free |-> heap.free] /\ Blocks(heap) = {0} /\ heap.free = {0}
      /\ heap.size = [a \in {0} |-> HeapSize - Header] /\ heap.size[0] = HeapSize - Header
  BY DEF Init, Blocks
<1>3. End(heap, 0) = HeapSize
  BY <1>1, <1>2 DEF End
<1>4. Arena(heap)
  <2>1. heap.size \in [{0} -> Nat]
    BY <1>1, <1>2
  <2>2. 0 % Align = 0
    BY <1>1
  <2> QED
    BY <1>1, <1>2, <1>3, <2>1, <2>2 DEF Arena
<1>5. Merged(heap)
  BY <1>1, <1>2, <1>3 DEF Merged
<1>6. cut = {} /\ Accounted
  <2>1. Bytes(heap, 0) = 0 .. HeapSize - 1
    BY <1>3 DEF Bytes
  <2> QED
    BY <1>2, <2>1 DEF Init, Accounted
<1>7. InUse(heap) = {} /\ need = [a \in {} |-> 0]
  BY <1>2 DEF InUse, Init
<1> QED
  BY <1>4, <1>5, <1>6, <1>7 DEF HeapInv, Sized, LargeEnough

\* Bytes stay accounted for when a sound heap still covers what it covered.
LEMMA CoveredAccounted ==
  ASSUME HeapInv, Arena(heap'), cut' \subseteq 0 .. HeapSize - 1,
         cut \cup Covered(heap) \subseteq cut' \cup Covered(heap')
  PROVE  Accounted'
<1>1. Covered(heap') \subseteq 0 .. HeapSize - 1
  <2> SUFFICES ASSUME NEW a \in Blocks(heap'), NEW k \in Bytes(heap', a) PROVE k \in 0 .. HeapSize - 1
    BY DEF Covered
  <2>1. a \in Nat /\ End(heap', a) \in Nat /\ End(heap', a) <= HeapSize
    BY EndIs
  <2> QED
    BY <2>1, SizeAssumption DEF Bytes
<1>2. 0 .. HeapSize - 1 = cut \cup Covered(heap)
  BY DEF HeapInv, Accounted, Covered
<1>3. 0 .. HeapSize - 1 = cut' \cup Covered(heap')
  BY <1>1, <1>2
<1> QED
  BY <1>3, Zenon DEF Accounted, Covered

\* malloc keeps the heap sound and hands out one block, which was free.
LEMMA MallocKeeps ==
  ASSUME HeapInv, NEW n \in Nat, malloc(n)
  PROVE  LET a == Min(Fitting(heap, n))
         IN  /\ HeapInv'
             /\ InUse(heap') = InUse(heap) \cup {a} /\ a \notin InUse(heap) /\ a \in Nat
             /\ heap'.size[a] >= Rounded(n) /\ heap'.size[a] \in Nat
             /\ Sized /\ NoWrap(n) => Sized' /\ heap'.size[a] >= n
<1> DEFINE a == Min(Fitting(heap, n))
<1>1. Fitting(heap, n) # {} /\ heap' = Alloc(heap, n) /\ cut' = cut
      /\ need' = [x \in InUse(heap) \cup {a} |-> IF x = a THEN n ELSE need[x]]
  BY DEF malloc
<1>2. /\ a \in heap.free /\ Arena(heap') /\ InUse(heap') = InUse(heap) \cup {a} /\ a \notin InUse(heap)
      /\ heap'.size[a] >= Rounded(n) /\ \A x \in InUse(heap) : heap'.size[x] = heap.size[x]
      /\ Merged(heap') /\ Covered(heap') = Covered(heap)
  BY <1>1, AllocArena DEF HeapInv
<1> HIDE DEF a
<1>3. Accounted'
  BY <1>1, <1>2, CoveredAccounted DEF HeapInv
<1>4. HeapInv'
  BY <1>1, <1>2, <1>3 DEF HeapInv
<1>5. a \in Nat /\ a \in Blocks(heap') /\ heap'.size[a] \in Nat
  BY <1>2 DEF HeapInv, Arena, InUse
<1>6. ASSUME Sized, NoWrap(n) PROVE Sized' /\ heap'.size[a] >= n
  <2>1. Rounded(n) >= n /\ Rounded(n) \in Nat
    BY <1>6, RoundedIs DEF NoWrap
  <2>2. heap'.size[a] >= n
    BY <1>2, <1>5, <2>1
  <2>3. need' \in [InUse(heap') -> Nat]
    BY <1>1, <1>2, <1>6 DEF Sized
  <2>4. ASSUME NEW x \in InUse(heap') PROVE heap'.size[x] >= need'[x]
    BY <1>1, <1>2, <1>6, <2>2 DEF Sized, LargeEnough
  <2> QED
    BY <2>2, <2>3, <2>4 DEF Sized, LargeEnough
<1> QED
  BY <1>2, <1>4, <1>5, <1>6 DEF a

\* Giving a block back to a sound heap keeps it sound, whatever it merges with.
LEMMA ReleaseArena ==
  ASSUME NEW h, Arena(h), NEW p \in InUse(h)
  PROVE  LET g == Release(h, p)
         IN  /\ Arena(g) /\ Merged(g)
             /\ InUse(g) = InUse(h) \ {p} /\ \A x \in InUse(g) : g.size[x] = h.size[x]
             /\ Covered(h) \subseteq Covered(g)
<1> DEFINE k == [h EXCEPT !.free = @ \cup {p}]
<1>1. k.size = h.size /\ k.free = h.free \cup {p} /\ k = [size |-> k.size, free |-> k.free]
  BY DEF Arena
<1>2. Release(h, p) = Coalesce(k)
  BY DEF Release
<1> HIDE DEF k
<1>3. Blocks(k) = Blocks(h) /\ \A x : End(k, x) = End(h, x)
  BY <1>1 DEF Blocks, End
<1>4. Arena(k)
  BY <1>1, <1>3 DEF Arena, InUse
<1>5. InUse(k) = InUse(h) \ {p} /\ Covered(k) = Covered(h)
  BY <1>1, <1>3 DEF InUse, Covered, Bytes
<1> QED
  BY <1>1, <1>2, <1>4, <1>5, CoalesceArena

\* free keeps the heap sound and takes back one block.
LEMMA FreeKeeps ==
  ASSUME HeapInv, NEW p, free(p)
  PROVE  HeapInv' /\ InUse(heap') = InUse(heap) \ {p} /\ (Sized => Sized')
<1>1. /\ p \in InUse(heap) /\ heap' = Release(heap, p) /\ cut' = cut
      /\ need' = [x \in InUse(heap) \ {p} |-> need[x]]
  BY DEF free
<1>2. /\ Arena(heap') /\ Merged(heap') /\ InUse(heap') = InUse(heap) \ {p}
      /\ \A x \in InUse(heap') : heap'.size[x] = heap.size[x]
      /\ Covered(heap) \subseteq Covered(heap')
  BY <1>1, ReleaseArena DEF HeapInv
<1>3. Accounted'
  BY <1>1, <1>2, CoveredAccounted DEF HeapInv
<1>4. Sized => Sized'
  BY <1>1, <1>2 DEF Sized, LargeEnough
<1> QED
  BY <1>1, <1>2, <1>3, <1>4 DEF HeapInv

\* A repeated free is caught by the guard and changes nothing.
LEMMA DoubleFreeKeeps ==
  ASSUME HeapInv, NEW p, DoubleFree(p)
  PROVE  HeapInv' /\ InUse(heap') = InUse(heap) /\ (Sized => Sized')
<1>1. heap' = heap /\ cut' = cut /\ need' = need
  BY DEF DoubleFree, Guarded
<1> QED
  BY <1>1 DEF HeapInv, Sized, LargeEnough, Accounted

\* A shrinking realloc keeps the heap sound; the bytes it gives up are in cut.
LEMMA ShrinkKeeps ==
  ASSUME HeapInv, NEW n \in Nat, NEW p, Shrink(p, n)
  PROVE  HeapInv' /\ InUse(heap') = InUse(heap) /\ (Sized => Sized')
<1>1. /\ p \in InUse(heap) /\ n <= heap.size[p] /\ heap' = [heap EXCEPT !.size[p] = n]
      /\ need' = [need EXCEPT ![p] = n] /\ cut' = cut \cup (p + Header + n .. End(heap, p) - 1)
  BY DEF Shrink
<1>2. /\ p \in Blocks(heap) /\ p \in Nat /\ p \notin heap.free /\ heap.size \in [Blocks(heap) -> Nat]
      /\ Header \in Nat
  BY <1>1, SizeAssumption DEF HeapInv, Arena, InUse
<1>3. /\ heap'.free = heap.free /\ heap' = [size |-> heap'.size, free |-> heap'.free]
      /\ heap'.size = [heap.size EXCEPT ![p] = n]
  BY <1>1 DEF HeapInv, Arena
<1>4. /\ Blocks(heap') = Blocks(heap) /\ heap'.size \in [Blocks(heap) -> Nat] /\ heap'.size[p] = n
      /\ \A x \in Blocks(heap) \ {p} : heap'.size[x] = heap.size[x]
  BY <1>2, <1>3 DEF Blocks
<1>5. /\ \A x \in Blocks(heap) \ {p} : End(heap', x) = End(heap, x)
      /\ End(heap', p) = p + Header + n /\ End(heap', p) <= End(heap, p)
      /\ End(heap', p) \in Nat /\ End(heap, p) \in Nat /\ End(heap, p) <= HeapSize
  <2>1. End(heap, p) = p + Header + heap.size[p] /\ heap.size[p] \in Nat /\ End(heap, p) <= HeapSize
    BY <1>2, EndIs DEF HeapInv
  <2> QED
    BY <1>1, <1>2, <1>4, <2>1 DEF End
<1>6. Arena(heap')
  <2>1. \A x \in Blocks(heap) : x \in Nat /\ End(heap, x) \in Nat /\ End(heap', x) \in Nat
    BY <1>2, <1>5, EndIs DEF HeapInv
  <2>2. \A x \in Blocks(heap) : End(heap', x) <= End(heap, x)
    BY <1>5, <2>1
  <2>3. \A x \in Blocks(heap) : x % Align = 0 /\ End(heap, x) <= HeapSize
    BY DEF HeapInv, Arena
  <2>4. \A x, y \in Blocks(heap) : x < y => End(heap, x) <= y
    BY DEF HeapInv, Arena
  <2>5. \A x \in Blocks(heap) : End(heap', x) <= HeapSize
    BY <2>1, <2>2, <2>3, SizeAssumption
  <2>6. \A x, y \in Blocks(heap) : x < y => End(heap', x) <= y
    BY <2>1, <2>2, <2>4
  <2>7. heap.free \subseteq Blocks(heap) /\ Blocks(heap) \subseteq Nat
    BY DEF HeapInv, Arena
  <2> QED
    BY <1>3, <1>4, <2>3, <2>5, <2>6, <2>7, Zenon DEF Arena
<1>7. Merged(heap')
  BY <1>2, <1>3, <1>5 DEF HeapInv, Merged, Arena
<1>8. cut' \subseteq 0 .. HeapSize - 1
  BY <1>1, <1>2, <1>5, SizeAssumption DEF HeapInv
<1>9. cut \cup Covered(heap) \subseteq cut' \cup Covered(heap')
  <2>1. Bytes(heap, p) \subseteq cut' \cup Bytes(heap', p)
    BY <1>1, <1>2, <1>5 DEF Bytes
  <2>2. \A x \in Blocks(heap) \ {p} : Bytes(heap', x) = Bytes(heap, x)
    BY <1>5 DEF Bytes
  <2> QED
    BY <1>1, <1>4, <2>1, <2>2 DEF Covered
<1>10. Accounted'
  BY <1>6, <1>8, <1>9, CoveredAccounted
<1>11. InUse(heap') = InUse(heap)
  BY <1>3, <1>4 DEF InUse
<1>12. ASSUME Sized PROVE Sized'
  <2>1. need' \in [InUse(heap) -> Nat] /\ need'[p] = n /\ \A x \in InUse(heap) \ {p} : need'[x] = need[x]
    BY <1>1, <1>12 DEF Sized
  <2>2. \A x \in InUse(heap) : heap'.size[x] >= need'[x]
    BY <1>4, <1>12, <2>1 DEF Sized, LargeEnough, InUse
  <2> QED
    BY <1>11, <2>1, <2>2 DEF Sized, LargeEnough
<1> QED
  BY <1>6, <1>7, <1>8, <1>10, <1>11, <1>12 DEF HeapInv

\* A growing realloc keeps the heap sound and exchanges one block for another.
LEMMA GrowKeeps ==
  ASSUME HeapInv, NEW n \in Nat, NEW p, Grow(p, n)
  PROVE  LET a == Min(Fitting(heap, n))
         IN  /\ HeapInv' /\ InUse(heap') = (InUse(heap) \cup {a}) \ {p} /\ a \notin InUse(heap)
             /\ Sized /\ NoWrap(n) => Sized'
<1> DEFINE a == Min(Fitting(heap, n))
           g == Alloc(heap, n)
<1>1. /\ p \in InUse(heap) /\ Fitting(heap, n) # {} /\ heap' = Release(g, p) /\ cut' = cut
      /\ need' = [x \in (InUse(heap) \cup {a}) \ {p} |-> IF x = a THEN n ELSE need[x]]
  BY DEF Grow
<1>2. /\ a \in heap.free /\ Arena(g) /\ InUse(g) = InUse(heap) \cup {a} /\ a \notin InUse(heap)
      /\ g.size[a] >= Rounded(n) /\ \A x \in InUse(heap) : g.size[x] = heap.size[x]
      /\ Covered(g) = Covered(heap)
  BY <1>1, AllocArena DEF HeapInv
<1> HIDE DEF a, g
<1>3. p \in InUse(g)
  BY <1>1, <1>2
<1>4. /\ Arena(heap') /\ Merged(heap') /\ InUse(heap') = InUse(g) \ {p}
      /\ \A x \in InUse(heap') : heap'.size[x] = g.size[x]
      /\ Covered(g) \subseteq Covered(heap')
  BY <1>1, <1>2, <1>3, ReleaseArena
<1>5. Accounted'
  BY <1>1, <1>2, <1>4, CoveredAccounted DEF HeapInv
<1>6. HeapInv'
  BY <1>1, <1>4, <1>5 DEF HeapInv
<1>7. ASSUME Sized, NoWrap(n) PROVE Sized'
  <2>1. Rounded(n) >= n /\ Rounded(n) \in Nat
    BY <1>7, RoundedIs DEF NoWrap
  <2>2. g.size[a] \in Nat
    BY <1>2 DEF Arena, InUse
  <2>3. need' \in [InUse(heap') -> Nat]
    BY <1>1, <1>2, <1>4, <1>7 DEF Sized
  <2>4. ASSUME NEW x \in InUse(heap') PROVE heap'.size[x] >= need'[x]
    <3>1. CASE x = a
      BY <1>1, <1>2, <1>4, <2>1, <2>2, <3>1
    <3>2. CASE x # a
      BY <1>1, <1>2, <1>4, <1>7, <3>2 DEF Sized, LargeEnough
    <3> QED
      BY <3>1, <3>2
  <2> QED
    BY <2>3, <2>4 DEF Sized, LargeEnough
<1> QED
  BY <1>2, <1>4, <1>6, <1>7 DEF a

\* The invariant of the heap implies what the runs check of it.
LEMMA HeapInvImplies == HeapInv => NoOverlap /\ Coalesced /\ Accounted
BY DEF HeapInv, Arena, Merged, NoOverlap, Coalesced
====
