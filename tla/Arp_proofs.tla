---- MODULE Arp_proofs ----
(***************************************************************************)
(* The neighbour table for every size, every set of neighbours and every   *)
(* set of hardware addresses: it has its type, is truthful and forgets a   *)
(* neighbour only when it is full.                                         *)
(***************************************************************************)
EXTENDS Arp, WellFoundedInduction, FiniteSetTheorems, TLAPS

\* The first of a nonempty set of slots is one of them.
LEMMA FirstIn ==
  ASSUME NEW S \in SUBSET ArpSlots, S # {}
  PROVE  First(S) \in S
<1>1. S \in SUBSET Nat
  BY ArpAssumption DEF ArpSlots
<1> DEFINE R == OpToRel(<, Nat)
<1>2. \E i \in S : \A j \in S : ~(<<j, i>> \in R)
  <2>1. IsWellFoundedOn(R, Nat)
    BY NatLessThanWellFounded
  <2> HIDE DEF R
  <2> QED
    BY <1>1, <2>1, WFMin
<1>3. \A i, j \in Nat : j < i => <<j, i>> \in R
  BY DEF OpToRel
<1>4. \E i \in S : \A j \in S : i <= j
  <2> HIDE DEF R
  <2>1. PICK i \in S : \A j \in S : ~(<<j, i>> \in R)
    BY <1>2
  <2>2. ASSUME NEW j \in S PROVE i <= j
    <3>1. i \in Nat /\ j \in Nat
      BY <1>1
    <3>2. ~(j < i)
      BY <2>1, <1>3, <3>1, Zenon
    <3> QED
      BY <3>1, <3>2
  <2> QED
    BY <2>2
<1> QED
  BY <1>4 DEF First

\* arp_store writes a slot of the table: that of the address if it has one, and
\* otherwise one that does not hold another slot's address.
LEMMA StoreSlotIn ==
  ASSUME NEW ip
  PROVE  /\ StoreSlot(ip) \in ArpSlots
         /\ Known(ip) => StoreSlot(ip) \in arp_lookup(ip)
<1>1. arp_lookup(ip) \in SUBSET ArpSlots
  BY DEF arp_lookup
<1>2. CASE Known(ip)
  BY <1>1, <1>2, FirstIn DEF StoreSlot, Known
<1>3. CASE ~Known(ip)
  <2> DEFINE unused == {i \in ArpSlots : ~arp_table[i].valid}
  <2>1. unused # {} => First(unused) \in ArpSlots
    BY FirstIn
  <2>2. 0 \in ArpSlots
    BY ArpAssumption DEF ArpSlots
  <2> QED
    BY <1>3, <2>1, <2>2 DEF StoreSlot
<1> QED
  BY <1>2, <1>3

\* The table keeps its type.
LEMMA TypeStep == ArpTypeOK /\ [ArpNext]_arpvars => ArpTypeOK'
<1> SUFFICES ASSUME ArpTypeOK, [ArpNext]_arpvars PROVE ArpTypeOK'
  OBVIOUS
<1> USE DEF ArpTypeOK
<1>1. ASSUME NEW f \in ArpFrame, arp_receive(f) PROVE ArpTypeOK'
  <2>1. CASE f.good
    <3>1. f.spa \in Neighbours /\ f.sha \in Macs
      BY DEF ArpFrame
    <3>2. [ip |-> f.spa, mac |-> f.sha, valid |-> TRUE] \in Entry
      BY <3>1 DEF Entry
    <3>3. arp_table' = [arp_table EXCEPT ![StoreSlot(f.spa)] = [ip |-> f.spa, mac |-> f.sha, valid |-> TRUE]]
      BY <1>1, <2>1 DEF arp_receive, arp_store
    <3>4. announced' = [announced EXCEPT ![f.spa] = f.sha]
      BY <1>1, <2>1 DEF arp_receive
    <3> QED
      BY <3>1, <3>2, <3>3, <3>4
  <2>2. CASE ~f.good
    BY <1>1, <2>2 DEF arp_receive
  <2> QED
    BY <2>1, <2>2
<1>2. ASSUME NEW n \in Neighbours, arp_resolve(n) PROVE ArpTypeOK'
  BY <1>2 DEF arp_resolve
<1>3. CASE UNCHANGED arpvars
  BY <1>3 DEF arpvars
<1> QED
  BY <1>1, <1>2, <1>3 DEF ArpNext

\* Storing an address overwrites the only slot that holds it, if any, with what
\* its owner announced; every other slot holds another address, whose owner has
\* announced nothing meanwhile.
LEMMA TruthfulStep == ArpTypeOK /\ ArpTruthful /\ [ArpNext]_arpvars => ArpTruthful'
<1> SUFFICES ASSUME ArpTypeOK, ArpTruthful, [ArpNext]_arpvars PROVE ArpTruthful'
  OBVIOUS
<1>1. ASSUME NEW f \in ArpFrame, arp_receive(f) PROVE ArpTruthful'
  <2>1. CASE f.good
    <3> DEFINE s == StoreSlot(f.spa)
               e == [ip |-> f.spa, mac |-> f.sha, valid |-> TRUE]
    <3>1. f.spa \in Neighbours /\ f.sha \in Macs
      BY DEF ArpFrame
    <3>2. s \in ArpSlots /\ (Known(f.spa) => s \in arp_lookup(f.spa))
      BY StoreSlotIn
    <3>3. arp_table' = [arp_table EXCEPT ![s] = e]
      BY <1>1, <2>1 DEF arp_receive, arp_store
    <3>4. announced' = [announced EXCEPT ![f.spa] = f.sha]
      BY <1>1, <2>1 DEF arp_receive
    <3> HIDE DEF s
    <3>5. \A i \in ArpSlots : i # s => arp_table'[i] = arp_table[i]
      BY <3>3 DEF ArpTypeOK
    <3>6. arp_table'[s] = e
      BY <3>2, <3>3 DEF ArpTypeOK
    <3>7. \A i \in ArpSlots : i # s /\ arp_table[i].valid => arp_table[i].ip # f.spa
      BY <3>2 DEF ArpTruthful, Known, arp_lookup
    <3>8. \A n \in Neighbours : n # f.spa => announced'[n] = announced[n]
      BY <3>4 DEF ArpTypeOK
    <3>9. announced'[f.spa] = f.sha
      BY <3>1, <3>4 DEF ArpTypeOK
    <3> QED
      BY <3>1, <3>2, <3>5, <3>6, <3>7, <3>8, <3>9 DEF ArpTruthful
  <2>2. CASE ~f.good
    BY <1>1, <2>2 DEF arp_receive, ArpTruthful
  <2> QED
    BY <2>1, <2>2
<1>2. ASSUME NEW n \in Neighbours, arp_resolve(n) PROVE ArpTruthful'
  BY <1>2 DEF arp_resolve, ArpTruthful
<1>3. CASE UNCHANGED arpvars
  BY <1>3 DEF arpvars, ArpTruthful
<1> QED
  BY <1>1, <1>2, <1>3 DEF ArpNext

\* The table never holds an address twice or a hardware address that its owner
\* has replaced, for a table of every size and any number of neighbours.
THEOREM TableTruthful == ArpSpec => []ArpTruthful
<1>1. ArpInit => ArpTypeOK /\ ArpTruthful
  BY DEF ArpInit, ArpTypeOK, ArpTruthful, Entry, ZeroEntry
<1>2. ArpTypeOK /\ ArpTruthful /\ [ArpNext]_arpvars => (ArpTypeOK /\ ArpTruthful)'
  BY TypeStep, TruthfulStep
<1> QED
  BY <1>1, <1>2, PTL DEF ArpSpec

----
(* Evictions. *)

\* The neighbours that have announced themselves.
Announced == {n \in Neighbours : announced[n] # None}

\* All of them can be resolved, or there are more of them than slots; a used
\* slot holds the address of one of them.
Remembered ==
    /\ IsFiniteSet(Announced)
    /\ (\A n \in Announced : Known(n)) \/ Cardinality(Announced) > ArpTableSize
    /\ \A i \in ArpSlots : arp_table[i].valid => arp_table[i].ip \in Announced

\* A slot that is overwritten with another address was unused or the table full.
LEMMA StoreSlotFree ==
  ASSUME NEW ip, ~Known(ip)
  PROVE  ~arp_table[StoreSlot(ip)].valid \/ \A i \in ArpSlots : arp_table[i].valid
<1> DEFINE unused == {i \in ArpSlots : ~arp_table[i].valid}
<1>1. unused # {} => First(unused) \in unused
  BY FirstIn
<1> QED
  BY <1>1 DEF StoreSlot

\* A full table and a host that is not in it are more hosts than slots.
LEMMA TooMany ==
  ASSUME ArpTruthful, NEW A, IsFiniteSet(A), NEW n \in A, ~Known(n),
         \A i \in ArpSlots : arp_table[i].valid /\ arp_table[i].ip \in A
  PROVE  Cardinality(A) > ArpTableSize
<1> DEFINE B == A \ {n}
           f == [i \in ArpSlots |-> arp_table[i].ip]
<1>1. IsFiniteSet(B) /\ Cardinality(B) = Cardinality(A) - 1 /\ Cardinality(A) \in Nat /\ Cardinality(B) \in Nat
  <2>1. Cardinality(B) = Cardinality(A) - 1 /\ IsFiniteSet(B)
    BY FS_RemoveElement
  <2>2. Cardinality(A) \in Nat
    BY FS_CardinalityType
  <2>3. Cardinality(B) \in Nat
    <3> HIDE DEF B
    <3> QED
      BY <2>1, FS_CardinalityType
  <2> QED
    BY <2>1, <2>2, <2>3
<1>2. \A i \in ArpSlots : arp_table[i].ip \in B
  BY DEF Known, arp_lookup
<1>3. \A i, j \in ArpSlots : arp_table[i].ip = arp_table[j].ip => i = j
  BY DEF ArpTruthful
<1>4. f \in Injection(ArpSlots, B)
  <2>1. f \in [ArpSlots -> B]
    BY <1>2
  <2>2. IsInjective(f)
    BY <1>3 DEF IsInjective
  <2> QED
    BY <2>1, <2>2 DEF Injection
<1>5. Cardinality(ArpSlots) = ArpTableSize /\ ArpTableSize \in Nat
  <2>1. ArpTableSize \in Nat \ {0} /\ ArpTableSize - 1 \in Int /\ 0 \in Int
    BY ArpAssumption
  <2>2. Cardinality(0 .. ArpTableSize - 1) = IF 0 > ArpTableSize - 1 THEN 0 ELSE (ArpTableSize - 1) - 0 + 1
    BY <2>1, FS_Interval, Zenon
  <2> QED
    BY <2>1, <2>2 DEF ArpSlots
<1> HIDE DEF f, B
<1>6. Cardinality(ArpSlots) <= Cardinality(B)
  BY <1>1, <1>4, FS_Injection
<1> QED
  BY <1>1, <1>5, <1>6

\* arp_receive adds its sender to those that have announced themselves.
LEMMA RememberedStep ==
  ASSUME ArpTypeOK, ArpTruthful, Remembered, [ArpNext]_arpvars
  PROVE  Remembered'
<1>1. ASSUME NEW f \in ArpFrame, arp_receive(f), f.good PROVE Remembered'
  <2> DEFINE s == StoreSlot(f.spa)
             e == [ip |-> f.spa, mac |-> f.sha, valid |-> TRUE]
  <2>1. f.spa \in Neighbours /\ f.sha \in Macs /\ f.sha # None
    BY ArpAssumption DEF ArpFrame
  <2>2. s \in ArpSlots /\ (Known(f.spa) => s \in arp_lookup(f.spa))
    BY StoreSlotIn
  <2>3. arp_table' = [arp_table EXCEPT ![s] = e] /\ announced' = [announced EXCEPT ![f.spa] = f.sha]
    BY <1>1 DEF arp_receive, arp_store
  <2>a. ~Known(f.spa) => ~arp_table[s].valid \/ \A i \in ArpSlots : arp_table[i].valid
    BY StoreSlotFree
  <2> HIDE DEF s
  <2>4. Announced' = Announced \cup {f.spa}
    BY <2>1, <2>3 DEF Announced, ArpTypeOK
  <2>5. /\ \A i \in ArpSlots : i # s => arp_table'[i] = arp_table[i]
        /\ arp_table'[s].valid /\ arp_table'[s].ip = f.spa
    BY <2>2, <2>3 DEF ArpTypeOK
  <2>6. IsFiniteSet(Announced') /\ Cardinality(Announced') >= Cardinality(Announced)
        /\ Cardinality(Announced) \in Nat /\ Cardinality(Announced') \in Nat
    <3>1. IsFiniteSet(Announced')
      BY <2>4, FS_AddElement DEF Remembered
    <3>2. Announced \in SUBSET Announced'
      BY <2>4
    <3> QED
      BY <3>1, <3>2, FS_Subset, FS_CardinalityType DEF Remembered
  <2>7. \A i \in ArpSlots : arp_table'[i].valid => arp_table'[i].ip \in Announced'
    BY <2>4, <2>5 DEF Remembered
  <2>8. CASE Cardinality(Announced) > ArpTableSize
    <3>1. Cardinality(Announced') > ArpTableSize
      BY <2>6, <2>8, ArpAssumption
    <3> QED
      BY <2>6, <2>7, <3>1 DEF Remembered
  <2>9. CASE ~(Cardinality(Announced) > ArpTableSize)
    <3>1. \A n \in Announced : Known(n)
      BY <2>9 DEF Remembered
    <3>2. Known(f.spa)'
      BY <2>2, <2>5 DEF Known, arp_lookup
    <3>3. CASE Known(f.spa) \/ ~arp_table[s].valid
      <4>1. arp_table[s].valid => arp_table[s].ip = f.spa
        BY <2>2, <3>3 DEF arp_lookup
      <4>2. ASSUME NEW n \in Announced, n # f.spa PROVE Known(n)'
        <5>1. PICK i \in ArpSlots : arp_table[i].valid /\ arp_table[i].ip = n
          BY <3>1 DEF Known, arp_lookup
        <5>2. i # s
          BY <4>1, <4>2, <5>1
        <5> QED
          BY <2>5, <5>1, <5>2 DEF Known, arp_lookup
      <4>3. \A n \in Announced' : Known(n)'
        BY <2>4, <3>2, <4>2
      <4> QED
        BY <2>6, <2>7, <4>3 DEF Remembered
    <3>4. CASE ~Known(f.spa) /\ \A i \in ArpSlots : arp_table[i].valid
      <4>1. f.spa \in Announced' /\ \A i \in ArpSlots : arp_table[i].valid /\ arp_table[i].ip \in Announced'
        BY <2>4, <3>4 DEF Remembered
      <4>2. Cardinality(Announced') > ArpTableSize
        BY <2>6, <3>4, <4>1, TooMany
      <4> QED
        BY <2>6, <2>7, <4>2 DEF Remembered
    <3> QED
      BY <2>a, <3>3, <3>4
  <2> QED
    BY <2>8, <2>9
<1>2. CASE UNCHANGED <<arp_table, announced>>
  <2>1. Announced' = Announced /\ arp_table' = arp_table
    BY <1>2 DEF Announced
  <2>2. \A n : Known(n)' <=> Known(n)
    BY <2>1 DEF Known, arp_lookup
  <2> QED
    BY <2>1, <2>2 DEF Remembered
<1>3. CASE UNCHANGED arpvars
  BY <1>2, <1>3 DEF arpvars
<1> QED
  BY <1>1, <1>2, <1>3 DEF ArpNext, arp_receive, arp_resolve

\* An empty table is truthful and has forgotten nobody.
LEMMA InitRemembered == ArpInit => ArpTypeOK /\ ArpTruthful /\ Remembered
<1> SUFFICES ASSUME ArpInit PROVE ArpTypeOK /\ ArpTruthful /\ Remembered
  OBVIOUS
<1>1. ArpTypeOK /\ ArpTruthful
  BY DEF ArpInit, ArpTypeOK, ArpTruthful, Entry, ZeroEntry
<1>2. Announced = {} /\ \A i \in ArpSlots : ~arp_table[i].valid
  BY DEF ArpInit, Announced, ZeroEntry
<1> QED
  BY <1>1, <1>2, FS_EmptySet DEF Remembered

\* arp_store evicts only when more hosts than ARP_TABLE_SIZE have announced
\* themselves, in whatever order they come and come again.
THEOREM NeighboursKept == ArpSpec => []NoNeedlessEviction
<1>1. ArpInit => ArpTypeOK /\ ArpTruthful /\ Remembered
  BY InitRemembered
<1>2. ArpTypeOK /\ ArpTruthful /\ Remembered /\ [ArpNext]_arpvars => (ArpTypeOK /\ ArpTruthful /\ Remembered)'
  BY TypeStep, TruthfulStep, RememberedStep
<1>3. Remembered => NoNeedlessEviction
  <2> SUFFICES ASSUME Remembered, Cardinality(Announced) <= ArpTableSize
               PROVE  \A n \in Announced : Known(n)
    BY DEF NoNeedlessEviction, Announced
  <2>1. Cardinality(Announced) \in Nat /\ ArpTableSize \in Nat
    BY FS_CardinalityType, ArpAssumption DEF Remembered
  <2> QED
    BY <2>1 DEF Remembered
<1> QED
  BY <1>1, <1>2, <1>3, PTL DEF ArpSpec
====
