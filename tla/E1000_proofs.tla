---- MODULE E1000_proofs ----
(***************************************************************************)
(* Ring ownership of the e1000 driver, for rings of every size: neither    *)
(* side ever touches a descriptor that the other one owns, and success is  *)
(* reported for transmitted frames only.                                   *)
(***************************************************************************)
EXTENDS E1000, SequenceTheorems, TLAPS

\* (i + 1) % n on a ring of n slots.
LEMMA AfterIs ==
    ASSUME NEW n \in Nat \ {0, 1}, NEW i \in 0 .. n - 1
    PROVE After(i, n) = IF i = n - 1 THEN 0 ELSE i + 1
BY DEF After

\* (i + n - 1) % n on a ring of n slots.
LEMMA BeforeIs ==
    ASSUME NEW n \in Nat \ {0, 1}, NEW i \in 0 .. n - 1
    PROVE Before(i, n) = IF i = 0 THEN n - 1 ELSE i - 1
BY DEF Before

\* Moving the end of a stretch of the ring adds one slot.
LEMMA BetweenGrows ==
    ASSUME NEW n \in Nat \ {0, 1}, NEW h \in 0 .. n - 1, NEW t \in 0 .. n - 1, After(t, n) # h
    PROVE Between(h, After(t, n), n) = Between(h, t, n) \cup {t} /\ t \notin Between(h, t, n)
BY AfterIs DEF Between

\* Moving its start removes one.
LEMMA BetweenShrinks ==
    ASSUME NEW n \in Nat \ {0, 1}, NEW h \in 0 .. n - 1, NEW t \in 0 .. n - 1, h # t
    PROVE Between(After(h, n), t, n) = Between(h, t, n) \ {h} /\ h \in Between(h, t, n)
BY AfterIs DEF Between

\* A stretch that stops one short of a slot does not reach into the one from there.
LEMMA BetweenDisjoint ==
    ASSUME NEW n \in Nat \ {0, 1}, NEW a \in 0 .. n - 1, NEW h \in 0 .. n - 1
    PROVE /\ Between(a, h, n) \cap Between(h, Before(a, n), n) = {}
          /\ h # a => a \notin Between(h, Before(a, n), n)
          /\ Between(a, h, n) \subseteq 0 .. n - 1 /\ Between(a, a, n) = {}
BY BeforeIs DEF Between

----
(* Types. *)

\* e1000_init establishes the types.
LEMMA InitType == Init => TypeOK
BY RingAssumption, FrameAssumption DEF Init, TypeOK, Desc, Empty, RxSlots, TxSlots

\* Every step of the driver and of the device keeps the types: no index
\* leaves its ring.
LEMMA StepType == TypeOK /\ [Next]_vars => TypeOK'
<1> SUFFICES ASSUME TypeOK, [Next]_vars PROVE TypeOK'
  OBVIOUS
<1> USE RingAssumption, FrameAssumption
<1>a. /\ \A i \in RxSlots : After(i, RxCount) \in RxSlots /\ Before(i, RxCount) \in RxSlots
      /\ \A i \in TxSlots : After(i, TxCount) \in TxSlots /\ Before(i, TxCount) \in TxSlots
  BY AfterIs, BeforeIs DEF RxSlots, TxSlots
<1>1. ASSUME NEW f \in Frames, DeviceReceive(f) PROVE TypeOK'
  BY <1>1, <1>a DEF DeviceReceive, TypeOK, Desc, txvars
<1>2. CASE DeviceTransmit
  BY <1>2, <1>a DEF DeviceTransmit, TypeOK, Desc, rxvars
<1>3. CASE PollEmpty \/ PollCopy
  BY <1>3 DEF PollEmpty, PollCopy, Goto, TypeOK, Desc, rxvars, txvars
<1>4. CASE PollClear
  BY <1>4 DEF PollClear, Goto, TypeOK, Desc, txvars
<1>5. CASE PollHandBack
  BY <1>5, <1>a DEF PollHandBack, NewTail, Goto, TypeOK, txvars
<1>6. ASSUME NEW f \in Frames, SendBegin(f) PROVE TypeOK'
  BY <1>6 DEF SendBegin, Goto, TypeOK, rxvars
<1>7. CASE SendFull \/ SendDone \/ SendTimeout \/ SendReturn
  BY <1>7 DEF SendFull, SendDone, SendTimeout, SendReturn, Goto, TypeOK, rxvars, txvars
<1>8. CASE SendFill
  BY <1>8 DEF SendFill, Pending, Goto, TypeOK, Desc, rxvars
<1>9. CASE SendTail
  BY <1>9, <1>a DEF SendTail, Goto, TypeOK, rxvars
<1>10. CASE NextIteration
  BY <1>10 DEF NextIteration, Goto, TypeOK, rxvars, txvars
<1>11. CASE UNCHANGED vars
  BY <1>11 DEF vars, rxvars, txvars, TypeOK
<1> QED
  BY <1>1, <1>2, <1>3, <1>4, <1>5, <1>6, <1>7, <1>8, <1>9, <1>10, <1>11 DEF Next, Driver

\* Indices stay in their rings, in every state.
THEOREM TypeCorrect == Spec => []TypeOK
BY InitType, StepType, PTL DEF Spec

----
(***************************************************************************)
(* The receive ring.  RxOwnership is not inductive by itself: that the     *)
(* device stops before the slot the driver reads follows from RDT always   *)
(* being the slot before rx_head.                                          *)
(***************************************************************************)
RxInv ==
    /\ {i \in RxSlots : rx_desc[i].dd} =
           Between(rx_head, RDH, RxCount) \ (IF pc = "handback" THEN {rx_head} ELSE {})
    /\ RDT = Before(rx_head, RxCount)
    /\ pc \in {"clear", "handback"} => RDH # rx_head

\* The invariant implies ownership.
LEMMA RxInvOwnership == TypeOK /\ RxInv => RxOwnership
BY RingAssumption, BetweenDisjoint DEF TypeOK, RxInv, RxOwnership, RxSlots

\* The receive ring is set up with the invariant.
LEMMA RxInit == Init => RxInv
BY RingAssumption, BeforeIs DEF Init, RxInv, Empty, RxSlots, Between

\* Every step keeps it: the device adds the slot at RDH, the driver removes the
\* one at rx_head, and neither passes the other.
LEMMA RxStep == TypeOK /\ RxInv /\ [Next]_vars => RxInv'
<1> SUFFICES ASSUME TypeOK, RxInv, [Next]_vars PROVE RxInv'
  OBVIOUS
<1> USE RingAssumption
<1>a. rx_head \in 0 .. RxCount - 1 /\ RDH \in 0 .. RxCount - 1 /\ RDT \in 0 .. RxCount - 1
      /\ rx_desc \in [RxSlots -> Desc]
  BY DEF TypeOK, RxSlots
<1>1. ASSUME NEW f \in Frames, DeviceReceive(f) PROVE RxInv'
  <2>1. After(RDH, RxCount) # rx_head
    BY <1>1, <1>a, AfterIs, BeforeIs DEF DeviceReceive, RxInv
  <2>2. Between(rx_head, RDH', RxCount) = Between(rx_head, RDH, RxCount) \cup {RDH}
    BY <1>1, <1>a, <2>1, BetweenGrows DEF DeviceReceive
  <2>3. {i \in RxSlots : rx_desc'[i].dd} = {i \in RxSlots : rx_desc[i].dd} \cup {RDH}
    BY <1>1, <1>a DEF DeviceReceive, RxSlots, Desc
  <2>4. pc = "handback" => RDH # rx_head
    BY DEF RxInv
  <2> QED
    BY <1>1, <2>1, <2>2, <2>3, <2>4 DEF DeviceReceive, RxInv
<1>2. CASE PollCopy
  <2>1. rx_head \in Between(rx_head, RDH, RxCount)
    BY <1>2, <1>a DEF PollCopy, RxInv, RxSlots
  <2>2. RDH # rx_head
    BY <2>1, <1>a, BetweenDisjoint
  <2> QED
    BY <1>2, <2>2 DEF PollCopy, Goto, RxInv, rxvars
<1>3. CASE PollClear
  <2>1. {i \in RxSlots : rx_desc'[i].dd} = {i \in RxSlots : rx_desc[i].dd} \ {rx_head}
    BY <1>3, <1>a DEF PollClear, RxSlots, Desc
  <2> QED
    BY <1>3, <2>1 DEF PollClear, Goto, RxInv
<1>4. CASE PollHandBack
  <2>1. Between(rx_head', RDH, RxCount) = Between(rx_head, RDH, RxCount) \ {rx_head}
    BY <1>4, <1>a, BetweenShrinks DEF PollHandBack, RxInv
  <2> QED
    BY <1>4, <2>1 DEF PollHandBack, NewTail, Goto, RxInv
<1>5. ASSUME UNCHANGED rxvars, pc \notin {"clear", "handback"}, pc' \notin {"clear", "handback"} PROVE RxInv'
  BY <1>5 DEF RxInv, rxvars
<1>6. CASE DeviceTransmit
  BY <1>6 DEF DeviceTransmit, RxInv, rxvars
<1>7. ASSUME NEW f \in Frames, SendBegin(f) PROVE RxInv'
  BY <1>5, <1>7 DEF SendBegin, Goto
<1>8. CASE PollEmpty \/ SendFull \/ SendFill \/ SendTail \/ SendDone \/ SendTimeout \/ SendReturn \/ NextIteration
  BY <1>5, <1>8 DEF PollEmpty, SendFull, SendFill, SendTail, SendDone, SendTimeout, SendReturn, NextIteration, Goto
<1>9. CASE UNCHANGED vars
  BY <1>9 DEF vars, rxvars, RxInv
<1> QED
  BY <1>1, <1>2, <1>3, <1>4, <1>6, <1>7, <1>8, <1>9 DEF Next, Driver

\* DD marks exactly the unread frames and the device never owns the slot the
\* driver reads: no received frame is overwritten, lost or read twice.
THEOREM RxSafe == Spec => []RxOwnership
BY RxInit, RxStep, RxInvOwnership, TypeCorrect, PTL DEF Spec

----
(***************************************************************************)
(* The transmit ring.  What the driver checked against may be stale, so    *)
(* the invariant keeps the current head between the head read and the tail *)
(* and follows the frame in hand from its slot to the wire.                *)
(***************************************************************************)
TxInv ==
    /\ tx_tail = TDT
    /\ \A i \in Between(TDH, TDT, TxCount) : ~tx_desc[i].dd /\ tx_desc[i].frame # NoFrame
    /\ pc \in {"check", "tail", "wait", "sent"} => frame \in Frames
    /\ pc = "check" => TDH \in Between(tx_head, TDT, TxCount) \cup {TDT}
    /\ pc = "tail" => After(tx_tail, TxCount) # TDH /\ tx_desc[tx_tail] = Pending(frame)
    /\ pc = "wait" => LET d == tx_desc[Before(tx_tail, TxCount)]
                      IN  d.frame = frame /\ (d.dd => TDH = TDT /\ sent = frame)
    /\ pc = "sent" => TDH = TDT /\ sent = frame

\* The invariant implies ownership and the meaning of success.
LEMMA TxInvImplies == TypeOK /\ TxInv => TxOwnership /\ SuccessMeansSent
<1> SUFFICES ASSUME TypeOK, TxInv PROVE TxOwnership /\ SuccessMeansSent
  OBVIOUS
<1>1. TDT \notin Between(TDH, TDT, TxCount)
  BY RingAssumption DEF TypeOK, TxSlots, Between
<1> QED
  BY <1>1 DEF TxInv, TxOwnership, SuccessMeansSent

\* The transmit ring is set up with the invariant.
LEMMA TxInit == Init => TxInv
BY RingAssumption DEF Init, TxInv, Between

\* Every step keeps it: the device sends the slot at TDH, the driver fills the
\* one at tx_tail, which the device does not own.
LEMMA TxStep == TypeOK /\ TxInv /\ [Next]_vars => TxInv'
<1> SUFFICES ASSUME TypeOK, TxInv, [Next]_vars PROVE TxInv'
  OBVIOUS
<1> USE RingAssumption
<1>a. /\ tx_tail \in 0 .. TxCount - 1 /\ TDH \in 0 .. TxCount - 1 /\ TDT \in 0 .. TxCount - 1
      /\ tx_head \in 0 .. TxCount - 1 /\ tx_desc \in [TxSlots -> Desc] /\ tx_tail = TDT
      /\ TxSlots = 0 .. TxCount - 1
  BY DEF TypeOK, TxSlots, TxInv
<1>1. CASE DeviceTransmit
  <2>1. /\ Between(TDH', TDT, TxCount) = Between(TDH, TDT, TxCount) \ {TDH}
        /\ TDH \in Between(TDH, TDT, TxCount)
    BY <1>1, <1>a, BetweenShrinks DEF DeviceTransmit
  <2>2. Between(TDH, TDT, TxCount) \subseteq TxSlots
    BY <1>a, BetweenDisjoint
  <2>3. \A i \in Between(TDH', TDT, TxCount) : ~tx_desc'[i].dd /\ tx_desc'[i].frame # NoFrame
    BY <1>1, <1>a, <2>1, <2>2 DEF DeviceTransmit, TxInv, Desc
  <2>4. ASSUME pc = "check" PROVE TDH' \in Between(tx_head, TDT, TxCount) \cup {TDT}
    BY <1>1, <1>a, <2>4, AfterIs DEF DeviceTransmit, TxInv, Between
  <2>5. ASSUME pc = "tail" PROVE After(tx_tail, TxCount) # TDH' /\ tx_desc'[tx_tail] = Pending(frame)
    <3>1. TDH # tx_tail
      BY <1>1, <1>a DEF DeviceTransmit
    <3>2. After(tx_tail, TxCount) # TDH'
      BY <1>1, <1>a, <3>1, AfterIs DEF DeviceTransmit
    <3> QED
      BY <1>1, <1>a, <2>5, <3>1, <3>2 DEF DeviceTransmit, TxInv
  <2>6. ASSUME pc = "wait"
        PROVE LET d == tx_desc'[Before(tx_tail, TxCount)]
              IN  d.frame = frame /\ (d.dd => TDH' = TDT /\ sent' = frame)
    <3>1. Before(tx_tail, TxCount) \in TxSlots
      BY <1>a, BeforeIs
    <3>2. ~tx_desc[Before(tx_tail, TxCount)].dd
      BY <1>1, <2>6 DEF DeviceTransmit, TxInv
    <3>3. CASE TDH = Before(tx_tail, TxCount)
      <4>1. TDH' = TDT
        BY <1>1, <1>a, <3>3, AfterIs, BeforeIs DEF DeviceTransmit
      <4> QED
        BY <1>1, <1>a, <2>6, <3>1, <3>3, <4>1 DEF DeviceTransmit, TxInv, Desc
    <3>4. CASE TDH # Before(tx_tail, TxCount)
      BY <1>1, <1>a, <2>6, <3>1, <3>2, <3>4 DEF DeviceTransmit, TxInv
    <3> QED
      BY <3>3, <3>4
  <2>7. pc # "sent"
    BY <1>1 DEF DeviceTransmit, TxInv
  <2> QED
    BY <1>1, <2>3, <2>4, <2>5, <2>6, <2>7 DEF DeviceTransmit, TxInv, Pending
<1>2. ASSUME NEW f \in Frames, SendBegin(f) PROVE TxInv'
  <2>1. TDH \in Between(TDH, TDT, TxCount) \cup {TDT}
    BY <1>a DEF Between
  <2> QED
    BY <1>2, <2>1 DEF SendBegin, Goto, TxInv
<1>3. CASE SendFill
  <2>1. After(tx_tail, TxCount) # TDH
    BY <1>3, <1>a, AfterIs DEF SendFill, RingFull, TxInv, Between
  <2>2. tx_tail \notin Between(TDH, TDT, TxCount) /\ Between(TDH, TDT, TxCount) \subseteq TxSlots
    BY <1>a DEF Between
  <2>3. tx_desc'[tx_tail] = Pending(frame) /\ \A i \in TxSlots \ {tx_tail} : tx_desc'[i] = tx_desc[i]
    BY <1>3, <1>a DEF SendFill
  <2> QED
    BY <1>3, <2>1, <2>2, <2>3 DEF SendFill, Goto, TxInv, Pending
<1>4. CASE SendTail
  <2>1. Between(TDH, TDT', TxCount) = Between(TDH, TDT, TxCount) \cup {TDT}
    BY <1>4, <1>a, BetweenGrows DEF SendTail, TxInv
  <2>2. Before(tx_tail', TxCount) = tx_tail
    BY <1>4, <1>a, AfterIs, BeforeIs DEF SendTail
  <2>3. tx_desc[tx_tail].frame = frame /\ frame # NoFrame /\ ~tx_desc[tx_tail].dd /\ frame \in Frames
    BY <1>4, FrameAssumption DEF SendTail, TxInv, Pending
  <2> QED
    BY <1>4, <1>a, <2>1, <2>2, <2>3 DEF SendTail, Goto, TxInv
<1>5. CASE SendDone
  BY <1>5 DEF SendDone, Goto, TxInv, txvars
<1>6. ASSUME NEW f \in Frames, DeviceReceive(f) PROVE TxInv'
  BY <1>6 DEF DeviceReceive, TxInv, txvars, Pending
<1>7. CASE PollEmpty \/ PollCopy \/ PollClear \/ PollHandBack \/ SendFull \/ SendTimeout \/ SendReturn \/ NextIteration
  BY <1>7 DEF PollEmpty, PollCopy, PollClear, PollHandBack, SendFull, SendTimeout, SendReturn,
              NextIteration, Goto, TxInv, txvars
<1>8. CASE UNCHANGED vars
  BY <1>8 DEF vars, txvars, TxInv, Pending
<1> QED
  BY <1>1, <1>2, <1>3, <1>4, <1>5, <1>6, <1>7, <1>8 DEF Next, Driver

\* The driver never writes a slot the device owns, although the head it checked
\* may be stale, and the tail never catches up with the head.
THEOREM TxSafe == Spec => []TxOwnership
BY TxInit, TxStep, TxInvImplies, TypeCorrect, PTL DEF Spec

\* e1000_send_packet reports success only for a frame that is on the wire.
THEOREM SuccessSafe == Spec => []SuccessMeansSent
BY TxInit, TxStep, TxInvImplies, TypeCorrect, PTL DEF Spec

----
(***************************************************************************)
(* The rings as queues.  A stretch of the ring, read from its head to its  *)
(* tail, is a sequence; moving the tail appends to it and moving the head  *)
(* takes its tail.                                                         *)
(***************************************************************************)
Dist(h, t, n) == IF h <= t THEN t - h ELSE t - h + n
Slot(h, k, n) == IF h + k - 1 < n THEN h + k - 1 ELSE h + k - 1 - n

\* The wrap-around arithmetic of the rings, without the remainder.
LEMMA RingArithmetic ==
    ASSUME NEW n \in Nat \ {0, 1}, NEW h \in 0 .. n - 1, NEW t \in 0 .. n - 1
    PROVE  /\ (t - h) % n = Dist(h, t, n) /\ Dist(h, t, n) \in 0 .. n - 1
           /\ \A k \in 1 .. n : (h + k - 1) % n = Slot(h, k, n) /\ Slot(h, k, n) \in 0 .. n - 1
<1>1. (t - h) % n = Dist(h, t, n)
  BY DEF Dist
<1>2. Dist(h, t, n) \in 0 .. n - 1
  BY DEF Dist
<1>3. ASSUME NEW k \in 1 .. n PROVE (h + k - 1) % n = Slot(h, k, n) /\ Slot(h, k, n) \in 0 .. n - 1
  BY DEF Slot
<1> QED
  BY <1>1, <1>2, <1>3

\* The slots of a stretch, one after the other, and how they move with its ends.
LEMMA RingSlots ==
    ASSUME NEW n \in Nat \ {0, 1}, NEW h \in 0 .. n - 1, NEW t \in 0 .. n - 1
    PROVE  /\ \A k \in 1 .. Dist(h, t, n) : Slot(h, k, n) \in Between(h, t, n)
           /\ After(t, n) # h => /\ Dist(h, After(t, n), n) = Dist(h, t, n) + 1
                                 /\ Slot(h, Dist(h, t, n) + 1, n) = t
                                 /\ Dist(h, t, n) < n - 1
           /\ h # t => /\ Dist(After(h, n), t, n) = Dist(h, t, n) - 1
                       /\ Dist(h, t, n) >= 1 /\ Slot(h, 1, n) = h
                       /\ \A k \in 1 .. Dist(h, t, n) - 1 : Slot(After(h, n), k, n) = Slot(h, k + 1, n)
<1>1. After(t, n) = (IF t = n - 1 THEN 0 ELSE t + 1) /\ After(h, n) = (IF h = n - 1 THEN 0 ELSE h + 1)
  BY AfterIs
<1>2. ASSUME NEW k \in 1 .. Dist(h, t, n) PROVE Slot(h, k, n) \in Between(h, t, n)
  <2>1. CASE h <= t
    BY <2>1 DEF Dist, Slot, Between
  <2>2. CASE ~(h <= t)
    BY <2>2 DEF Dist, Slot, Between
  <2> QED
    BY <2>1, <2>2
<1>3. ASSUME After(t, n) # h
      PROVE  /\ Dist(h, After(t, n), n) = Dist(h, t, n) + 1
             /\ Slot(h, Dist(h, t, n) + 1, n) = t
             /\ Dist(h, t, n) < n - 1
  BY <1>1, <1>3 DEF Dist, Slot
<1>4. ASSUME h # t
      PROVE  /\ Dist(After(h, n), t, n) = Dist(h, t, n) - 1
             /\ Dist(h, t, n) >= 1 /\ Slot(h, 1, n) = h
  BY <1>1, <1>4 DEF Dist, Slot
<1>5. ASSUME h # t, NEW k \in 1 .. Dist(h, t, n) - 1 PROVE Slot(After(h, n), k, n) = Slot(h, k + 1, n)
  BY <1>1, <1>5 DEF Dist, Slot
<1> QED
  BY <1>2, <1>3, <1>4, <1>5

\* A stretch of a ring as a sequence: its length and its elements.
LEMMA RingSeqIs ==
    ASSUME NEW n \in Nat \ {0, 1}, NEW h \in 0 .. n - 1, NEW t \in 0 .. n - 1,
           NEW desc \in [0 .. n - 1 -> Desc]
    PROVE  /\ RingSeq(desc, h, t, n) \in Seq(Frames \cup {NoFrame})
           /\ Len(RingSeq(desc, h, t, n)) = Dist(h, t, n)
           /\ \A k \in 1 .. Dist(h, t, n) : RingSeq(desc, h, t, n)[k] = desc[Slot(h, k, n)].frame
<1> DEFINE d == Dist(h, t, n)
<1>1. d \in 0 .. n - 1 /\ RingSeq(desc, h, t, n) = [k \in 1 .. d |-> desc[(h + k - 1) % n].frame]
  BY RingArithmetic DEF RingSeq
<1>2. \A k \in 1 .. d : /\ desc[(h + k - 1) % n].frame = desc[Slot(h, k, n)].frame
                         /\ desc[Slot(h, k, n)].frame \in Frames \cup {NoFrame}
  <2> SUFFICES ASSUME NEW k \in 1 .. d
               PROVE  /\ desc[(h + k - 1) % n].frame = desc[Slot(h, k, n)].frame
                      /\ desc[Slot(h, k, n)].frame \in Frames \cup {NoFrame}
    OBVIOUS
  <2>1. k \in 1 .. n
    BY <1>1
  <2>2. (h + k - 1) % n = Slot(h, k, n) /\ Slot(h, k, n) \in 0 .. n - 1
    BY <2>1, RingArithmetic
  <2> QED
    BY <2>2 DEF Desc
<1> HIDE DEF d
<1>3. [k \in 1 .. d |-> desc[(h + k - 1) % n].frame] = [k \in 1 .. d |-> desc[Slot(h, k, n)].frame]
  BY <1>2
<1>4. [k \in 1 .. d |-> desc[Slot(h, k, n)].frame] \in Seq(Frames \cup {NoFrame})
  BY <1>1, <1>2
<1>5. Len([k \in 1 .. d |-> desc[Slot(h, k, n)].frame]) = d
  BY <1>1
<1> QED
  BY <1>1, <1>3, <1>4, <1>5 DEF d

\* Writing frames outside the stretch, or only status bits, leaves the sequence.
LEMMA RingSame ==
    ASSUME NEW n \in Nat \ {0, 1}, NEW h \in 0 .. n - 1, NEW t \in 0 .. n - 1,
           NEW desc \in [0 .. n - 1 -> Desc], NEW new \in [0 .. n - 1 -> Desc],
           \A i \in Between(h, t, n) : new[i].frame = desc[i].frame
    PROVE  RingSeq(new, h, t, n) = RingSeq(desc, h, t, n)
<1>1. \A k \in 1 .. Dist(h, t, n) : new[Slot(h, k, n)].frame = desc[Slot(h, k, n)].frame
  BY RingSlots
<1> DEFINE q == RingSeq(desc, h, t, n)
           r == RingSeq(new, h, t, n)
           F == Frames \cup {NoFrame}
<1>2. /\ q \in Seq(F) /\ Len(q) = Dist(h, t, n)
      /\ \A k \in 1 .. Dist(h, t, n) : q[k] = desc[Slot(h, k, n)].frame
  BY RingSeqIs, Zenon
<1>3. /\ r \in Seq(F) /\ Len(r) = Dist(h, t, n)
      /\ \A k \in 1 .. Dist(h, t, n) : r[k] = new[Slot(h, k, n)].frame
  BY RingSeqIs, Zenon
<1> HIDE DEF q, r, F
<1>4. \A k \in 1 .. Len(r) : r[k] = q[k]
  BY <1>1, <1>2, <1>3, Zenon
<1>5. r = q
  BY <1>2, <1>3, <1>4, SeqEqual, Zenon
<1> QED
  BY <1>5 DEF q, r

\* Moving the tail over a slot appends its frame.
LEMMA RingAppend ==
    ASSUME NEW n \in Nat \ {0, 1}, NEW h \in 0 .. n - 1, NEW t \in 0 .. n - 1, After(t, n) # h,
           NEW desc \in [0 .. n - 1 -> Desc], NEW new \in [0 .. n - 1 -> Desc],
           \A i \in Between(h, t, n) : new[i].frame = desc[i].frame
    PROVE  RingSeq(new, h, After(t, n), n) = Append(RingSeq(desc, h, t, n), new[t].frame)
<1> DEFINE q == RingSeq(desc, h, t, n)
           r == RingSeq(new, h, After(t, n), n)
           d == Dist(h, t, n)
           F == Frames \cup {NoFrame}
<1>1. After(t, n) \in 0 .. n - 1
  BY AfterIs
<1>0. d \in Nat
  BY RingArithmetic
<1>2. q \in Seq(F) /\ Len(q) = d /\ \A k \in 1 .. d : q[k] = desc[Slot(h, k, n)].frame
  BY RingSeqIs, Zenon
<1>a. Dist(h, After(t, n), n) = d + 1 /\ Slot(h, d + 1, n) = t
  BY RingSlots
<1>b. \A k \in 1 .. d : Slot(h, k, n) \in Between(h, t, n)
  BY RingSlots, Zenon
<1>3. /\ r \in Seq(F) /\ Len(r) = d + 1
      /\ \A k \in 1 .. d + 1 : r[k] = new[Slot(h, k, n)].frame
  <2>1. /\ r \in Seq(F) /\ Len(r) = Dist(h, After(t, n), n)
        /\ \A k \in 1 .. Dist(h, After(t, n), n) : r[k] = new[Slot(h, k, n)].frame
    BY <1>1, RingSeqIs, Zenon
  <2> QED
    BY <1>a, <2>1, Zenon
<1>4. \A k \in 1 .. d : r[k] = q[k]
  <2>1. \A k \in 1 .. d : k \in 1 .. d + 1
    BY <1>0
  <2> QED
    BY <1>2, <1>3, <1>b, <2>1, Zenon
<1>5. r[d + 1] = new[t].frame /\ new[t].frame \in F
  <2>1. d + 1 \in 1 .. d + 1
    BY <1>0
  <2>2. r[d + 1] = new[t].frame
    BY <1>3, <1>a, <2>1, Zenon
  <2>3. new[t].frame \in F
    BY DEF Desc
  <2> QED
    BY <2>2, <2>3
<1> HIDE DEF q, r, d, F
<1>6. ASSUME NEW x \in F
      PROVE  /\ Append(q, x) \in Seq(F) /\ Len(Append(q, x)) = d + 1
             /\ \A k \in 1 .. d + 1 : Append(q, x)[k] = IF k = d + 1 THEN x ELSE q[k]
  BY <1>0, <1>2
<1>7. \A k \in 1 .. d + 1 : r[k] = Append(q, new[t].frame)[k]
  <2>1. \A k \in 1 .. d + 1 : k = d + 1 \/ k \in 1 .. d
    BY <1>0
  <2> QED
    BY <1>4, <1>5, <1>6, <2>1, Zenon
<1>8. r = Append(q, new[t].frame)
  <2>1. r \in Seq(F) /\ Append(q, new[t].frame) \in Seq(F)
    BY <1>3, <1>5, <1>6, Zenon
  <2>2. Len(r) = d + 1 /\ Len(Append(q, new[t].frame)) = d + 1
    BY <1>3, <1>5, <1>6, Zenon
  <2>3. \A k \in 1 .. Len(r) : r[k] = Append(q, new[t].frame)[k]
    BY <1>7, <2>2, Zenon
  <2>4. Len(r) = Len(Append(q, new[t].frame))
    BY <2>2, Zenon
  <2> QED
    BY <2>1, <2>3, <2>4, SeqEqual, ZenonT(30)
<1> QED
  BY <1>8 DEF q, r

\* Moving the head over a slot takes its frame off.
LEMMA RingTail ==
    ASSUME NEW n \in Nat \ {0, 1}, NEW h \in 0 .. n - 1, NEW t \in 0 .. n - 1, h # t,
           NEW desc \in [0 .. n - 1 -> Desc]
    PROVE  /\ RingSeq(desc, h, t, n) # <<>>
           /\ Head(RingSeq(desc, h, t, n)) = desc[h].frame
           /\ RingSeq(desc, After(h, n), t, n) = Tail(RingSeq(desc, h, t, n))
<1> DEFINE q == RingSeq(desc, h, t, n)
           r == RingSeq(desc, After(h, n), t, n)
           d == Dist(h, t, n)
           F == Frames \cup {NoFrame}
<1>1. After(h, n) \in 0 .. n - 1
  BY AfterIs
<1>0. d \in Nat
  BY RingArithmetic
<1>2. q \in Seq(F) /\ Len(q) = d /\ \A k \in 1 .. d : q[k] = desc[Slot(h, k, n)].frame
  BY RingSeqIs, Zenon
<1>a. Dist(After(h, n), t, n) = d - 1
  BY RingSlots, Zenon
<1>3. /\ r \in Seq(F) /\ Len(r) = d - 1
      /\ \A k \in 1 .. d - 1 : r[k] = desc[Slot(After(h, n), k, n)].frame
  <2>1. /\ r \in Seq(F) /\ Len(r) = Dist(After(h, n), t, n)
        /\ \A k \in 1 .. Dist(After(h, n), t, n) : r[k] = desc[Slot(After(h, n), k, n)].frame
    BY <1>1, RingSeqIs, Zenon
  <2> QED
    BY <1>a, <2>1, Zenon
<1>4. d >= 1 /\ \A k \in 1 .. d - 1 : Slot(After(h, n), k, n) = Slot(h, k + 1, n)
  BY RingSlots
<1>5. q[1] = desc[h].frame
  <2>1. 1 \in 1 .. d
    BY <1>0, <1>4
  <2>2. Slot(h, 1, n) = h
    BY RingSlots, Zenon
  <2> QED
    BY <1>2, <2>1, <2>2, Zenon
<1> HIDE DEF q, r, d, F
<1>6. q # <<>> /\ Head(q) = q[1]
  BY <1>0, <1>2, <1>4
<1>7. Tail(q) \in Seq(F) /\ Len(Tail(q)) = d - 1 /\ \A k \in 1 .. d - 1 : Tail(q)[k] = q[k + 1]
  <2>1. Tail(q) \in Seq(F) /\ Len(Tail(q)) = Len(q) - 1 /\ \A k \in 1 .. Len(Tail(q)) : Tail(q)[k] = q[k + 1]
    BY <1>2, <1>6, HeadTailProperties, Zenon
  <2> QED
    BY <1>2, <2>1, Zenon
<1>8. \A k \in 1 .. d - 1 : k + 1 \in 1 .. d
  BY <1>0
<1>9. \A k \in 1 .. d - 1 : r[k] = Tail(q)[k]
  BY <1>2, <1>3, <1>4, <1>7, <1>8, Zenon
<1>10. r = Tail(q)
  <2>1. r \in Seq(F) /\ Tail(q) \in Seq(F)
    BY <1>3, <1>7, Zenon
  <2>2. Len(r) = d - 1 /\ Len(Tail(q)) = d - 1
    BY <1>3, <1>7, Zenon
  <2>3. \A k \in 1 .. Len(r) : r[k] = Tail(q)[k]
    BY <1>9, <2>2, Zenon
  <2>4. Len(r) = Len(Tail(q))
    BY <2>2, Zenon
  <2> QED
    BY <2>1, <2>3, <2>4, SeqEqual, ZenonT(30)
<1> QED
  BY <1>5, <1>6, <1>10 DEF q, r

\* The frame that is being handed to the loop is the one at rx_head.
CopyInv == pc \in {"clear", "handback"} => frame = rx_desc[rx_head].frame

\* The device never overwrites a frame between its copy and the move of rx_head.
LEMMA CopyStep == TypeOK /\ RxInv /\ CopyInv /\ [Next]_vars => CopyInv'
<1> SUFFICES ASSUME TypeOK, RxInv, CopyInv, [Next]_vars PROVE CopyInv'
  OBVIOUS
<1>a. rx_head \in RxSlots /\ rx_desc \in [RxSlots -> Desc]
  BY DEF TypeOK
<1>1. ASSUME NEW f \in Frames, DeviceReceive(f) PROVE CopyInv'
  BY <1>1, <1>a DEF DeviceReceive, RxInv, CopyInv
<1>2. CASE PollClear
  BY <1>2, <1>a DEF PollClear, Goto, CopyInv, Desc
<1>3. CASE PollCopy
  BY <1>3 DEF PollCopy, Goto, CopyInv, rxvars
<1>4. CASE DeviceTransmit
  BY <1>4 DEF DeviceTransmit, CopyInv, rxvars
<1>5. ASSUME NEW f \in Frames, SendBegin(f) PROVE CopyInv'
  BY <1>5 DEF SendBegin, Goto, CopyInv
<1>6. CASE PollEmpty \/ PollHandBack \/ SendFull \/ SendFill \/ SendTail \/ SendDone \/ SendTimeout \/ SendReturn
           \/ NextIteration
  BY <1>6 DEF PollEmpty, PollHandBack, SendFull, SendFill, SendTail, SendDone, SendTimeout, SendReturn,
              NextIteration, Goto, CopyInv
<1>7. CASE UNCHANGED vars
  BY <1>7 DEF vars, rxvars, CopyInv
<1> QED
  BY <1>1, <1>2, <1>3, <1>4, <1>5, <1>6, <1>7 DEF Next, Driver

\* The queues the rings stand for.
TxQueue == RingSeq(tx_desc, TDH, TDT, TxCount)
RxQueue == RingSeq(rx_desc, rx_head, RDH, RxCount)

\* Every access of the driver or the device to a ring is one operation of a
\* queue or none.
LEMMA QueueStep ==
    ASSUME TypeOK, TypeOK', RxInv, TxInv, CopyInv, [Next]_vars
    PROVE  \/ Queues!Next
           \/ UNCHANGED <<TxQueue, RxQueue, sent, delivered>>
<1> USE RingAssumption
<1>a. /\ rx_head \in 0 .. RxCount - 1 /\ RDH \in 0 .. RxCount - 1 /\ rx_desc \in [0 .. RxCount - 1 -> Desc]
      /\ rx_desc' \in [0 .. RxCount - 1 -> Desc]
  BY DEF TypeOK, RxSlots
<1>b. /\ TDH \in 0 .. TxCount - 1 /\ TDT \in 0 .. TxCount - 1 /\ tx_desc \in [0 .. TxCount - 1 -> Desc]
      /\ tx_desc' \in [0 .. TxCount - 1 -> Desc]
  BY DEF TypeOK, TxSlots
<1>c. Between(rx_head, RDH, RxCount) \subseteq 0 .. RxCount - 1 /\ RDH \notin Between(rx_head, RDH, RxCount)
  BY <1>a DEF Between
<1>d. Between(TDH, TDT, TxCount) \subseteq 0 .. TxCount - 1 /\ TDT \notin Between(TDH, TDT, TxCount)
  BY <1>b DEF Between
<1>1. ASSUME NEW f \in Frames, DeviceReceive(f) PROVE Queues!Arrive(f)
  <2>1. UNCHANGED TxQueue /\ UNCHANGED <<rx_head, sent, delivered>>
    BY <1>1 DEF DeviceReceive, TxQueue, txvars
  <2>2. After(RDH, RxCount) # rx_head
    BY <1>1, <1>a, AfterIs, BeforeIs DEF DeviceReceive, RxInv
  <2>3. \A i \in Between(rx_head, RDH, RxCount) : rx_desc'[i].frame = rx_desc[i].frame
    BY <1>1, <1>a, <1>c DEF DeviceReceive
  <2>4. rx_desc'[RDH].frame = f
    BY <1>1, <1>a DEF DeviceReceive
  <2>5. RingSeq(rx_desc', rx_head, After(RDH, RxCount), RxCount) = Append(RxQueue, rx_desc'[RDH].frame)
    BY <1>a, <2>2, <2>3, RingAppend, Zenon DEF RxQueue
  <2>6. Len(RxQueue) < RxCount - 1
    <3>1. Len(RxQueue) = Dist(rx_head, RDH, RxCount)
      BY <1>a, RingSeqIs, Zenon DEF RxQueue
    <3>2. Dist(rx_head, RDH, RxCount) < RxCount - 1
      BY <1>a, <2>2, RingSlots
    <3> QED
      BY <3>1, <3>2
  <2>7. RxQueue' = Append(RxQueue, f)
    BY <1>1, <2>1, <2>4, <2>5 DEF DeviceReceive, RxQueue
  <2> QED
    BY <2>1, <2>6, <2>7, Zenon DEF Queues!Arrive, TxQueue, RxQueue
<1>2. CASE DeviceTransmit
  <2>1. UNCHANGED RxQueue /\ UNCHANGED <<TDT, delivered>>
    BY <1>2 DEF DeviceTransmit, RxQueue, rxvars
  <2>2. \A i \in 0 .. TxCount - 1 : tx_desc'[i].frame = tx_desc[i].frame
    BY <1>2, <1>b DEF DeviceTransmit, Desc
  <2>3. /\ TxQueue # <<>> /\ Head(TxQueue) = tx_desc[TDH].frame
        /\ RingSeq(tx_desc, After(TDH, TxCount), TDT, TxCount) = Tail(TxQueue)
    <3>1. TDH # TDT
      BY <1>2 DEF DeviceTransmit
    <3> QED
      BY <1>b, <3>1, RingTail, Zenon DEF TxQueue
  <2>4. After(TDH, TxCount) \in 0 .. TxCount - 1
    BY <1>b, AfterIs
  <2>5. Between(After(TDH, TxCount), TDT, TxCount) \subseteq 0 .. TxCount - 1
    BY <1>b, <2>4 DEF Between
  <2>6. RingSeq(tx_desc', After(TDH, TxCount), TDT, TxCount) = RingSeq(tx_desc, After(TDH, TxCount), TDT, TxCount)
    <3>1. \A i \in Between(After(TDH, TxCount), TDT, TxCount) : tx_desc'[i].frame = tx_desc[i].frame
      BY <2>2, <2>5, Zenon
    <3> QED
      BY <1>b, <2>4, <3>1, RingSame, Zenon
  <2>7. TxQueue' = Tail(TxQueue) /\ sent' = Head(TxQueue)
    BY <1>2, <2>1, <2>3, <2>6 DEF DeviceTransmit, TxQueue
  <2> QED
    BY <2>1, <2>3, <2>7, Zenon DEF Queues!Next, Queues!Transmit, TxQueue, RxQueue
<1>3. CASE PollHandBack
  <2>1. UNCHANGED TxQueue /\ UNCHANGED <<rx_desc, RDH, sent>>
    BY <1>3 DEF PollHandBack, TxQueue, txvars
  <2>2. rx_head # RDH /\ frame = rx_desc[rx_head].frame
    BY <1>3 DEF PollHandBack, RxInv, CopyInv
  <2>3. /\ RxQueue # <<>> /\ Head(RxQueue) = rx_desc[rx_head].frame
        /\ RingSeq(rx_desc, After(rx_head, RxCount), RDH, RxCount) = Tail(RxQueue)
    BY <1>a, <2>2, RingTail, Zenon DEF RxQueue
  <2>4. RxQueue' = Tail(RxQueue) /\ delivered' = Head(RxQueue)
    BY <1>3, <2>1, <2>2, <2>3 DEF PollHandBack, RxQueue
  <2> QED
    BY <2>1, <2>3, <2>4, Zenon DEF Queues!Next, Queues!Deliver, TxQueue, RxQueue
<1>4. CASE PollClear
  <2>1. \A i \in 0 .. RxCount - 1 : rx_desc'[i].frame = rx_desc[i].frame
    BY <1>4, <1>a DEF PollClear, Desc
  <2>2. RingSeq(rx_desc', rx_head, RDH, RxCount) = RingSeq(rx_desc, rx_head, RDH, RxCount)
    <3>1. \A i \in Between(rx_head, RDH, RxCount) : rx_desc'[i].frame = rx_desc[i].frame
      BY <1>c, <2>1, Zenon
    <3> QED
      BY <1>a, <3>1, RingSame, Zenon
  <2> QED
    BY <1>4, <2>2 DEF PollClear, TxQueue, RxQueue, txvars
<1>5. CASE SendFill
  <2>1. \A i \in Between(TDH, TDT, TxCount) : tx_desc'[i].frame = tx_desc[i].frame
    BY <1>5, <1>b, <1>d DEF SendFill, TxInv
  <2>2. RingSeq(tx_desc', TDH, TDT, TxCount) = RingSeq(tx_desc, TDH, TDT, TxCount)
    BY <1>b, <2>1, RingSame
  <2> QED
    BY <1>5, <2>2 DEF SendFill, TxQueue, RxQueue, rxvars
<1>6. CASE SendTail
  <2>1. UNCHANGED RxQueue /\ UNCHANGED <<tx_desc, TDH, sent, delivered>>
    BY <1>6 DEF SendTail, RxQueue, rxvars
  <2>2. tx_tail = TDT /\ After(TDT, TxCount) # TDH /\ frame \in Frames /\ tx_desc[TDT].frame = frame
    BY <1>6 DEF SendTail, TxInv, Pending
  <2>3. RingSeq(tx_desc, TDH, After(TDT, TxCount), TxCount) = Append(TxQueue, tx_desc[TDT].frame)
    BY <1>b, <2>2, RingAppend, Zenon DEF TxQueue
  <2>4. Len(TxQueue) < TxCount - 1
    <3>1. Len(TxQueue) = Dist(TDH, TDT, TxCount)
      BY <1>b, RingSeqIs, Zenon DEF TxQueue
    <3>2. Dist(TDH, TDT, TxCount) < TxCount - 1
      BY <1>b, <2>2, RingSlots
    <3> QED
      BY <3>1, <3>2
  <2>5. TxQueue' = Append(TxQueue, frame)
    BY <1>6, <2>1, <2>2, <2>3 DEF SendTail, TxQueue
  <2>6. Queues!Accept(frame)
    BY <2>1, <2>4, <2>5, Zenon DEF Queues!Accept, TxQueue, RxQueue
  <2> QED
    BY <2>2, <2>6, Zenon DEF Queues!Next
<1>7. ASSUME UNCHANGED <<rxvars, tx_desc, TDH, TDT, sent>> PROVE UNCHANGED <<TxQueue, RxQueue, sent, delivered>>
  BY <1>7 DEF TxQueue, RxQueue, rxvars
<1>8. ASSUME NEW f \in Frames, SendBegin(f) PROVE UNCHANGED <<TxQueue, RxQueue, sent, delivered>>
  BY <1>7, <1>8, Zenon DEF SendBegin
<1>9. CASE PollEmpty \/ PollCopy \/ SendFull \/ SendDone \/ SendTimeout \/ SendReturn \/ NextIteration
  <2>1. UNCHANGED <<rxvars, txvars>>
    BY <1>9, Zenon DEF PollEmpty, PollCopy, SendFull, SendDone, SendTimeout, SendReturn, NextIteration
  <2> QED
    BY <1>7, <2>1, Zenon DEF txvars
<1>10. CASE UNCHANGED vars
  BY <1>7, <1>10, Zenon DEF vars, txvars
<1> QED
  BY <1>1, <1>2, <1>3, <1>4, <1>5, <1>6, <1>8, <1>9, <1>10, Zenon DEF Next, Driver, Queues!Next

\* The descriptor rings are FIFO queues: whatever the interleaving of driver and
\* device, a frame the driver accepts is sent once and in order, a received one
\* delivered once and in order, and a full ring refuses.
THEOREM Refinement == Spec => ImplementsQueues
<1>1. Init => Queues!Init
  <2> SUFFICES ASSUME Init PROVE Queues!Init
    OBVIOUS
  <2>1. \A desc, n : n \in Nat \ {0, 1} => RingSeq(desc, 0, 0, n) = <<>>
    BY DEF RingSeq
  <2>2. /\ RingSeq(tx_desc, TDH, TDT, TxCount) = <<>>
        /\ RingSeq(rx_desc, rx_head, RDH, RxCount) = <<>>
    BY <2>1, RingAssumption DEF Init
  <2> QED
    BY <2>2, Zenon DEF Init, Queues!Init
<1>2. Init => CopyInv
  BY DEF Init, CopyInv
<1>3. TypeOK /\ TypeOK' /\ RxInv /\ TxInv /\ CopyInv /\ [Next]_vars =>
        [Queues!Next]_<<RingSeq(tx_desc, TDH, TDT, TxCount), RingSeq(rx_desc, rx_head, RDH, RxCount), sent, delivered>>
  BY QueueStep, Zenon DEF TxQueue, RxQueue
<1> QED
  BY <1>1, <1>2, <1>3, CopyStep, RxInit, RxStep, TxInit, TxStep, TypeCorrect, PTL
     DEF Spec, ImplementsQueues, Queues!Spec
====
