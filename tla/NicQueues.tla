---- MODULE NicQueues ----
(***************************************************************************)
(* What the network driver promises: two bounded FIFO queues.  A frame the *)
(* driver accepts is sent once, in order; a frame the device accepts is    *)
(* delivered once, in order.  A full queue refuses, it never overwrites.   *)
(***************************************************************************)
EXTENDS Integers, Sequences

CONSTANTS Frames, TxCapacity, RxCapacity, NoFrame

VARIABLES txq, rxq,
          sent,       \* the frame that went out last
          delivered   \* the frame that was handed to the network loop last

Init == txq = <<>> /\ rxq = <<>> /\ sent = NoFrame /\ delivered = NoFrame

Accept(f) == /\ Len(txq) < TxCapacity
             /\ txq' = Append(txq, f)
             /\ UNCHANGED <<rxq, sent, delivered>>

Transmit == /\ txq # <<>>
            /\ txq' = Tail(txq) /\ sent' = Head(txq)
            /\ UNCHANGED <<rxq, delivered>>

Arrive(f) == /\ Len(rxq) < RxCapacity
             /\ rxq' = Append(rxq, f)
             /\ UNCHANGED <<txq, sent, delivered>>

Deliver == /\ rxq # <<>>
           /\ rxq' = Tail(rxq) /\ delivered' = Head(rxq)
           /\ UNCHANGED <<txq, sent>>

Next == Transmit \/ Deliver \/ \E f \in Frames : Accept(f) \/ Arrive(f)

Spec == Init /\ [][Next]_<<txq, rxq, sent, delivered>>
====
