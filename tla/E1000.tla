---- MODULE E1000 ----
(***************************************************************************)
(* The e1000 driver (src/network/e1000.c) under the polling loop of        *)
(* network.c: a receive and a transmit descriptor ring in memory that the  *)
(* driver and the device share without a lock, ordered only by the head    *)
(* and tail registers and the DD ("descriptor done") bits.  The device     *)
(* runs concurrently with the driver, so every access of the driver that   *)
(* the device can tell apart is a step of its own.                         *)
(***************************************************************************)
EXTENDS Integers, Sequences

CONSTANTS
    RxCount,    \* RX_DESC_COUNT
    TxCount,    \* TX_DESC_COUNT
    Frames,
    NoFrame,    \* what a buffer holds before its first use
    MaxSends    \* how many frames one iteration of the loop sends at most

ASSUME RingAssumption == RxCount \in Nat \ {0, 1} /\ TxCount \in Nat \ {0, 1}
ASSUME FrameAssumption == NoFrame \notin Frames /\ MaxSends \in Nat

VARIABLES
    rx_desc, tx_desc,   \* the rings: DD bit and the buffer's content
    rx_head, tx_tail,   \* the driver's indices
    RDH, RDT, TDH, TDT, \* the device's head and tail registers
    pc,                 \* where network_loop is
    frame, tx_head,     \* the frame in hand; the local tx_head of e1000_send_packet
    sends,              \* frames sent in this iteration
    sent, delivered     \* the last frame on the wire, the last one given to the loop

rxvars == <<rx_desc, rx_head, RDH, RDT, delivered>>
txvars == <<tx_desc, tx_tail, TDH, TDT, sent, tx_head>>
vars == <<rxvars, txvars, pc, frame, sends>>

RxSlots == 0 .. RxCount - 1
TxSlots == 0 .. TxCount - 1
Desc == [dd : BOOLEAN, frame : Frames \cup {NoFrame}]
Empty == [dd |-> FALSE, frame |-> NoFrame]

\* Mutant: the index is not wrapped.
AfterUnwrapped(i, n) == i + 1

After(i, n) == (i + 1) % n
Before(i, n) == (i + n - 1) % n

\* The slots from h up to t, t itself excluded: what the device owns between
\* head and tail, and what the driver still has to read between its index and RDH.
Between(h, t, n) == IF h <= t THEN h .. t - 1 ELSE (h .. n - 1) \cup (0 .. t - 1)

\* e1000_init
Init ==
    /\ rx_desc = [i \in RxSlots |-> Empty] /\ tx_desc = [i \in TxSlots |-> Empty]
    /\ rx_head = 0 /\ RDH = 0 /\ RDT = RxCount - 1
    /\ tx_tail = 0 /\ TDH = 0 /\ TDT = 0 /\ tx_head = 0
    /\ pc = "poll" /\ frame = NoFrame /\ sends = 0
    /\ sent = NoFrame /\ delivered = NoFrame

Goto(l) == pc' = l

----
(* The device: it fills the slots from RDH up to RDT and sends those from TDH up to TDT. *)

DeviceReceive(f) ==
    /\ RDH # RDT
    /\ rx_desc' = [rx_desc EXCEPT ![RDH] = [dd |-> TRUE, frame |-> f]]
    /\ RDH' = After(RDH, RxCount)
    /\ UNCHANGED <<rx_head, RDT, delivered, txvars, pc, frame, sends>>

DeviceTransmit ==
    /\ TDH # TDT
    /\ sent' = tx_desc[TDH].frame
    /\ tx_desc' = [tx_desc EXCEPT ![TDH].dd = TRUE]
    /\ TDH' = After(TDH, TxCount)
    /\ UNCHANGED <<tx_tail, TDT, tx_head, rxvars, pc, frame, sends>>

----
(* e1000_receive_packet, called once at the start of every iteration. *)

PollEmpty ==
    /\ pc = "poll" /\ ~rx_desc[rx_head].dd
    /\ Goto("handle")
    /\ UNCHANGED <<rxvars, txvars, frame, sends>>

PollCopy ==
    /\ pc = "poll" /\ rx_desc[rx_head].dd
    /\ frame' = rx_desc[rx_head].frame
    /\ Goto("clear")
    /\ UNCHANGED <<rxvars, txvars, sends>>

\* Mutant: DD stays set.
PollKeep ==
    /\ pc = "clear"
    /\ Goto("handback")
    /\ UNCHANGED <<rxvars, txvars, frame, sends>>

PollClear ==
    /\ pc = "clear"
    /\ rx_desc' = [rx_desc EXCEPT ![rx_head].dd = FALSE]
    /\ Goto("handback")
    /\ UNCHANGED <<rx_head, RDH, RDT, delivered, txvars, frame, sends>>

\* Mutant: the tail is advanced to the new head itself.
FullTail(h) == h

\* What is written to RDT: the slot before the next one to inspect.
NewTail(h) == Before(h, RxCount)

PollHandBack ==
    /\ pc = "handback"
    /\ rx_head' = After(rx_head, RxCount)
    /\ RDT' = NewTail(rx_head')
    /\ delivered' = frame
    /\ Goto("handle")
    /\ UNCHANGED <<rx_desc, RDH, txvars, frame, sends>>

----
(* The handlers of the loop send some frames, one e1000_send_packet each, and the loop goes on. *)

SendBegin(f) ==
    /\ pc = "handle" /\ sends < MaxSends
    /\ frame' = f /\ sends' = sends + 1
    /\ tx_head' = TDH
    /\ Goto("check")
    /\ UNCHANGED <<rxvars, tx_desc, tx_tail, TDH, TDT, sent>>

\* Mutant: the last slot is used too.
NoSlotLeft(head) == FALSE

RingFull(head) == After(tx_tail, TxCount) = head

SendFull ==
    /\ pc = "check" /\ RingFull(tx_head)
    /\ Goto("handle")
    /\ UNCHANGED <<rxvars, txvars, frame, sends>>

\* Mutant: status is not cleared.
StaleStatus(f) == [dd |-> tx_desc[tx_tail].dd, frame |-> f]

Pending(f) == [dd |-> FALSE, frame |-> f]

SendFill ==
    /\ pc = "check" /\ ~RingFull(tx_head)
    /\ tx_desc' = [tx_desc EXCEPT ![tx_tail] = Pending(frame)]
    /\ Goto("tail")
    /\ UNCHANGED <<rxvars, tx_tail, TDH, TDT, sent, tx_head, frame, sends>>

SendTail ==
    /\ pc = "tail"
    /\ tx_tail' = After(tx_tail, TxCount)
    /\ TDT' = tx_tail'
    /\ Goto("wait")
    /\ UNCHANGED <<rxvars, tx_desc, TDH, sent, tx_head, frame, sends>>

\* The wait ends with success when DD is seen, and gives up after 1000 reads at any time.
SendDone ==
    /\ pc = "wait" /\ tx_desc[Before(tx_tail, TxCount)].dd
    /\ Goto("sent")
    /\ UNCHANGED <<rxvars, txvars, frame, sends>>

SendTimeout ==
    /\ pc = "wait"
    /\ Goto("handle")
    /\ UNCHANGED <<rxvars, txvars, frame, sends>>

\* The caller of a successful e1000_send_packet goes on.
SendReturn ==
    /\ pc = "sent"
    /\ Goto("handle")
    /\ UNCHANGED <<rxvars, txvars, frame, sends>>

NextIteration ==
    /\ pc = "handle"
    /\ sends' = 0
    /\ Goto("poll")
    /\ UNCHANGED <<rxvars, txvars, frame>>

Driver == \/ PollEmpty \/ PollCopy \/ PollClear \/ PollHandBack
          \/ SendFull \/ SendFill \/ SendTail \/ SendDone \/ SendTimeout \/ SendReturn
          \/ NextIteration
          \/ \E f \in Frames : SendBegin(f)

Next == Driver \/ DeviceTransmit \/ \E f \in Frames : DeviceReceive(f)

\* network_loop never stops and the device sends what it has been given.
Spec == Init /\ [][Next]_vars /\ WF_vars(Driver) /\ WF_vars(DeviceTransmit)

----
TypeOK ==
    /\ rx_desc \in [RxSlots -> Desc] /\ tx_desc \in [TxSlots -> Desc]
    /\ {rx_head, RDH, RDT} \subseteq RxSlots /\ {tx_tail, TDH, TDT, tx_head} \subseteq TxSlots
    /\ pc \in {"poll", "clear", "handback", "handle", "check", "tail", "wait", "sent"}
    /\ {frame, sent, delivered} \subseteq Frames \cup {NoFrame} /\ sends \in 0 .. MaxSends

\* The receive ring never confuses the two sides: DD is set on exactly the
\* slots the driver has not read yet, those between rx_head and RDH, and the
\* device never owns the slot the driver is reading or clearing.
RxOwnership ==
    /\ {i \in RxSlots : rx_desc[i].dd} =
           Between(rx_head, RDH, RxCount) \ (IF pc = "handback" THEN {rx_head} ELSE {})
    /\ \A i \in Between(RDH, RDT, RxCount) : ~rx_desc[i].dd
    /\ pc \in {"clear", "handback"} => rx_head \notin Between(RDH, RDT, RxCount)

\* The driver only writes a transmit slot the device does not own, although the
\* head it checked against may be stale: while it fills one and moves the tail,
\* the slot is outside TDH .. TDT, and the tail never catches up with the head.
TxOwnership ==
    /\ pc = "tail" => tx_tail \notin Between(TDH, TDT, TxCount) /\ After(tx_tail, TxCount) # TDH
    /\ \A i \in Between(TDH, TDT, TxCount) : ~tx_desc[i].dd /\ tx_desc[i].frame # NoFrame

\* e1000_send_packet returns success only for a frame that is on the wire,
\* and then all earlier ones are too: a DD bit left over from the last lap of
\* the ring is never mistaken for it.
SuccessMeansSent == pc = "sent" => TDH = TDT /\ sent = frame

\* The rings implement two FIFO queues.
RingSeq(desc, h, t, n) == [k \in 1 .. (t - h) % n |-> desc[(h + k - 1) % n].frame]
Queues == INSTANCE NicQueues WITH
    txq <- RingSeq(tx_desc, TDH, TDT, TxCount), rxq <- RingSeq(rx_desc, rx_head, RDH, RxCount),
    TxCapacity <- TxCount - 1, RxCapacity <- RxCount - 1
ImplementsQueues == Queues!Spec

\* Every received frame is read, and every queued one sent, also when the
\* driver stopped waiting for it.
RingsDrain ==
    /\ \A i \in RxSlots : rx_desc[i].dd ~> ~rx_desc[i].dd
    /\ \A i \in TxSlots : i \in Between(TDH, TDT, TxCount) ~> i \notin Between(TDH, TDT, TxCount)
====
