---- MODULE Arp ----
(***************************************************************************)
(* The neighbour table (src/network/arp.c): arp_receive stores the sender  *)
(* of every well-formed ARP frame and answers requests for our address,    *)
(* arp_resolve looks an address up for the send path and broadcasts a      *)
(* request when it is not there.  Both run to completion below the polling *)
(* loop, so each is one step.                                              *)
(***************************************************************************)
EXTENDS Integers, FiniteSets

CONSTANTS
    ArpTableSize,   \* ARP_TABLE_SIZE
    OurIP,          \* NET_IP_ADDR
    Neighbours,     \* the addresses of the hosts on the link
    Macs,           \* their hardware addresses
    None            \* the zeroed address of an unused entry

ASSUME ArpAssumption ==
    /\ ArpTableSize \in Nat \ {0}
    /\ OurIP \notin Neighbours /\ None \notin Neighbours \cup Macs

VARIABLES
    arp_table,    \* arp_table[ARP_TABLE_SIZE]
    arp_out,      \* the ARP frame the last step sent
    announced     \* the hardware address each neighbour announced last

arpvars == <<arp_table, arp_out, announced>>

ArpSlots == 0 .. ArpTableSize - 1
Entry == [ip : Neighbours \cup {None}, mac : Macs \cup {None}, valid : BOOLEAN]
ZeroEntry == [ip |-> None, mac |-> None, valid |-> FALSE]

\* A received frame; good when it is long enough and for Ethernet and IPv4.
ArpFrame == [good : BOOLEAN, oper : {"request", "reply"}, sha : Macs, spa : Neighbours,
             tpa : Neighbours \cup {OurIP}]

NoFrame == [oper |-> "none", tha |-> None, tpa |-> None]

First(S) == CHOOSE i \in S : \A j \in S : i <= j

\* Mutant: the scan for an address stops in front of the last slot.
arp_lookup_short(ip) == {i \in ArpSlots \ {ArpTableSize - 1} : arp_table[i].valid /\ arp_table[i].ip = ip}
\* The slots in which an address is found; the first one is used.
arp_lookup(ip) == {i \in ArpSlots : arp_table[i].valid /\ arp_table[i].ip = ip}
Known(ip) == arp_lookup(ip) # {}
MacOf(ip) == arp_table[First(arp_lookup(ip))].mac

\* Mutant: a new address always goes to slot 0.
EvictedSlot(ip) == IF Known(ip) THEN First(arp_lookup(ip)) ELSE 0
\* Where an address is stored: its own slot, else the first unused one, else slot 0.
StoreSlot(ip) ==
    LET unused == {i \in ArpSlots : ~arp_table[i].valid}
    IN  IF Known(ip) THEN First(arp_lookup(ip))
        ELSE IF unused # {} THEN First(unused) ELSE 0

arp_store(ip, mac) ==
    arp_table' = [arp_table EXCEPT ![StoreSlot(ip)] = [ip |-> ip, mac |-> mac, valid |-> TRUE]]

arp_receive(f) ==
    IF f.good
    THEN /\ arp_store(f.spa, f.sha)
         /\ announced' = [announced EXCEPT ![f.spa] = f.sha]
         /\ arp_out' = IF f.oper = "request" /\ f.tpa = OurIP
                       THEN [oper |-> "reply", tha |-> f.sha, tpa |-> f.spa] ELSE NoFrame
    ELSE arp_out' = NoFrame /\ UNCHANGED <<arp_table, announced>>

\* A hit yields MacOf(ip); a miss broadcasts a request and fails.
arp_resolve(ip) ==
    /\ arp_out' = IF Known(ip) THEN NoFrame ELSE [oper |-> "request", tha |-> None, tpa |-> ip]
    /\ UNCHANGED <<arp_table, announced>>

\* arp_init
ArpInit ==
    /\ arp_table = [i \in ArpSlots |-> ZeroEntry]
    /\ arp_out = NoFrame
    /\ announced = [n \in Neighbours |-> None]

ArpNext == (\E f \in ArpFrame : arp_receive(f)) \/ \E n \in Neighbours : arp_resolve(n)

ArpSpec == ArpInit /\ [][ArpNext]_arpvars

----
ArpTypeOK ==
    /\ arp_table \in [ArpSlots -> Entry]
    /\ announced \in [Neighbours -> Macs \cup {None}]

\* An address is in at most one slot, and what the table gives for it is what
\* its owner announced last, however often entries are refreshed, evicted and
\* stored again: a frame is never sent to an outdated hardware address that a
\* stale second entry preserves.
ArpTruthful ==
    \A i \in ArpSlots : arp_table[i].valid =>
        /\ arp_table[i].ip \in Neighbours /\ arp_table[i].mac = announced[arp_table[i].ip]
        /\ \A j \in ArpSlots : arp_table[j].valid /\ arp_table[j].ip = arp_table[i].ip => j = i

\* A neighbour is forgotten only for want of room: while no more hosts than
\* slots have announced themselves, every one of them can be resolved.
NoNeedlessEviction ==
    Cardinality({n \in Neighbours : announced[n] # None}) <= ArpTableSize =>
        \A n \in Neighbours : announced[n] # None => Known(n)
====
