---- MODULE HttpExchange ----
(***************************************************************************)
(* One HTTP exchange per client, end to end: clients with a conforming TCP *)
(* stack, a FIFO wire in each direction, the server of Tcp driven by the   *)
(* polling loop (network.c, ip_receive), and its send path, which needs    *)
(* the hardware address of the receiver from the table of Arp.  All        *)
(* clients sit behind one address, as with QEMU's user-mode network; a     *)
(* client is its port.  Other neighbours only send ARP frames.             *)
(***************************************************************************)
EXTENDS Tcp, Arp

CONSTANTS
    Host,        \* the address of the clients
    Clients,     \* their ports
    Wanted,      \* Wanted[c]: what client c sends, a request and its body
    Padding,     \* what the link appends to a frame without payload to reach 60 bytes
    PiggybackFin,\* TRUE when a client may leave its acknowledgements to its FIN
    Resends,     \* Resends[c]: how often client c repeats what is not acknowledged
    Losses,      \* Losses[c]: how many segments and ARP frames client c loses
    LostAcks,    \* whose bare acknowledgements may be among them: "client", "server"
    AckData,     \* TRUE when the acknowledgement that ends the handshake may carry data
    HwAddr,      \* HwAddr[n]: the hardware address of neighbour n
    MaxInFlight  \* the timer ticks only while fewer segments of each connection are under way

ASSUME ExchangeAssumption ==
    /\ Host \in IPs \cap Neighbours /\ Clients \subseteq Ports \ {0}
    /\ Wanted \in [Clients -> Seq(Tokens)] /\ Padding \in Seq(Tokens)
    /\ PiggybackFin \in BOOLEAN /\ Resends \in [Clients -> Nat] /\ Losses \in [Clients -> Nat]
    /\ LostAcks \subseteq {"client", "server"} /\ AckData \in BOOLEAN
    /\ HwAddr \in [Neighbours -> Macs] /\ MaxInFlight \in Nat \ {0}

VARIABLES
    client, toServer, toClient, losses,
    asked       \* our ARP request for Host, or its reply, is under way

xvars == <<sockets, tcp_now, out, client, toServer, toClient, losses, arpvars, asked>>

Iss == SeqMod - 1
ClientStates == {"idle", "syn_sent", "connected", "closing", "last_ack", "done", "refused"}
NewClient(c) == [st |-> "idle", retries |-> Resends[c], sent |-> 0, una |-> 0, rcv |-> 0, status |-> 0]

\* A client's segment as ip_receive passes it on: the payload length is taken
\* from the frame, so the link's padding counts as payload.
FromClient(c, flags, seq, data) ==
    [ip |-> Host, sport |-> c, dport |-> HttpPort, flags |-> flags, seq |-> seq,
     ack |-> client'[c].rcv, data |-> IF data = <<>> THEN Padding ELSE data]

Send(c, flags, seq, data) == toServer' = [toServer EXCEPT ![c] = Append(@, FromClient(c, flags, seq, data))]

\* The number of the next byte client c sends.
SndNxt(c) == Add(Iss, 1 + client[c].sent)

----
(* The server: one poll of the NIC, or a timer tick. *)

\* What the step sent to client c.  It is one stretch of out': tcp_receive sends
\* to one peer only, and tcp_periodic at most one segment to each peer.
SentTo(c) == {n \in 1 .. Len(out') : out'[n].ip = Host /\ out'[n].port = c /\ out'[n].flags # {}}
Final(S) == CHOOSE i \in S : \A j \in S : j <= i
Delivered(c) == IF SentTo(c) = {} THEN <<>> ELSE SubSeq(out', First(SentTo(c)), Final(SentTo(c)))

\* net_send_ip: a segment whose receiver is not in the table is dropped, and the
\* table asks for it; tcp_send_ctrl and tcp_send_data ignore the failure.
Deliver ==
    /\ toClient' = [c \in Clients |-> IF Known(Host) THEN toClient[c] \o Delivered(c) ELSE toClient[c]]
    /\ IF \A c \in Clients : Delivered(c) = <<>>
       THEN arp_out' = NoFrame /\ UNCHANGED <<arp_table, announced, asked>>
       ELSE arp_resolve(Host) /\ asked' = (asked \/ ~Known(Host))

Poll(c) ==
    /\ toServer[c] # <<>>
    /\ tcp_receive(Head(toServer[c]))
    /\ toServer' = [toServer EXCEPT ![c] = Tail(@)]
    /\ Deliver
    /\ UNCHANGED <<client, losses>>

QuietWire == \A c \in Clients : Len(toClient[c]) + Len(toServer[c]) < MaxInFlight

Tick ==
    /\ QuietWire
    /\ tcp_periodic
    /\ Deliver
    /\ UNCHANGED <<client, toServer, losses>>

----
(* A client and its TCP stack. *)

\* The server's state during a step of someone else, which sends nothing.
ServerIdle == /\ UNCHANGED <<sockets, tcp_now>> /\ out' = <<>>
              /\ UNCHANGED <<arp_table, announced, asked>> /\ arp_out' = NoFrame

Connect(c) ==
    /\ client[c].st = "idle"
    /\ client' = [client EXCEPT ![c].st = "syn_sent"]
    /\ Send(c, {"SYN"}, Iss, <<>>)
    /\ ServerIdle /\ UNCHANGED <<toClient, losses>>

\* The SYN, or the data that was not acknowledged when all answers have come.
Unacked(c) == \/ client[c].st = "syn_sent"
              \/ /\ client[c].st = "connected" /\ client[c].una < client[c].sent
                 /\ toServer[c] = <<>> /\ toClient[c] = <<>>
Retransmit(c) ==
    /\ Unacked(c) /\ client[c].retries > 0
    /\ client' = [client EXCEPT ![c].retries = @ - 1]
    /\ IF client[c].st = "syn_sent" THEN Send(c, {"SYN"}, Iss, <<>>)
       ELSE Send(c, {"ACK", "PSH"}, Add(Iss, 1 + client[c].una),
                 SubSeq(Wanted[c], client[c].una + 1, client[c].sent))
    /\ ServerIdle /\ UNCHANGED <<toClient, losses>>

\* A connection attempt that the server has not taken up times out.
GiveUp(c) ==
    /\ client[c].st = "syn_sent" /\ client[c].retries = 0
    /\ toServer[c] = <<>> /\ toClient[c] = <<>>
    /\ \A i \in Slots : sockets[i].state # "CLOSED" => sockets[i].remote_port # c
    /\ client' = [client EXCEPT ![c].st = "refused"]
    /\ ServerIdle /\ UNCHANGED <<toServer, toClient, losses>>

\* The request leaves in one or more segments.
SendData(c) ==
    /\ client[c].st = "connected"
    /\ \E n \in 1 .. Len(Wanted[c]) - client[c].sent :
          /\ client' = [client EXCEPT ![c].sent = @ + n]
          /\ Send(c, {"ACK", "PSH"}, SndNxt(c), SubSeq(Wanted[c], client[c].sent + 1, client[c].sent + n))
    /\ ServerIdle /\ UNCHANGED <<toClient, losses>>

Seg(c) == Head(toClient[c])
\* How much of the request the head of the wire acknowledges; an acknowledgement
\* of what was not sent is ignored.
AckedBy(c) == IF client[c].st = "connected" /\ Seg(c).ack - Add(Iss, 1) \in client[c].una .. client[c].sent
              THEN Seg(c).ack - Add(Iss, 1) ELSE client[c].una

\* Take the head of the wire with a given effect on the client.
Take(c, k) ==
    /\ client' = [client EXCEPT ![c] = [k EXCEPT !.una = AckedBy(c)]]
    /\ toClient' = [toClient EXCEPT ![c] = Tail(@)]
    /\ ServerIdle /\ UNCHANGED losses

InSequence(c) == client[c].st = "connected" /\ Seg(c).seq = client[c].rcv

\* How much of the request the acknowledgement that ends the handshake carries.
FirstData(c) == IF AckData THEN 0 .. Len(Wanted[c]) ELSE {0}

\* A SYN-ACK completes the handshake; a late duplicate is acknowledged again.
OnSynAck(c) ==
    /\ toClient[c] # <<>> /\ "SYN" \in Seg(c).flags
    /\ \/ /\ client[c].st = "syn_sent" /\ Seg(c).ack = Add(Iss, 1)
          /\ \E n \in FirstData(c) :
                /\ Take(c, [client[c] EXCEPT !.st = "connected", !.rcv = Add(Seg(c).seq, 1), !.sent = n])
                /\ Send(c, IF n = 0 THEN {"ACK"} ELSE {"ACK", "PSH"}, SndNxt(c), SubSeq(Wanted[c], 1, n))
       \/ /\ client[c].st \in {"connected", "closing", "last_ack"}
          /\ Take(c, client[c])
          /\ Send(c, {"ACK"}, SndNxt(c), <<>>)

\* An acknowledgement is sent at once, or left to a later segment.
Acknowledge(c) ==
    \E later \in {FALSE, PiggybackFin} :
        toServer' = IF later THEN toServer
                    ELSE [toServer EXCEPT ![c] = Append(@, FromClient(c, {"ACK"}, SndNxt(c), <<>>))]

OnResponse(c) ==
    /\ toClient[c] # <<>> /\ Seg(c).resp # NoResponse /\ InSequence(c)
    /\ Take(c, [client[c] EXCEPT !.status = Seg(c).resp.status, !.rcv = Add(@, Seg(c).resp.len)])
    /\ Acknowledge(c)

OnFin(c) ==
    /\ toClient[c] # <<>> /\ "FIN" \in Seg(c).flags /\ InSequence(c)
    /\ Take(c, [client[c] EXCEPT !.st = "closing", !.rcv = Add(@, 1)])
    /\ Acknowledge(c)

\* The client closes its side; its FIN also acknowledges all it has received.
Close(c) ==
    /\ client[c].st = "closing"
    /\ client' = [client EXCEPT ![c].st = "last_ack"]
    /\ Send(c, {"FIN", "ACK"}, SndNxt(c), <<>>)
    /\ ServerIdle /\ UNCHANGED <<toClient, losses>>

OnRst(c) ==
    /\ toClient[c] # <<>> /\ "RST" \in Seg(c).flags
    /\ Take(c, [client[c] EXCEPT !.st = IF @ \in {"syn_sent", "refused"} THEN "refused" ELSE "done"])
    /\ UNCHANGED toServer

\* Everything else: a plain ACK, which ends a connection whose FIN is out, and
\* segments the stack drops.
OnOther(c) ==
    /\ toClient[c] # <<>>
    /\ "RST" \notin Seg(c).flags
    /\ "SYN" \in Seg(c).flags => client[c].st \in {"done", "refused"}
    /\ Seg(c).resp # NoResponse \/ "FIN" \in Seg(c).flags => ~InSequence(c)
    /\ Take(c, IF Seg(c).flags = {"ACK"} /\ client[c].st = "last_ack"
               THEN [client[c] EXCEPT !.st = "done"] ELSE client[c])
    /\ UNCHANGED toServer

----
(* The network may drop a SYN that will be repeated, a SYN-ACK, and the bare    *)
(* acknowledgements that LostAcks allows: from a client the one that ends the   *)
(* handshake and later ones, from the server those of the request's segments.  *)
Losable(m, side) == "SYN" \in m.flags \/ (m.flags = {"ACK"} /\ side \in LostAcks)
Lose(c) ==
    /\ losses[c] < Losses[c]
    /\ losses' = [losses EXCEPT ![c] = @ + 1]
    /\ \/ /\ toServer[c] # <<>> /\ Losable(Head(toServer[c]), "client")
          /\ "SYN" \in Head(toServer[c]).flags => client[c].retries > 0
          /\ toServer' = [toServer EXCEPT ![c] = Tail(@)]
          /\ UNCHANGED toClient
       \/ /\ toClient[c] # <<>> /\ Losable(Seg(c), "server")
          /\ toClient' = [toClient EXCEPT ![c] = Tail(@)]
          /\ UNCHANGED toServer
    /\ ServerIdle /\ UNCHANGED client

(* The neighbours' ARP frames, received by the polling loop as they come. *)
FrameOf(n, oper) == [good |-> TRUE, oper |-> oper, sha |-> HwAddr[n], spa |-> n, tpa |-> OurIP]
ArpWire == out' = <<>> /\ UNCHANGED <<sockets, tcp_now, client, toServer, toClient>>

Answer ==
    /\ asked /\ asked' = FALSE
    /\ arp_receive(FrameOf(Host, "reply"))
    /\ ArpWire /\ UNCHANGED losses

\* A neighbour that we do not know, or no longer, asks for our address; a reply
\* of Host that is still to come would not tell us more.
Announce(n) ==
    /\ ~Known(n)
    /\ arp_receive(FrameOf(n, "request"))
    /\ asked' = (asked /\ n # Host)
    /\ ArpWire /\ UNCHANGED losses

\* A request or its reply is lost.
LoseArp(c) ==
    /\ asked /\ asked' = FALSE
    /\ losses[c] < Losses[c] /\ losses' = [losses EXCEPT ![c] = @ + 1]
    /\ arp_out' = NoFrame /\ UNCHANGED <<arp_table, announced>>
    /\ ArpWire

\* An ICMP echo request from Host cannot be answered before Host is known; after
\* that the reply leaves and nothing changes.
Ping ==
    /\ ~Known(Host)
    /\ arp_resolve(Host) /\ asked' = TRUE
    /\ ArpWire /\ UNCHANGED losses

----
XInit ==
    /\ Init /\ ArpInit
    /\ client = [c \in Clients |-> NewClient(c)]
    /\ toServer = [c \in Clients |-> <<>>]
    /\ toClient = [c \in Clients |-> <<>>]
    /\ losses = [c \in Clients |-> 0]
    /\ asked = FALSE

ClientStep(c) == \/ Connect(c) \/ SendData(c) \/ OnSynAck(c) \/ OnResponse(c) \/ OnFin(c)
                 \/ Close(c) \/ OnRst(c) \/ OnOther(c) \/ Retransmit(c) \/ GiveUp(c)

ArpStep == Answer \/ Ping \/ \E n \in Neighbours : Announce(n)

XNext == Tick \/ ArpStep \/ \E c \in Clients : Poll(c) \/ ClientStep(c) \/ Lose(c) \/ LoseArp(c)

\* The head of a wire is taken off it, the timer advances: what Poll, the
\* client's handlers and Tick do whenever they can, stated without their effects.
Receives(wire, c) == wire[c] # <<>> /\ wire' = [wire EXCEPT ![c] = Tail(@)]
TimerRuns == QuietWire /\ tcp_now' = (tcp_now + 1) % NowMod

\* network_loop never stops, so every delivered frame is handled and the timer
\* ticks for ever; a client's stack runs, and repeats a SYN that is not answered.
Fairness ==
    /\ WF_tcp_now(TimerRuns) /\ WF_asked(asked /\ asked' = FALSE)
    /\ \A c \in Clients : /\ WF_toServer(Receives(toServer, c))
                          /\ WF_toClient(Receives(toClient, c))
                          /\ WF_xvars(SendData(c) \/ Close(c) \/ Retransmit(c) \/ GiveUp(c))

XSpec == XInit /\ [][XNext]_xvars /\ Fairness

----
\* What the server has buffered of a client's request is exactly the start of
\* what that client sent: retransmitted SYNs and SYN-ACKs, late
\* acknowledgements and the reuse of a slot neither lose nor insert a byte, as
\* long as the client's acknowledgement ends the handshake (it arrives, and
\* without data: tcp.c takes the segment that ends the handshake for an empty
\* one) and no acknowledgement of the server's is lost.
RequestIntact ==
    \A i \in Slots : \A c \in Clients :
        sockets[i].state \in {"ESTABLISHED", "CLOSE_WAIT"} /\ sockets[i].remote_port = c =>
            sockets[i].rx = SubSeq(Wanted[c], 1, Len(sockets[i].rx))

\* A client that got a response got the one to its own request,
\* whatever the segmentation and however often its slot was used before.
OwnResponse ==
    \A c \in Clients : client[c].status # 0 =>
        \E resp \in Responses : resp.status = client[c].status /\ Answers(Wanted[c], resp)

\* The response and the FIN carry the number the client expects, so its stack
\* never discards them: the server's s->seq stays in step with the client.
NumbersInStep ==
    \A c \in Clients :
        toClient[c] # <<>> /\ client[c].st = "connected" /\ (Seg(c).resp # NoResponse \/ "FIN" \in Seg(c).flags)
            => InSequence(c)

\* Every client that asks is answered or refused, although SYNs, SYN-ACKs and ARP
\* frames may be lost: tcp_periodic sends the SYN-ACK again.
EveryoneServed ==
    \A c \in Clients : client[c].st = "syn_sent" ~> client[c].status # 0 \/ client[c].st = "refused"

\* "Close connection after one request (HTTP/1.0 style)." (tcp.c:237): a socket
\* that has answered ends up closed and its slot is free again.
AnsweredSocketCloses ==
    \A i \in Slots : sockets[i].state = "FIN_WAIT_1" ~> sockets[i].state = "CLOSED"

\* The smoke test (tests/integration/http_smoke.py:74-90) sends well-formed
\* requests and counts every status but 200 as a failure.
SmokeTestPasses == \A c \in Clients : client[c].status \in {0, 200}
====
