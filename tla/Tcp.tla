---- MODULE Tcp ----
(***************************************************************************)
(* The TCP server of the kernel (src/network/tcp.c): a fixed table of      *)
(* sockets whose slot 0 is the listener, driven by two entry points of the *)
(* polling loop, tcp_receive for every TCP segment and tcp_periodic for    *)
(* the timer.  Both run to completion, so each is one step.  A byte stream *)
(* is a sequence of tokens; only CRLF is told apart, because the end of a  *)
(* request is the first empty line, two CRLFs in a row.                    *)
(***************************************************************************)
EXTENDS Integers, Sequences

CONSTANTS
    MaxSockets,    \* TCP_MAX_SOCKETS
    RxBufSize,     \* TCP_RX_BUF_SIZE, in tokens
    MaxSegment,    \* longest payload net_send_tcp accepts
    HttpPort,      \* HTTP_PORT, the listener's port
    LocalPorts,    \* destination ports segments carry
    IPs,           \* the addresses of remote hosts, other than 0.0.0.0
    AnyIP,         \* 0.0.0.0: the remote_ip of a socket that has no peer yet, which matches every host
    Ports,         \* remote ports; 0 included
    Tokens, CRLF,
    SeqMod,        \* sequence numbers are modulo SeqMod (2^32)
    NowMod,        \* tcp_now is modulo NowMod (2^32)
    Segments,      \* the segments the environment may deliver
    Responses,     \* what the HTTP layer may produce
    Answers(_, _)  \* Answers(request, response): this is a response to that request

Slots == 0 .. MaxSockets - 1
Flags == {"SYN", "ACK", "FIN", "RST", "PSH"}
SeqNo == 0 .. SeqMod - 1
Ticks == 0 .. NowMod - 1
Add(a, b) == (a + b) % SeqMod

\* A received segment, with the address ip_receive stored in tcp_current_remote_ip:
\* any source address, 0.0.0.0 included, for ip_receive checks none.
Segment == [ip : IPs \cup {AnyIP}, sport : Ports, dport : LocalPorts, flags : SUBSET Flags,
            seq : SeqNo, ack : SeqNo, data : Seq(Tokens)]

\* A response; len = 0 when http_generate_response fails and nothing is sent.
Response == [status : Nat, len : Nat]
NoResponse == [status |-> 0, len |-> 0]

ASSUME TableAssumption == MaxSockets \in Nat \ {0} /\ RxBufSize \in Nat \ {0} /\ MaxSegment \in Nat
ASSUME NumberAssumption == SeqMod \in Nat \ {0} /\ NowMod \in Nat /\ NowMod > 2
ASSUME PortAssumption == 0 \in Ports /\ Ports \subseteq Nat /\ HttpPort \in LocalPorts /\ LocalPorts \subseteq Nat \ {0}
ASSUME AddressAssumption == AnyIP \notin IPs
ASSUME TokenAssumption == CRLF \in Tokens
ASSUME SegmentAssumption == Segments \subseteq Segment
ASSUME ResponseAssumption == Responses \subseteq Response

VARIABLES
    sockets,   \* sockets[MaxSockets]
    tcp_now,   \* timer ticks
    out        \* the segments handed to the IP layer by the last step, in order

vars == <<sockets, tcp_now, out>>

\* The states tcp_receive can leave a socket in.  TCP_SYN_SENT and TCP_CLOSING
\* are never assigned, and TCP_LAST_ACK is closed in the statement after it.
States == {"CLOSED", "LISTEN", "SYN_RECEIVED", "ESTABLISHED", "CLOSE_WAIT",
           "FIN_WAIT_1", "FIN_WAIT_2", "TIME_WAIT"}

Socket == [state : States, local_port : LocalPorts \cup {0}, remote_ip : IPs \cup {AnyIP},
           remote_port : Ports, seq : SeqNo, ack : SeqNo, rx : Seq(Tokens), last_activity : Ticks]

\* memset(&sockets[i], 0, sizeof(tcp_socket_t))
ZeroSocket == [state |-> "CLOSED", local_port |-> 0, remote_ip |-> AnyIP, remote_port |-> 0,
               seq |-> 0, ack |-> 0, rx |-> <<>>, last_activity |-> 0]

IsFirst(i, S) == i \in S /\ \A j \in S : i <= j

----
(* The three scans of the table: each returns its first match, so the set of matches is enough. *)

\* Mutant: a slot without a peer is taken for a free one.
PeerlessSlots == {i \in Slots : sockets[i].remote_ip = AnyIP}
ClosedSlots == {i \in Slots : sockets[i].state = "CLOSED"}

\* Mutant: half-open sockets are not found.
MatchesOpen(i, ip, remote, local) ==
    /\ sockets[i].state \notin {"CLOSED", "SYN_RECEIVED"}
    /\ sockets[i].local_port = local /\ sockets[i].remote_port = remote
    /\ sockets[i].remote_ip \in {AnyIP, ip}
Matches(i, ip, remote, local) ==
    /\ sockets[i].state # "CLOSED"
    /\ sockets[i].local_port = local
    /\ sockets[i].remote_port = remote
    /\ sockets[i].remote_ip \in {AnyIP, ip}

Lookup(m) == {i \in Slots : Matches(i, m.ip, m.sport, m.dport)}

Listeners(local) == {i \in Slots : sockets[i].state = "LISTEN" /\ sockets[i].local_port = local}

\* Mutant: closing drops the buffers and leaves the slot in TIME_WAIT.
socket_lingers(s) == [s EXCEPT !.state = "TIME_WAIT", !.rx = <<>>]
socket_close(s) == [s EXCEPT !.state = "CLOSED", !.rx = <<>>]

\* tcp_send_ctrl: a segment without payload, from the socket's own numbers.
Ctrl(s, flags) == [ip |-> s.remote_ip, port |-> s.remote_port, flags |-> flags,
                   seq |-> s.seq, ack |-> s.ack, resp |-> NoResponse]

\* The place of a segment that is not sent.
NoSegment == Ctrl(ZeroSocket, {})

\* tcp_send_data: the response in one segment.  net_send_tcp refuses a payload
\* longer than MaxSegment and its result is ignored; s->seq advances either way.
Data(s, resp) ==
    IF resp.len \in 1 .. MaxSegment
    THEN <<[ip |-> s.remote_ip, port |-> s.remote_port, flags |-> {"ACK", "PSH"},
            seq |-> s.seq, ack |-> s.ack, resp |-> resp]>>
    ELSE <<>>

\* The ends of the empty lines in the receive buffer.
BlankLines(rx) == {i \in 2 .. Len(rx) : rx[i - 1] = CRLF /\ rx[i] = CRLF}

----
(* tcp_receive.  Every branch after the lookup starts by touching the socket. *)

Touch(s, m) == [s EXCEPT !.remote_ip = IF @ = AnyIP THEN m.ip ELSE @,
                         !.last_activity = tcp_now]

Found(i, m) == IsFirst(i, Lookup(m))

Update(i, s, segs) == /\ sockets' = [sockets EXCEPT ![i] = s]
                      /\ out' = segs
                      /\ UNCHANGED tcp_now

\* Mutant: the socket keeps its own number, which does not count the SYN.
HandshakeKeepsSeq(s, m) ==
    [s EXCEPT !.ack = Add(m.seq, 1), !.state = IF "ACK" \in m.flags THEN "ESTABLISHED" ELSE @]

\* case TCP_SYN_RECEIVED: the socket after segment m, and the answer to it.
Handshake(s, m) ==
    LET a == [s EXCEPT !.ack = Add(m.seq, 1)]
    IN  IF "ACK" \in m.flags
        THEN [a EXCEPT !.state = "ESTABLISHED", !.seq = m.ack]
        ELSE a
HandshakeReply(s, m) ==
    <<Ctrl(Handshake(s, m), IF "ACK" \in m.flags THEN {"ACK"} ELSE {"SYN", "ACK"})>>

\* The initial sequence number of a socket.
Isn(i) == (1000 + (i * 100) + (tcp_now % 65536)) % SeqMod

NewSocket(i, m) == [ZeroSocket EXCEPT !.state = "SYN_RECEIVED", !.local_port = m.dport,
                                      !.remote_port = m.sport, !.remote_ip = m.ip, !.seq = Isn(i)]

\* A SYN that belongs to no socket takes a closed slot and falls into the
\* switch as TCP_SYN_RECEIVED.
Accept(i, m) ==
    /\ IsFirst(i, ClosedSlots)
    /\ "SYN" \in m.flags
    /\ Lookup(m) = {}
    /\ Listeners(m.dport) # {}
    /\ LET s == Touch(NewSocket(i, m), m)
       IN  Update(i, Handshake(s, m), HandshakeReply(s, m))

\* Any other segment without a socket is answered by RST, unless it is one.
Reject(m) ==
    /\ Lookup(m) = {}
    /\ "SYN" \notin m.flags \/ Listeners(m.dport) = {} \/ ClosedSlots = {}
    /\ out' = IF "RST" \in m.flags THEN <<>>
              ELSE <<[ip |-> m.ip, port |-> m.sport, flags |-> {"RST"}, seq |-> 0,
                      ack |-> Add(m.seq, IF "SYN" \in m.flags THEN 2 ELSE 1),
                      resp |-> NoResponse]>>
    /\ UNCHANGED <<sockets, tcp_now>>

SynReceived(i, m) ==
    /\ sockets[i].state = "SYN_RECEIVED"
    /\ Found(i, m)
    /\ LET s == Touch(sockets[i], m)
       IN  Update(i, Handshake(s, m), HandshakeReply(s, m))

\* The branches of case TCP_ESTABLISHED, case TCP_CLOSE_WAIT.
Open(i, m) == sockets[i].state \in {"ESTABLISHED", "CLOSE_WAIT"} /\ Found(i, m)

StraySyn(i, m) ==
    /\ "SYN" \in m.flags
    /\ Open(i, m)
    /\ Update(i, Touch(sockets[i], m), <<>>)

\* The socket once the segment's sequence number has been taken over.
Acked(i, m) == [Touch(sockets[i], m) EXCEPT !.ack = Add(m.seq, Len(m.data))]

\* Mutant: one FIN closes the socket.
AfterOnlyFin(s) == socket_close(s)
AfterFin(s) == IF s.state = "ESTABLISHED" THEN [s EXCEPT !.state = "CLOSE_WAIT"] ELSE socket_close(s)

\* A FIN is acknowledged; the second one closes the socket (through LAST_ACK).
PeerFin(i, m) ==
    /\ Open(i, m)
    /\ "SYN" \notin m.flags /\ "FIN" \in m.flags
    /\ LET s == [Acked(i, m) EXCEPT !.ack = Add(@, 1)]
       IN  Update(i, AfterFin(s), <<Ctrl(s, {"ACK"})>>)

NoAck(i, m) ==
    /\ Open(i, m)
    /\ m.flags \cap {"SYN", "FIN", "ACK"} = {}
    /\ Update(i, Acked(i, m), <<>>)

\* Mutant: a payload may fill the buffer to its last byte.
BufferedToTheBrim(i, m) ==
    LET s == Acked(i, m)
    IN  IF Len(s.rx) + Len(m.data) <= RxBufSize THEN [s EXCEPT !.rx = @ \o m.data] ELSE s
\* Mutant: a payload is copied to the start of the buffer.
BufferedAtStart(i, m) == [Acked(i, m) EXCEPT !.rx = IF m.data = <<>> THEN @ ELSE m.data]

\* The payload is appended when it fits and dropped otherwise; it is acknowledged either way.
Buffered(i, m) ==
    LET s == Acked(i, m)
    IN  IF Len(s.rx) + Len(m.data) < RxBufSize THEN [s EXCEPT !.rx = @ \o m.data] ELSE s
DataAck(s, m) == IF m.data # <<>> THEN <<Ctrl(s, {"ACK"})>> ELSE <<>>

Plain(i, m) == "SYN" \notin m.flags /\ "FIN" \notin m.flags /\ "ACK" \in m.flags /\ Open(i, m)

\* No complete request yet.  A segment that leaves the buffer empty is echoed by an ACK.
Collect(i, m) ==
    /\ Plain(i, m)
    /\ LET s == Buffered(i, m)
       IN  /\ BlankLines(s.rx) = {}
           /\ Update(i, s, DataAck(s, m) \o (IF s.rx = <<>> THEN <<Ctrl(s, {"ACK"})>> ELSE <<>>))

\* A complete request is answered, the rest of the buffer dropped, and the
\* connection closed from this side.  The request ends with its empty line.
\* Mutant: the empty line is left off.
RequestWithoutEnd(rx) == SubSeq(rx, 1, (CHOOSE i \in BlankLines(rx) : IsFirst(i, BlankLines(rx))) - 2)
Request(rx) == SubSeq(rx, 1, CHOOSE i \in BlankLines(rx) : IsFirst(i, BlankLines(rx)))
\* Mutant: the buffer is kept; the number is not advanced.
AnsweredKeepsRx(s, resp) == [s EXCEPT !.seq = Add(@, resp.len), !.state = "FIN_WAIT_1"]
AnsweredKeepsSeq(s, resp) == [s EXCEPT !.rx = <<>>, !.state = "FIN_WAIT_1"]
Answered(s, resp) == [s EXCEPT !.seq = Add(@, resp.len), !.rx = <<>>, !.state = "FIN_WAIT_1"]
Serve(i, m) ==
    /\ Plain(i, m)
    /\ LET s == Buffered(i, m)
       IN  /\ BlankLines(s.rx) # {}
           /\ \E resp \in Responses :
                 /\ Answers(Request(s.rx), resp)
                 /\ Update(i, Answered(s, resp),
                           DataAck(s, m) \o Data(s, resp) \o <<Ctrl(Answered(s, resp), {"FIN", "ACK"})>>)

\* case TCP_FIN_WAIT_1: a FIN moves to TIME_WAIT without an answer.
FinWait1(i, m) ==
    /\ sockets[i].state = "FIN_WAIT_1"
    /\ Found(i, m)
    /\ LET s == Touch(sockets[i], m)
       IN  Update(i,
                  IF "FIN" \in m.flags THEN [s EXCEPT !.ack = Add(@, 1), !.state = "TIME_WAIT"]
                  ELSE IF "ACK" \in m.flags THEN [s EXCEPT !.state = "FIN_WAIT_2"]
                  ELSE s,
                  <<>>)

\* case TCP_FIN_WAIT_2: a FIN is acknowledged and the slot released.
FinWait2(i, m) ==
    /\ sockets[i].state = "FIN_WAIT_2"
    /\ Found(i, m)
    /\ LET s == Touch(sockets[i], m)
           a == [s EXCEPT !.ack = Add(@, 1)]
       IN  IF "FIN" \in m.flags THEN Update(i, socket_close(a), <<Ctrl(a, {"ACK"})>>)
           ELSE Update(i, s, <<>>)

\* case TCP_LISTEN and default: the segment has no effect beyond the touch.
Ignored(i, m) ==
    /\ sockets[i].state \in {"LISTEN", "TIME_WAIT"}
    /\ Found(i, m)
    /\ Update(i, Touch(sockets[i], m), <<>>)

tcp_receive(m) ==
    \/ Reject(m)
    \/ \E i \in Slots : \/ Accept(i, m)
                        \/ SynReceived(i, m)
                        \/ StraySyn(i, m)
                        \/ PeerFin(i, m)
                        \/ NoAck(i, m)
                        \/ Collect(i, m)
                        \/ Serve(i, m)
                        \/ FinWait1(i, m)
                        \/ FinWait2(i, m)
                        \/ Ignored(i, m)

----
(* tcp_periodic: one tick; SYN-ACKs pending for more than one tick are sent again. *)

\* Mutant: a signed comparison; no retransmission at all.
ExpiredSigned(i, now) == sockets[i].state = "SYN_RECEIVED" /\ now - sockets[i].last_activity > 1
ExpiredNever(i, now) == FALSE
Expired(i, now) == /\ sockets[i].state = "SYN_RECEIVED"
                   /\ (now - sockets[i].last_activity) % NowMod > 1

\* The retransmissions of one tick in slot order, one entry per slot.
Retries(now) == [n \in 1 .. MaxSockets |->
    IF Expired(n - 1, now) THEN Ctrl(sockets[n - 1], {"SYN", "ACK"}) ELSE NoSegment]

tcp_periodic ==
    LET now == (tcp_now + 1) % NowMod
    IN  /\ tcp_now' = now
        /\ sockets' = [i \in Slots |-> IF Expired(i, now) THEN [sockets[i] EXCEPT !.last_activity = now]
                                       ELSE sockets[i]]
        /\ out' = Retries(now)

\* tcp_init
Init ==
    /\ sockets = [i \in Slots |-> IF i = 0 THEN [ZeroSocket EXCEPT !.state = "LISTEN", !.local_port = HttpPort]
                                  ELSE ZeroSocket]
    /\ tcp_now = 0
    /\ out = <<>>

Next == tcp_periodic \/ \E m \in Segments : tcp_receive(m)

Spec == Init /\ [][Next]_vars

----
OutSegment == [ip : IPs \cup {AnyIP}, port : Ports, flags : SUBSET Flags, seq : SeqNo, ack : SeqNo, resp : Response]

\* Types; the receive buffer never fills: rx_len stays below TCP_RX_BUF_SIZE.
TypeOK ==
    /\ sockets \in [Slots -> Socket]
    /\ \A i \in Slots : Len(sockets[i].rx) < RxBufSize
    /\ tcp_now \in Ticks
    /\ out \in Seq(OutSegment)

\* The listener set up by tcp_init is never lost, reused or doubled, whatever
\* arrives: slot 0 stays TCP_LISTEN on HTTP_PORT and no other slot listens.
ListenerKept ==
    /\ sockets[0].state = "LISTEN" /\ sockets[0].local_port = HttpPort
    /\ \A i \in Slots \ {0} : sockets[i].state # "LISTEN"

\* Two live sockets to one of which a segment of the other's peer may be given.
Ambiguous(i, j) ==
    /\ i # j
    /\ sockets[i].state # "CLOSED" /\ sockets[j].state # "CLOSED"
    /\ sockets[i].remote_port = sockets[j].remote_port
    /\ sockets[i].remote_ip = sockets[j].remote_ip \/ AnyIP \in {sockets[i].remote_ip, sockets[j].remote_ip}

\* Only on the remote ports Z is the lookup ambiguous.
AmbiguousOnlyOn(Z) == \A i, j \in Slots : Ambiguous(i, j) => sockets[i].remote_port \in Z

\* The remote ports from which segments with source address 0.0.0.0 come.  A
\* socket opened by such a segment is a wildcard for its port and is taken over
\* by the next host that uses the port, also one that has a socket already.
ZeroPorts == {m.sport : m \in {n \in Segments : n.ip = AnyIP}}

\* Except on the ports of ZeroPorts, no remote (address, port) has two live
\* sockets, so a segment has at most one socket it can belong to and first-match
\* lookup is exact; while the listener has no address (it matches every host's
\* port 0) no accepted socket has port 0.  Segments from 0.0.0.0 thus
\* confuse no connection of another port.
OneSocketPerPeer == AmbiguousOnlyOn(ZeroPorts)

\* A pending SYN-ACK is never more than one tick old after tcp_periodic, also
\* across the wrap of tcp_now: the unsigned difference never grows past 1.
RetryNeverOverdue ==
    \A i \in Slots : sockets[i].state = "SYN_RECEIVED" =>
        (tcp_now - sockets[i].last_activity) % NowMod <= 1

\* A complete request never stays in a receive buffer: it is answered by the
\* segment that completes it, and a socket that is not open holds no data.
NoPendingRequest ==
    \A i \in Slots : /\ BlankLines(sockets[i].rx) = {}
                     /\ sockets[i].rx # <<>> => sockets[i].state \in {"ESTABLISHED", "CLOSE_WAIT"}

\* The abstract connection table the sockets implement.
Phase(s) == CASE s.state = "SYN_RECEIVED" -> "opening"
              [] s.state = "ESTABLISHED" -> "open"
              [] s.state = "CLOSE_WAIT" -> "halfclosed"
              [] OTHER -> "answered"
AbstractOf(s) == IF s.state = "CLOSED" THEN [phase |-> "free"]
                 ELSE [phase |-> Phase(s), peer |-> <<s.remote_ip, s.remote_port>>]
AbstractConn == [i \in Slots \ {0} |-> AbstractOf(sockets[i])]

Peers == (IPs \cup {AnyIP}) \X Ports

\* A connection opened from 0.0.0.0 passes to the next host that uses its port.
Heirs == [p \in Peers |-> IF p[1] = AnyIP THEN {q \in Peers : q[2] = p[2]} ELSE {p}]

Table == INSTANCE Connections WITH Slots <- Slots \ {0}, conn <- AbstractConn

\* The socket table implements Connections: no slot is opened for a peer that has
\* one, a connection keeps its peer (one from 0.0.0.0 until a host takes it over),
\* one answer per connection, slots released only after a peer's FINs or an answer.
ImplementsConnections == Table!Spec

\* A response and the FIN after it leave in one step, only from an open socket
\* that enters FIN_WAIT_1, with the FIN numbered right behind the response.
AnswerThenFin ==
    [][\A k \in 1 .. Len(out') : out'[k].resp # NoResponse =>
         /\ k + 1 = Len(out') /\ "FIN" \in out'[k + 1].flags
         /\ out'[k + 1].seq = Add(out'[k].seq, out'[k].resp.len)
         /\ \E i \in Slots : /\ sockets[i].state \in {"ESTABLISHED", "CLOSE_WAIT"}
                             /\ sockets'[i].state = "FIN_WAIT_1"
                             /\ sockets'[i].remote_ip = out'[k].ip /\ sockets'[i].remote_port = out'[k].port]_vars
====
