---- MODULE Tcp_proofs ----
(***************************************************************************)
(* Proofs about the socket table of tcp.c, for any number of sockets, any  *)
(* buffer size and any segments.                                           *)
(***************************************************************************)
EXTENDS Tcp, TLAPS

\* What OneSocketPerPeer needs to be inductive: an accepted socket has the
\* listener's port and, unless its port is in Z, a peer; the listener never has a
\* remote port.
AcceptedHavePeer(Z) ==
    /\ \A i \in Slots \ {0} : sockets[i].state # "CLOSED" =>
          /\ sockets[i].remote_ip = AnyIP => sockets[i].remote_port \in Z
          /\ sockets[i].local_port = HttpPort
    /\ sockets[0].remote_port = 0

\* The inductive invariant without the types, where segments from 0.0.0.0 come
\* from the remote ports Z only.
Inv(Z) == ListenerKept /\ AcceptedHavePeer(Z) /\ AmbiguousOnlyOn(Z) /\ RetryNeverOverdue /\ NoPendingRequest

\* A segment that has a source address, or a port of Z.
FromPeer(m, Z) == m.ip = AnyIP => m.sport \in Z

\* Sequence-number arithmetic stays within SeqNo (uint32_t wrap-around).
LEMMA AddType == \A a, b \in Nat : Add(a, b) \in SeqNo
BY NumberAssumption DEF Add, SeqNo

\* A socket that fits the table: its type and the bound of its buffer.
Fits(s) == s \in Socket /\ Len(s.rx) < RxBufSize

\* Every tcp_receive branch that ends in Update keeps the types, given that
\* what it writes has them.
LEMMA UpdateType ==
    ASSUME TypeOK, NEW i \in Slots, NEW s, Fits(s), NEW segs \in Seq(OutSegment), Update(i, s, segs)
    PROVE  TypeOK'
BY DEF Update, TypeOK, Fits

\* A cleared slot (memset in socket_alloc and tcp_init) has the type.
LEMMA ZeroSocketType == Fits(ZeroSocket)
BY NumberAssumption, PortAssumption, TableAssumption DEF ZeroSocket, Fits, Socket, States, SeqNo, Ticks

\* What tcp_send_ctrl sends is a well-formed segment.
LEMMA CtrlType == \A s \in Socket, f \in SUBSET Flags : Ctrl(s, f) \in OutSegment
BY DEF Ctrl, Socket, OutSegment, NoResponse, Response

\* Touching a socket (remote_ip, last_activity) keeps its type and its buffer bound.
LEMMA TouchType ==
    ASSUME NEW s, Fits(s), NEW m \in Segment, tcp_now \in Ticks
    PROVE  Fits(Touch(s, m))
BY DEF Touch, Fits, Socket, Segment

\* case TCP_SYN_RECEIVED keeps the type and answers with one well-formed segment.
LEMMA HandshakeType ==
    ASSUME NEW s, Fits(s), NEW m \in Segment
    PROVE  Fits(Handshake(s, m)) /\ HandshakeReply(s, m) \in Seq(OutSegment)
<1> DEFINE a == [s EXCEPT !.ack = Add(m.seq, 1)]
<1>1. Add(m.seq, 1) \in SeqNo
  BY AddType DEF Segment, SeqNo
<1>2. Fits(a)
  BY <1>1 DEF Fits, Socket
<1>3. Fits(Handshake(s, m))
  BY <1>2 DEF Handshake, Fits, Socket, States, Segment
<1>4. Ctrl(Handshake(s, m), IF "ACK" \in m.flags THEN {"ACK"} ELSE {"SYN", "ACK"}) \in OutSegment
  BY <1>3, CtrlType DEF Fits, Flags
<1> QED
  BY <1>3, <1>4 DEF HandshakeReply

\* Taking over a segment's sequence number keeps the type.
LEMMA AckedType ==
    ASSUME TypeOK, NEW i \in Slots, NEW m \in Segment
    PROVE  Fits(Acked(i, m))
<1>1. Fits(Touch(sockets[i], m))
  BY TouchType DEF TypeOK, Fits
<1>2. Add(m.seq, Len(m.data)) \in SeqNo
  BY AddType DEF Segment, SeqNo
<1> QED
  BY <1>1, <1>2 DEF Acked, Fits, Socket

\* Appending a payload keeps rx_len below TCP_RX_BUF_SIZE: the guard of the memcpy.
LEMMA BufferedType ==
    ASSUME TypeOK, NEW i \in Slots, NEW m \in Segment
    PROVE  Fits(Buffered(i, m)) /\ DataAck(Buffered(i, m), m) \in Seq(OutSegment)
<1>1. Fits(Acked(i, m)) /\ Acked(i, m).rx \in Seq(Tokens) /\ m.data \in Seq(Tokens)
  BY AckedType DEF Fits, Socket, Segment
<1>2. Acked(i, m).rx \o m.data \in Seq(Tokens) /\ Len(Acked(i, m).rx \o m.data) = Len(Acked(i, m).rx) + Len(m.data)
  BY <1>1
<1>3. Fits(Buffered(i, m))
  BY <1>1, <1>2 DEF Buffered, Fits, Socket
<1>4. Ctrl(Buffered(i, m), {"ACK"}) \in OutSegment
  BY <1>3, CtrlType DEF Fits, Flags
<1> QED
  BY <1>3, <1>4 DEF DataAck

\* Answering keeps the type; the response, its ACK and the FIN are well-formed.
LEMMA AnsweredType ==
    ASSUME NEW s, Fits(s), NEW resp \in Responses
    PROVE  Fits(Answered(s, resp)) /\ Data(s, resp) \in Seq(OutSegment)
<1>1. resp \in Response /\ s.seq \in Nat
  BY ResponseAssumption DEF Fits, Socket, SeqNo
<1>2. Add(s.seq, resp.len) \in SeqNo
  BY <1>1, AddType DEF Response
<1>3. Fits(Answered(s, resp))
  <2>1. <<>> \in Seq(Tokens) /\ Len(<<>>) < RxBufSize
    BY TableAssumption
  <2>2. "FIN_WAIT_1" \in States
    BY DEF States
  <2> QED
    BY <1>2, <2>1, <2>2 DEF Answered, Fits, Socket
<1>4. Data(s, resp) \in Seq(OutSegment)
  <2> DEFINE seg == [ip |-> s.remote_ip, port |-> s.remote_port, flags |-> {"ACK", "PSH"},
                     seq |-> s.seq, ack |-> s.ack, resp |-> resp]
  <2>1. {"ACK", "PSH"} \in SUBSET Flags
    BY DEF Flags
  <2>2. seg \in OutSegment
    BY <1>1, <2>1 DEF OutSegment, Fits, Socket
  <2>3. <<seg>> \in Seq(OutSegment) /\ <<>> \in Seq(OutSegment)
    BY <2>2
  <2> QED
    BY <2>3 DEF Data
<1> QED
  BY <1>3, <1>4

----
(* Type correctness. *)

\* tcp_init establishes the types.
LEMMA InitType == Init => TypeOK
<1> SUFFICES ASSUME Init PROVE TypeOK
  OBVIOUS
<1>1. Fits([ZeroSocket EXCEPT !.state = "LISTEN", !.local_port = HttpPort])
  BY ZeroSocketType, PortAssumption DEF Fits, Socket, States, ZeroSocket
<1>2. tcp_now \in Ticks /\ out \in Seq(OutSegment)
  BY NumberAssumption DEF Init, Ticks
<1> QED
  BY <1>1, <1>2, ZeroSocketType DEF Init, TypeOK, Fits

\* The buffer of a closing socket is emptied.
LEMMA CloseType == \A s : Fits(s) => Fits(socket_close(s))
<1>1. <<>> \in Seq(Tokens) /\ Len(<<>>) < RxBufSize
  BY TableAssumption
<1>2. "CLOSED" \in States
  BY DEF States
<1> QED
  BY <1>1, <1>2 DEF socket_close, Fits, Socket

\* The socket a SYN creates has the type, its initial sequence number included.
LEMMA NewSocketType ==
    ASSUME TypeOK, NEW i \in Slots, NEW m \in Segment
    PROVE  Fits(NewSocket(i, m))
<1>1. Isn(i) \in SeqNo
  BY NumberAssumption DEF Isn, SeqNo, TypeOK, Ticks, Slots
<1> QED
  BY <1>1, ZeroSocketType DEF NewSocket, Fits, Socket, States, Segment

\* Every branch of tcp_receive keeps the types.
LEMMA ReceiveType ==
    ASSUME TypeOK, NEW m \in Segment, tcp_receive(m)
    PROVE  TypeOK'
<1> DEFINE T(i) == Touch(sockets[i], m)
<1>1. \A i \in Slots : Fits(T(i)) /\ T(i).ack \in Nat
  BY TouchType DEF TypeOK, Fits, Socket, SeqNo
<1>2. \A s : Fits(s) => Ctrl(s, {"ACK"}) \in OutSegment /\ Ctrl(s, {"FIN", "ACK"}) \in OutSegment
  BY CtrlType DEF Fits, Flags
<1>3. <<>> \in Seq(OutSegment)
  OBVIOUS
<1>4. \A n : n \in SeqNo => n \in Nat
  BY DEF SeqNo
<1>5. CASE Reject(m)
  <2>1. {"RST"} \in SUBSET Flags /\ NoResponse \in Response /\ m.seq \in Nat
    BY DEF Flags, NoResponse, Response, Segment, SeqNo
  <2>2. 0 \in SeqNo
    BY NumberAssumption DEF SeqNo
  <2>3. Add(m.seq, 1) \in SeqNo /\ Add(m.seq, 2) \in SeqNo
    BY <2>1, AddType
  <2>4. [ip |-> m.ip, port |-> m.sport, flags |-> {"RST"}, seq |-> 0,
         ack |-> Add(m.seq, IF "SYN" \in m.flags THEN 2 ELSE 1), resp |-> NoResponse] \in OutSegment
    BY <2>1, <2>2, <2>3 DEF OutSegment, Segment
  <2>5. out' \in Seq(OutSegment)
    BY <1>3, <1>5, <2>4 DEF Reject
  <2> QED
    BY <1>5, <2>5 DEF Reject, TypeOK
<1>6. ASSUME NEW i \in Slots, Accept(i, m) PROVE TypeOK'
  <2>1. Fits(Touch(NewSocket(i, m), m))
    BY NewSocketType, TouchType DEF TypeOK
  <2> QED
    BY <1>6, <2>1, HandshakeType, UpdateType DEF Accept
<1>7. ASSUME NEW i \in Slots, SynReceived(i, m) PROVE TypeOK'
  BY <1>1, <1>7, HandshakeType, UpdateType DEF SynReceived
<1>8. ASSUME NEW i \in Slots, StraySyn(i, m) PROVE TypeOK'
  BY <1>1, <1>3, <1>8, UpdateType DEF StraySyn
<1>9. ASSUME NEW i \in Slots, PeerFin(i, m) PROVE TypeOK'
  <2> DEFINE s == [Acked(i, m) EXCEPT !.ack = Add(@, 1)]
             n == IF s.state = "ESTABLISHED" THEN [s EXCEPT !.state = "CLOSE_WAIT"] ELSE socket_close(s)
  <2>1. Add(Acked(i, m).ack, 1) \in SeqNo
    BY <1>4, AckedType, AddType DEF Fits, Socket
  <2>2. Fits(s)
    BY <2>1, AckedType DEF Fits, Socket
  <2>3. Fits(n)
    BY <2>2, CloseType DEF Fits, Socket, States
  <2>4. <<Ctrl(s, {"ACK"})>> \in Seq(OutSegment)
    BY <1>2, <2>2
  <2> QED
    BY <1>9, <2>3, <2>4, UpdateType DEF PeerFin, AfterFin
<1>10. ASSUME NEW i \in Slots, NoAck(i, m) PROVE TypeOK'
  BY <1>3, <1>10, AckedType, UpdateType DEF NoAck
<1>11. ASSUME NEW i \in Slots, Collect(i, m) PROVE TypeOK'
  <2> DEFINE s == Buffered(i, m)
             echo == IF s.rx = <<>> THEN <<Ctrl(s, {"ACK"})>> ELSE <<>>
  <2>1. Fits(s) /\ DataAck(s, m) \in Seq(OutSegment)
    BY BufferedType
  <2>2. echo \in Seq(OutSegment)
    BY <1>2, <1>3, <2>1
  <2>3. DataAck(s, m) \o echo \in Seq(OutSegment)
    BY <2>1, <2>2
  <2> QED
    BY <1>11, <2>1, <2>3, UpdateType DEF Collect
<1>12. ASSUME NEW i \in Slots, Serve(i, m) PROVE TypeOK'
  <2> DEFINE s == Buffered(i, m)
  <2>1. Fits(s) /\ DataAck(s, m) \in Seq(OutSegment)
    BY BufferedType
  <2>2. PICK resp \in Responses :
          Update(i, Answered(s, resp),
                 DataAck(s, m) \o Data(s, resp) \o <<Ctrl(Answered(s, resp), {"FIN", "ACK"})>>)
    BY <1>12 DEF Serve
  <2>3. Fits(Answered(s, resp)) /\ Data(s, resp) \in Seq(OutSegment)
    BY <2>1, AnsweredType
  <2>4. <<Ctrl(Answered(s, resp), {"FIN", "ACK"})>> \in Seq(OutSegment)
    BY <1>2, <2>3
  <2>5. DataAck(s, m) \o Data(s, resp) \o <<Ctrl(Answered(s, resp), {"FIN", "ACK"})>> \in Seq(OutSegment)
    BY <2>1, <2>3, <2>4
  <2> QED
    BY <2>2, <2>3, <2>5, UpdateType
<1>13. ASSUME NEW i \in Slots, FinWait1(i, m) PROVE TypeOK'
  <2> DEFINE s == T(i)
             n == IF "FIN" \in m.flags THEN [s EXCEPT !.ack = Add(@, 1), !.state = "TIME_WAIT"]
                  ELSE IF "ACK" \in m.flags THEN [s EXCEPT !.state = "FIN_WAIT_2"] ELSE s
  <2>1. Add(s.ack, 1) \in SeqNo /\ Fits(s)
    BY <1>1, AddType
  <2>2. Fits(n)
    BY <2>1 DEF Fits, Socket, States
  <2> QED
    BY <1>3, <1>13, <2>2, UpdateType DEF FinWait1
<1>14. ASSUME NEW i \in Slots, FinWait2(i, m) PROVE TypeOK'
  <2> DEFINE s == T(i)
             a == [s EXCEPT !.ack = Add(@, 1)]
  <2>1. Add(s.ack, 1) \in SeqNo /\ Fits(s)
    BY <1>1, AddType
  <2>2. Fits(a) /\ Fits(socket_close(a))
    BY <2>1, CloseType DEF Fits, Socket
  <2>3. <<Ctrl(a, {"ACK"})>> \in Seq(OutSegment)
    BY <1>2, <2>2
  <2> QED
    BY <1>3, <1>14, <2>1, <2>2, <2>3, UpdateType DEF FinWait2
<1>15. ASSUME NEW i \in Slots, Ignored(i, m) PROVE TypeOK'
  BY <1>1, <1>3, <1>15, UpdateType DEF Ignored
<1> QED
  BY <1>5, <1>6, <1>7, <1>8, <1>9, <1>10, <1>11, <1>12, <1>13, <1>14, <1>15 DEF tcp_receive

\* A timer tick keeps the types.
LEMMA PeriodicType ==
    ASSUME TypeOK, tcp_periodic
    PROVE  TypeOK'
<1> DEFINE now == (tcp_now + 1) % NowMod
<1>1. now \in Ticks
  BY NumberAssumption DEF TypeOK, Ticks
<1>2. \A i \in Slots : Fits(sockets[i]) /\ Fits([sockets[i] EXCEPT !.last_activity = now])
  BY <1>1 DEF TypeOK, Fits, Socket
<1>3. \A n \in 1 .. MaxSockets : n - 1 \in Slots
  BY TableAssumption DEF Slots
<1>4. {"SYN", "ACK"} \in SUBSET Flags /\ {} \in SUBSET Flags
  BY DEF Flags
<1>5. \A n \in 1 .. MaxSockets : Ctrl(sockets[n - 1], {"SYN", "ACK"}) \in OutSegment
  BY <1>2, <1>3, <1>4, CtrlType DEF Fits
<1>6. NoSegment \in OutSegment
  BY <1>4, ZeroSocketType, CtrlType DEF NoSegment, Fits
<1>7. Retries(now) \in Seq(OutSegment)
  BY <1>5, <1>6, TableAssumption DEF Retries
<1> QED
  BY <1>1, <1>2, <1>7 DEF tcp_periodic, TypeOK, Fits

\* The types hold in every state: in particular no sequence of segments makes
\* rx_len reach TCP_RX_BUF_SIZE.
THEOREM TypeCorrect == Spec => []TypeOK
<1>1. TypeOK /\ [Next]_vars => TypeOK'
  <2> SUFFICES ASSUME TypeOK, [Next]_vars PROVE TypeOK'
    OBVIOUS
  <2>1. CASE tcp_periodic
    BY <2>1, PeriodicType
  <2>2. ASSUME NEW m \in Segments, tcp_receive(m) PROVE TypeOK'
    BY <2>2, ReceiveType, SegmentAssumption
  <2>3. CASE UNCHANGED vars
    BY <2>3 DEF vars, TypeOK
  <2> QED
    BY <2>1, <2>2, <2>3 DEF Next
<1> QED
  BY <1>1, InitType, PTL DEF Spec

----
(* The listener, the uniqueness of sockets, the timer and the buffers. *)

\* What a segment may do to a socket it belongs to: the peer stays (the listener
\* may learn an address), it stays or stops listening never, the activity time
\* is now, and no complete request is left behind.
Evolves(i, s, m) ==
    /\ sockets[i].state # "CLOSED"
    /\ s.local_port = sockets[i].local_port
    /\ s.remote_port = sockets[i].remote_port
    /\ s.remote_ip = IF sockets[i].remote_ip = AnyIP THEN m.ip ELSE sockets[i].remote_ip
    /\ s.state = "LISTEN" <=> sockets[i].state = "LISTEN"
    /\ s.last_activity = tcp_now
    /\ BlankLines(s.rx) = {}
    /\ s.rx # <<>> => s.state \in {"ESTABLISHED", "CLOSE_WAIT"}

\* A zero difference is not overdue.
LEMMA FreshTimer == \A t \in Ticks : (t - t) % NowMod <= 1
BY NumberAssumption DEF Ticks

\* An empty buffer holds no request.
LEMMA EmptyBuffer == BlankLines(<<>>) = {}
BY DEF BlankLines

\* Changing state and ack of an evolved socket is again an evolution, as long
\* as it neither starts listening nor strands data.
LEMMA EvolvesState ==
    ASSUME NEW i, NEW m, NEW s \in Socket, Evolves(i, s, m), NEW a, NEW st,
           s.state # "LISTEN", st # "LISTEN", s.rx = <<>> \/ st \in {"ESTABLISHED", "CLOSE_WAIT"}
    PROVE  /\ Evolves(i, [s EXCEPT !.state = st], m)
           /\ Evolves(i, [s EXCEPT !.ack = a, !.state = st], m)
<1>1. [s EXCEPT !.state = st].rx = s.rx /\ [s EXCEPT !.ack = a, !.state = st].rx = s.rx
  BY DEF Socket
<1>2. BlankLines(s.rx) = {}
  BY DEF Evolves
<1> QED
  BY <1>1, <1>2 DEF Evolves, Socket

\* A legal evolution of one socket keeps the whole invariant.
LEMMA EvolvesInv ==
    ASSUME NEW Z, TypeOK, Inv(Z), NEW i \in Slots, NEW m \in Segment, NEW s, NEW segs,
           Evolves(i, s, m), Update(i, s, segs)
    PROVE  Inv(Z)'
<1>1. /\ tcp_now' = tcp_now /\ sockets'[i] = s
      /\ \A j \in Slots : j # i => sockets'[j] = sockets[j]
  BY DEF Update, TypeOK
<1>2. 0 \in Slots
  BY TableAssumption DEF Slots
<1>3. ListenerKept'
  BY <1>1, <1>2 DEF Inv, ListenerKept, Evolves
<1>4. AcceptedHavePeer(Z)'
  BY <1>1, <1>2 DEF Inv, AcceptedHavePeer, Evolves
<1>5. AmbiguousOnlyOn(Z)'
  BY <1>1, <1>2 DEF Inv, AmbiguousOnlyOn, Ambiguous, AcceptedHavePeer, Evolves
<1>6. RetryNeverOverdue'
  BY <1>1, FreshTimer DEF Inv, RetryNeverOverdue, Evolves, TypeOK
<1>7. NoPendingRequest'
  BY <1>1 DEF Inv, NoPendingRequest, Evolves
<1> QED
  BY <1>3, <1>4, <1>5, <1>6, <1>7 DEF Inv

\* Touching a live socket is a legal evolution but for its buffer.
LEMMA TouchFields ==
    ASSUME TypeOK, NEW i \in Slots, NEW m \in Segment
    PROVE  LET s == Touch(sockets[i], m)
           IN  /\ s \in Socket
               /\ s.state = sockets[i].state /\ s.rx = sockets[i].rx
               /\ s.local_port = sockets[i].local_port /\ s.remote_port = sockets[i].remote_port
               /\ s.remote_ip = (IF sockets[i].remote_ip = AnyIP THEN m.ip ELSE sockets[i].remote_ip)
               /\ s.last_activity = tcp_now
BY DEF Touch, TypeOK, Socket, Segment

\* Taking over a sequence number changes neither a socket's state, peer nor buffer.
LEMMA AckedFields ==
    ASSUME TypeOK, NEW i \in Slots, NEW m \in Segment
    PROVE  LET s == Touch(sockets[i], m)
               a == Acked(i, m)
           IN  /\ a \in Socket
               /\ a.state = s.state /\ a.rx = s.rx /\ a.local_port = s.local_port
               /\ a.remote_port = s.remote_port /\ a.remote_ip = s.remote_ip
               /\ a.last_activity = s.last_activity
<1>1. Touch(sockets[i], m) \in Socket
  BY TouchFields
<1>2. Acked(i, m) \in Socket
  BY AckedType DEF Fits
<1> QED
  BY <1>1, <1>2 DEF Acked, Socket

\* Buffering a payload changes neither a socket's state nor its peer.
LEMMA BufferedFields ==
    ASSUME TypeOK, NEW i \in Slots, NEW m \in Segment
    PROVE  LET s == Touch(sockets[i], m)
               b == Buffered(i, m)
           IN  /\ b \in Socket
               /\ b.state = s.state /\ b.local_port = s.local_port
               /\ b.remote_port = s.remote_port /\ b.remote_ip = s.remote_ip
               /\ b.last_activity = s.last_activity
<1>1. Buffered(i, m) \in Socket
  BY BufferedType DEF Fits
<1> QED
  BY <1>1, AckedFields DEF Buffered, Socket

\* A new socket belongs to a peer that had none, on the listener's port.
LEMMA AcceptInv ==
    ASSUME NEW Z, TypeOK, Inv(Z), NEW m \in Segment, FromPeer(m, Z), NEW i \in Slots, Accept(i, m)
    PROVE  Inv(Z)'
<1> DEFINE n == Touch(NewSocket(i, m), m)
           h == Handshake(n, m)
<1>1. 0 \in Slots /\ (m.ip = AnyIP => m.sport \in Z)
  BY TableAssumption DEF Slots, FromPeer
<1>2. m.dport = HttpPort
  BY <1>1 DEF Accept, Listeners, Inv, ListenerKept
<1>3. /\ n.state = "SYN_RECEIVED" /\ n.local_port = HttpPort /\ n.remote_port = m.sport
      /\ n.remote_ip = m.ip /\ n.last_activity = tcp_now /\ n.rx = <<>>
  BY <1>1, <1>2 DEF Touch, NewSocket, ZeroSocket
<1>4. /\ h.state \in {"SYN_RECEIVED", "ESTABLISHED"} /\ h.local_port = HttpPort /\ h.remote_port = m.sport
      /\ h.remote_ip = m.ip /\ h.last_activity = tcp_now /\ h.rx = <<>>
  <2>1. n \in Socket
    BY NewSocketType, TouchType DEF TypeOK, Fits
  <2> HIDE DEF n
  <2> QED
    BY <1>3, <2>1 DEF Handshake, Socket
<1> HIDE DEF h
<1>5. i # 0 /\ sockets[i].state = "CLOSED"
  BY DEF Accept, IsFirst, ClosedSlots, Inv, ListenerKept
<1>6. /\ tcp_now' = tcp_now /\ sockets'[i] = h
      /\ \A j \in Slots : j # i => sockets'[j] = sockets[j]
  BY DEF Accept, Update, TypeOK, h
<1>7. \A j \in Slots : ~Matches(j, m.ip, m.sport, HttpPort)
  BY <1>2 DEF Accept, Lookup
<1>8. ListenerKept'
  BY <1>1, <1>4, <1>5, <1>6 DEF Inv, ListenerKept
<1>9. AcceptedHavePeer(Z)'
  BY <1>1, <1>4, <1>5, <1>6 DEF Inv, AcceptedHavePeer
<1>10. AmbiguousOnlyOn(Z)'
  <2>1. \A j \in Slots : j # i /\ sockets[j].state # "CLOSED" =>
           sockets[j].remote_port # m.sport \/ sockets[j].remote_ip \notin {AnyIP, m.ip}
    BY <1>7 DEF Matches, Inv, ListenerKept, AcceptedHavePeer
  <2> QED
    BY <1>1, <1>4, <1>6, <2>1 DEF Inv, AmbiguousOnlyOn, Ambiguous
<1>11. RetryNeverOverdue'
  BY <1>4, <1>6, FreshTimer DEF Inv, RetryNeverOverdue, TypeOK
<1>12. NoPendingRequest'
  BY <1>4, <1>6, EmptyBuffer DEF Inv, NoPendingRequest
<1> QED
  BY <1>8, <1>9, <1>10, <1>11, <1>12 DEF Inv

\* The changes of state the branches of tcp_receive make on a live socket.
Moves(from, to) ==
    \/ from = to
    \/ from = "SYN_RECEIVED" /\ to = "ESTABLISHED"
    \/ from = "ESTABLISHED" /\ to \in {"CLOSE_WAIT", "FIN_WAIT_1"}
    \/ from = "CLOSE_WAIT" /\ to \in {"CLOSED", "FIN_WAIT_1"}
    \/ from = "FIN_WAIT_1" /\ to \in {"FIN_WAIT_2", "TIME_WAIT"}
    \/ from = "FIN_WAIT_2" /\ to = "CLOSED"

Evolution(i, m) ==
    \E s, segs : Evolves(i, s, m) /\ Moves(sockets[i].state, s.state) /\ Update(i, s, segs)

\* tcp_receive does nothing to the table, or opens one new socket, or evolves
\* the one socket the segment belongs to.
LEMMA ReceiveCases ==
    ASSUME NEW Z, TypeOK, Inv(Z), NEW m \in Segment, tcp_receive(m)
    PROVE  \/ Reject(m)
           \/ \E i \in Slots : Accept(i, m) \/ Evolution(i, m)
<1> DEFINE T(i) == Touch(sockets[i], m)
<1>1. \A i \in Slots : /\ sockets[i] \in Socket /\ T(i) \in Socket
                       /\ BlankLines(sockets[i].rx) = {}
                       /\ sockets[i].rx # <<>> => sockets[i].state \in {"ESTABLISHED", "CLOSE_WAIT"}
  BY TouchFields DEF TypeOK, Inv, NoPendingRequest
<1>2. \A i \in Slots : T(i).state = sockets[i].state
  BY TouchFields
<1>3. ASSUME NEW i \in Slots, SynReceived(i, m) PROVE Evolution(i, m)
  <2>1. Evolves(i, Handshake(T(i), m), m)
    BY <1>1, <1>3, TouchFields, EmptyBuffer DEF SynReceived, Handshake, Evolves, Socket
  <2>2. Moves(sockets[i].state, Handshake(T(i), m).state)
    BY <1>1, <1>2, <1>3 DEF SynReceived, Handshake, Socket, Moves
  <2> QED
    BY <1>3, <2>1, <2>2 DEF SynReceived, Evolution
<1>4. ASSUME NEW i \in Slots, StraySyn(i, m) PROVE Evolution(i, m)
  <2>1. Evolves(i, T(i), m)
    BY <1>1, <1>4, TouchFields DEF StraySyn, Open, Evolves
  <2> QED
    BY <1>2, <1>4, <2>1 DEF StraySyn, Evolution, Moves
<1>5. ASSUME NEW i \in Slots, PeerFin(i, m) PROVE Evolution(i, m)
  <2> DEFINE s == [Acked(i, m) EXCEPT !.ack = Add(@, 1)]
  <2>1. /\ Evolves(i, Acked(i, m), m) /\ Acked(i, m) \in Socket
        /\ Acked(i, m).state = sockets[i].state /\ Acked(i, m).state \in {"ESTABLISHED", "CLOSE_WAIT"}
    BY <1>1, <1>5, TouchFields, AckedFields DEF PeerFin, Open, Evolves
  <2>2. s.state = sockets[i].state
    BY <2>1 DEF Socket
  <2>3. CASE sockets[i].state = "ESTABLISHED"
    <3>1. Evolves(i, [Acked(i, m) EXCEPT !.ack = Add(@, 1), !.state = "CLOSE_WAIT"], m)
      BY <2>1, EvolvesState
    <3>2. [s EXCEPT !.state = "CLOSE_WAIT"] = [Acked(i, m) EXCEPT !.ack = Add(@, 1), !.state = "CLOSE_WAIT"]
      OBVIOUS
    <3>3. [s EXCEPT !.state = "CLOSE_WAIT"].state = "CLOSE_WAIT"
      BY <2>1 DEF Socket
    <3> QED
      BY <1>5, <2>2, <2>3, <3>1, <3>2, <3>3 DEF PeerFin, AfterFin, Evolution, Moves
  <2>4. CASE sockets[i].state = "CLOSE_WAIT"
    <3>1. Evolves(i, socket_close(s), m) /\ socket_close(s).state = "CLOSED"
      BY <2>1, EmptyBuffer DEF socket_close, Evolves, Socket
    <3> QED
      BY <1>5, <2>2, <2>4, <3>1 DEF PeerFin, AfterFin, Evolution, Moves
  <2> QED
    BY <2>1, <2>3, <2>4
<1>6. ASSUME NEW i \in Slots, NoAck(i, m) PROVE Evolution(i, m)
  <2>1. Evolves(i, Acked(i, m), m) /\ Acked(i, m).state = sockets[i].state
    BY <1>1, <1>6, TouchFields, AckedFields DEF NoAck, Open, Evolves
  <2> QED
    BY <1>6, <2>1 DEF NoAck, Evolution, Moves
<1>7. ASSUME NEW i \in Slots, Collect(i, m) PROVE Evolution(i, m)
  <2>1. Evolves(i, Buffered(i, m), m) /\ Buffered(i, m).state = sockets[i].state
    BY <1>1, <1>7, TouchFields, BufferedFields DEF Collect, Plain, Open, Evolves
  <2> QED
    BY <1>7, <2>1 DEF Collect, Evolution, Moves
<1>8. ASSUME NEW i \in Slots, Serve(i, m) PROVE Evolution(i, m)
  <2>1. PICK resp \in Responses : \E segs : Update(i, Answered(Buffered(i, m), resp), segs)
    BY <1>8 DEF Serve
  <2>2. Evolves(i, Answered(Buffered(i, m), resp), m)
    BY <1>1, <1>8, TouchFields, BufferedFields, EmptyBuffer DEF Serve, Plain, Open, Answered, Evolves, Socket
  <2>3. Answered(Buffered(i, m), resp).state = "FIN_WAIT_1"
    BY BufferedFields DEF Answered, Socket
  <2> QED
    BY <1>8, <2>1, <2>2, <2>3 DEF Serve, Plain, Open, Evolution, Moves
<1>9. ASSUME NEW i \in Slots, FinWait1(i, m) PROVE Evolution(i, m)
  <2>1. Evolves(i, T(i), m) /\ T(i).state # "LISTEN" /\ T(i).rx = <<>>
    BY <1>1, <1>9, TouchFields DEF FinWait1, Evolves
  <2>2. /\ Evolves(i, [T(i) EXCEPT !.state = "FIN_WAIT_2"], m)
        /\ Evolves(i, [T(i) EXCEPT !.ack = Add(@, 1), !.state = "TIME_WAIT"], m)
    BY <1>1, <2>1, EvolvesState
  <2>3. /\ [T(i) EXCEPT !.state = "FIN_WAIT_2"].state = "FIN_WAIT_2"
        /\ [T(i) EXCEPT !.ack = Add(@, 1), !.state = "TIME_WAIT"].state = "TIME_WAIT"
    BY <1>1 DEF Socket
  <2> QED
    BY <1>2, <1>9, <2>1, <2>2, <2>3 DEF FinWait1, Evolution, Moves
<1>10. ASSUME NEW i \in Slots, FinWait2(i, m) PROVE Evolution(i, m)
  <2> DEFINE c == socket_close([T(i) EXCEPT !.ack = Add(@, 1)])
  <2>1. Evolves(i, T(i), m) /\ Evolves(i, c, m) /\ c.state = "CLOSED"
    BY <1>1, <1>10, TouchFields, EmptyBuffer DEF FinWait2, socket_close, Evolves, Socket
  <2> QED
    BY <1>2, <1>10, <2>1 DEF FinWait2, Evolution, Moves
<1>11. ASSUME NEW i \in Slots, Ignored(i, m) PROVE Evolution(i, m)
  <2>1. Evolves(i, T(i), m)
    BY <1>1, <1>11, TouchFields DEF Ignored, Evolves
  <2> QED
    BY <1>2, <1>11, <2>1 DEF Ignored, Evolution, Moves
<1> QED
  BY <1>3, <1>4, <1>5, <1>6, <1>7, <1>8, <1>9, <1>10, <1>11 DEF tcp_receive

\* Every segment keeps the invariant.
LEMMA ReceiveInv ==
    ASSUME NEW Z, TypeOK, Inv(Z), NEW m \in Segment, FromPeer(m, Z), tcp_receive(m)
    PROVE  Inv(Z)'
<1>1. CASE Reject(m)
  BY <1>1 DEF Reject, Inv, ListenerKept, AcceptedHavePeer, AmbiguousOnlyOn, Ambiguous, RetryNeverOverdue, NoPendingRequest
<1>2. ASSUME NEW i \in Slots, Accept(i, m) PROVE Inv(Z)'
  BY <1>2, AcceptInv
<1>3. ASSUME NEW i \in Slots, Evolution(i, m) PROVE Inv(Z)'
  BY <1>3, EvolvesInv DEF Evolution
<1> QED
  BY <1>1, <1>2, <1>3, ReceiveCases

\* A tick changes nothing but activity times, and leaves none overdue.
LEMMA PeriodicInv ==
    ASSUME NEW Z, TypeOK, Inv(Z), tcp_periodic
    PROVE  Inv(Z)'
<1> DEFINE now == (tcp_now + 1) % NowMod
<1>1. \A i \in Slots : /\ sockets'[i] = IF Expired(i, now) THEN [sockets[i] EXCEPT !.last_activity = now] ELSE sockets[i]
                       /\ sockets[i] \in Socket
  BY DEF tcp_periodic, TypeOK
<1>2. \A i \in Slots : /\ sockets'[i].state = sockets[i].state /\ sockets'[i].local_port = sockets[i].local_port
                       /\ sockets'[i].remote_ip = sockets[i].remote_ip /\ sockets'[i].remote_port = sockets[i].remote_port
                       /\ sockets'[i].rx = sockets[i].rx
                       /\ Expired(i, now) => sockets'[i].last_activity = now
  BY <1>1 DEF Socket
<1>3. tcp_now' = now /\ now \in Ticks
  BY NumberAssumption DEF tcp_periodic, TypeOK, Ticks
<1>4. 0 \in Slots
  BY TableAssumption DEF Slots
<1>5. ListenerKept' /\ AcceptedHavePeer(Z)' /\ NoPendingRequest'
  BY <1>2, <1>4 DEF Inv, ListenerKept, AcceptedHavePeer, NoPendingRequest
<1>6. AmbiguousOnlyOn(Z)'
  BY <1>2 DEF Inv, AmbiguousOnlyOn, Ambiguous
<1>7. RetryNeverOverdue'
  <2> SUFFICES ASSUME NEW i \in Slots, sockets'[i].state = "SYN_RECEIVED"
               PROVE  (tcp_now' - sockets'[i].last_activity) % NowMod <= 1
    BY DEF RetryNeverOverdue
  <2>1. CASE Expired(i, now)
    BY <1>2, <1>3, <2>1, FreshTimer
  <2>2. CASE ~Expired(i, now)
    <3>1. ~((now - sockets[i].last_activity) % NowMod > 1)
      BY <1>2, <2>2 DEF Expired
    <3>2. sockets'[i].last_activity = sockets[i].last_activity /\ sockets[i].last_activity \in Ticks
      BY <1>1, <2>2 DEF Socket
    <3> QED
      BY <1>3, <3>1, <3>2, NumberAssumption DEF Ticks
  <2> QED
    BY <2>1, <2>2
<1> QED
  BY <1>5, <1>6, <1>7 DEF Inv

\* tcp_init establishes the invariant.
LEMMA InitInv == ASSUME NEW Z PROVE Init => Inv(Z)
<1> SUFFICES ASSUME Init PROVE Inv(Z)
  OBVIOUS
<1>1. 0 \in Slots
  BY TableAssumption DEF Slots
<1>2. /\ sockets[0].state = "LISTEN" /\ sockets[0].local_port = HttpPort
      /\ sockets[0].remote_port = 0 /\ sockets[0].rx = <<>>
  BY <1>1 DEF Init, ZeroSocket
<1>3. \A i \in Slots : i # 0 => sockets[i].state = "CLOSED" /\ sockets[i].rx = <<>>
  BY DEF Init, ZeroSocket
<1> QED
  BY <1>1, <1>2, <1>3, EmptyBuffer
     DEF Inv, ListenerKept, AcceptedHavePeer, AmbiguousOnlyOn, Ambiguous, RetryNeverOverdue, NoPendingRequest

\* What the environment delivers comes from a peer or from a port of ZeroPorts.
LEMMA SegmentsFromPeers == \A m \in Segments : m \in Segment /\ FromPeer(m, ZeroPorts)
BY SegmentAssumption DEF FromPeer, ZeroPorts

\* The inductive invariant holds in every state.
THEOREM InvCorrect == Spec => []Inv(ZeroPorts)
<1> DEFINE Z == ZeroPorts
<1>1. TypeOK /\ Inv(Z) /\ [Next]_vars => Inv(Z)'
  <2> SUFFICES ASSUME TypeOK, Inv(Z), [Next]_vars PROVE Inv(Z)'
    OBVIOUS
  <2>1. CASE tcp_periodic
    BY <2>1, PeriodicInv, Zenon
  <2>2. ASSUME NEW m \in Segments, tcp_receive(m) PROVE Inv(Z)'
    BY <2>2, ReceiveInv, SegmentsFromPeers, Zenon
  <2>3. CASE UNCHANGED vars
    BY <2>3 DEF vars, Inv, ListenerKept, AcceptedHavePeer, AmbiguousOnlyOn, Ambiguous, RetryNeverOverdue, NoPendingRequest
  <2> QED
    BY <2>1, <2>2, <2>3 DEF Next
<1>2. Init => Inv(Z)
  BY InitInv
<1> QED
  BY <1>1, <1>2, TypeCorrect, PTL DEF Spec

\* Whatever arrives, slot 0 stays the listener on HTTP_PORT and no other slot listens.
THEOREM ListenerSafe == Spec => []ListenerKept
BY InvCorrect, PTL DEF Inv

\* On every remote port from which no segment with source 0.0.0.0 comes, no host
\* ever has two live sockets and none is a wildcard: socket_lookup is exact there,
\* whatever such segments do to the sockets of other ports.
THEOREM LookupExact == Spec => []OneSocketPerPeer
BY InvCorrect, PTL DEF Inv, OneSocketPerPeer

\* A SYN-ACK is never overdue by more than one tick, across every wrap of tcp_now.
THEOREM RetryOnTime == Spec => []RetryNeverOverdue
BY InvCorrect, PTL DEF Inv

\* A complete request never stays unanswered in a receive buffer.
THEOREM RequestsAnswered == Spec => []NoPendingRequest
BY InvCorrect, PTL DEF Inv

----
(* The table implements Connections. *)

\* Writing one accepted slot changes the abstract table in that slot only.
LEMMA AbstractUpdate ==
    ASSUME TypeOK, NEW i \in Slots, NEW s, NEW segs, Update(i, s, segs)
    PROVE  /\ i = 0 => AbstractConn' = AbstractConn
           /\ i # 0 => AbstractConn' = [AbstractConn EXCEPT ![i] = AbstractOf(s)]
<1>1. sockets'[i] = s /\ \A j \in Slots : j # i => sockets'[j] = sockets[j]
  BY DEF Update, TypeOK
<1>2. CASE i = 0
  BY <1>1, <1>2 DEF AbstractConn, AbstractOf, Phase
<1>3. CASE i # 0
  <2>1. AbstractConn' = [j \in Slots \ {0} |-> IF j = i THEN AbstractOf(s) ELSE AbstractOf(sockets[j])]
    BY <1>1, <1>3 DEF AbstractConn, AbstractOf, Phase
  <2> QED
    BY <1>3, <2>1 DEF AbstractConn
<1> QED
  BY <1>2, <1>3

\* A new socket is a Connect of a peer that no slot serves.
LEMMA AcceptRefines ==
    ASSUME NEW Z, TypeOK, Inv(Z), NEW m \in Segment, NEW i \in Slots, Accept(i, m)
    PROVE  Table!Next
<1> DEFINE n == Touch(NewSocket(i, m), m)
           h == Handshake(n, m)
           p == <<m.ip, m.sport>>
<1>1. /\ i # 0 /\ sockets[i].state = "CLOSED" /\ m.dport = HttpPort /\ p \in Peers
  BY DEF Accept, IsFirst, ClosedSlots, Listeners, Inv, ListenerKept, Segment, Peers
<1>2. h.state \in {"SYN_RECEIVED", "ESTABLISHED"} /\ h.remote_ip = m.ip /\ h.remote_port = m.sport
  <2>1. n \in Socket
    BY NewSocketType, TouchType DEF TypeOK, Fits
  <2>2. n.state = "SYN_RECEIVED" /\ n.remote_port = m.sport /\ n.remote_ip = m.ip
    BY DEF Touch, NewSocket, ZeroSocket, Segment
  <2> HIDE DEF n
  <2> QED
    BY <2>1, <2>2 DEF Handshake, Socket
<1> HIDE DEF h
<1>3. AbstractOf(h) \in {[phase |-> ph, peer |-> p] : ph \in {"opening", "open"}}
  BY <1>2 DEF AbstractOf, Phase
<1>4. AbstractConn' = [AbstractConn EXCEPT ![i] = AbstractOf(h)]
  BY <1>1, AbstractUpdate DEF Accept, h
<1>5. ~Table!Busy(i)
  BY <1>1 DEF Table!Busy, Table!Free, AbstractConn, AbstractOf
<1>6. \A t \in Slots \ {0} : Table!Busy(t) => AbstractConn[t].peer # p
  <2> SUFFICES ASSUME NEW t \in Slots \ {0}, sockets[t].state # "CLOSED"
               PROVE  AbstractConn[t].peer # p
    BY DEF Table!Busy, Table!Free, AbstractConn, AbstractOf
  <2>1. ~Matches(t, m.ip, m.sport, m.dport)
    BY DEF Accept, Lookup
  <2>2. sockets[t].remote_port # m.sport \/ sockets[t].remote_ip # m.ip
    BY <1>1, <2>1 DEF Matches, Inv, AcceptedHavePeer
  <2>3. AbstractConn[t].peer = <<sockets[t].remote_ip, sockets[t].remote_port>>
    BY DEF AbstractConn, AbstractOf
  <2> QED
    BY <2>2, <2>3
<1>7. Table!Connect(i, p)
  BY <1>3, <1>4, <1>5, <1>6 DEF Table!Connect
<1> QED
  BY <1>1, <1>7 DEF Table!Next

\* The evolution of a socket is a step of its connection, or none.
LEMMA EvolutionRefines ==
    ASSUME NEW Z, TypeOK, Inv(Z), NEW m \in Segment, NEW i \in Slots, Evolution(i, m)
    PROVE  Table!Next \/ AbstractConn' = AbstractConn
<1>1. PICK s, segs : Evolves(i, s, m) /\ Moves(sockets[i].state, s.state) /\ Update(i, s, segs)
  BY DEF Evolution
<1>2. CASE i = 0
  BY <1>1, <1>2, AbstractUpdate
<1>3. CASE i # 0
  <2> DEFINE p == <<sockets[i].remote_ip, sockets[i].remote_port>>
             q == <<s.remote_ip, s.remote_port>>
  <2>1. /\ sockets[i].state # "CLOSED" /\ s.remote_port = sockets[i].remote_port
        /\ s.remote_ip = IF sockets[i].remote_ip = AnyIP THEN m.ip ELSE sockets[i].remote_ip
    BY <1>1 DEF Evolves
  <2>2. AbstractConn[i] = [phase |-> Phase(sockets[i]), peer |-> p] /\ i \in Slots \ {0}
    BY <1>3, <2>1 DEF AbstractConn, AbstractOf
  <2>3. AbstractConn' = [AbstractConn EXCEPT ![i] = AbstractOf(s)]
    BY <1>1, <1>3, AbstractUpdate
  <2>4. AbstractOf(s) = IF s.state = "CLOSED" THEN Table!Free ELSE [phase |-> Phase(s), peer |-> q]
    BY DEF AbstractOf, Table!Free
  <2>5. AbstractConn[i].phase = Phase(sockets[i]) /\ AbstractConn[i].peer = p
    BY <2>2
  <2>6. q \in Heirs[p]
    <3>1. p \in Peers
      BY DEF Peers, TypeOK, Socket
    <3>2. q \in Peers
      BY <2>1 DEF Peers, TypeOK, Socket, Segment
    <3>3. p[1] = sockets[i].remote_ip /\ p[2] = sockets[i].remote_port /\ q[2] = s.remote_port
      OBVIOUS
    <3>4. p[1] # AnyIP => q = p
      BY <2>1, <3>3
    <3>5. Heirs[p] = IF p[1] = AnyIP THEN {r \in Peers : r[2] = p[2]} ELSE {p}
      BY <3>1 DEF Heirs
    <3> HIDE DEF p, q
    <3> QED
      BY <2>1, <3>2, <3>3, <3>4, <3>5
  <2> DEFINE ph == Phase(sockets[i])
  <2>7. ASSUME NEW to, s.state # "CLOSED", Phase(s) = to
        PROVE  Table!Advance(i, ph, to)
    <3>1. AbstractConn' = [AbstractConn EXCEPT ![i] = [phase |-> to, peer |-> q]]
      BY <2>3, <2>4, <2>7
    <3> HIDE DEF p, q
    <3> QED
      BY <2>5, <2>6, <3>1 DEF Table!Advance
  <2>8. CASE s.state # "CLOSED" /\ Phase(s) = Phase(sockets[i])
    <3>1. ph \in Table!Phases
      BY DEF Phase, Table!Phases
    <3>2. Table!Advance(i, ph, ph)
      BY <2>7, <2>8
    <3>3. Table!Inherit(i)
      BY <3>1, <3>2 DEF Table!Inherit
    <3> QED
      BY <2>2, <3>3 DEF Table!Next
  <2>9. CASE sockets[i].state = "SYN_RECEIVED" /\ s.state = "ESTABLISHED"
    <3>1. ph = "opening" /\ Phase(s) = "open" /\ s.state # "CLOSED"
      BY <2>9 DEF Phase
    <3>2. Table!Establish(i)
      BY <2>7, <3>1, Zenon DEF Table!Establish
    <3> QED
      BY <2>2, <3>2 DEF Table!Next
  <2>10. CASE sockets[i].state = "ESTABLISHED" /\ s.state = "CLOSE_WAIT"
    <3>1. ph = "open" /\ Phase(s) = "halfclosed" /\ s.state # "CLOSED"
      BY <2>10 DEF Phase
    <3>2. Table!PeerCloses(i)
      BY <2>7, <3>1, Zenon DEF Table!PeerCloses
    <3> QED
      BY <2>2, <3>2 DEF Table!Next
  <2>11. CASE sockets[i].state \in {"ESTABLISHED", "CLOSE_WAIT"} /\ s.state = "FIN_WAIT_1"
    <3>1. ph \in {"open", "halfclosed"} /\ Phase(s) = "answered" /\ s.state # "CLOSED"
      BY <2>11 DEF Phase
    <3>2. Table!Advance(i, ph, "answered")
      BY <2>7, <3>1, Zenon
    <3>3. Table!Answer(i)
      BY <3>1, <3>2, Zenon DEF Table!Answer
    <3> QED
      BY <2>2, <3>3 DEF Table!Next
  <2>12. CASE sockets[i].state \in {"CLOSE_WAIT", "FIN_WAIT_2"} /\ s.state = "CLOSED"
    <3>1. Table!Release(i)
      BY <2>3, <2>4, <2>5, <2>12 DEF Table!Release, Phase
    <3> QED
      BY <2>2, <3>1 DEF Table!Next
  <2> QED
    BY <1>1, <2>1, <2>8, <2>9, <2>10, <2>11, <2>12 DEF Moves, Phase
<1> QED
  BY <1>2, <1>3

\* A tick does not touch the abstract table.
LEMMA PeriodicRefines ==
    ASSUME TypeOK, tcp_periodic
    PROVE  AbstractConn' = AbstractConn
<1> DEFINE now == (tcp_now + 1) % NowMod
<1>1. \A i \in Slots : sockets'[i] = IF Expired(i, now) THEN [sockets[i] EXCEPT !.last_activity = now] ELSE sockets[i]
  BY DEF tcp_periodic, TypeOK
<1>2. \A i \in Slots : /\ sockets'[i].state = sockets[i].state
                       /\ sockets'[i].remote_ip = sockets[i].remote_ip
                       /\ sockets'[i].remote_port = sockets[i].remote_port
  BY <1>1 DEF TypeOK, Socket
<1> QED
  BY <1>2 DEF AbstractConn, AbstractOf, Phase

\* tcp.c implements the abstract connection table: no socket is opened for a peer
\* that has one, a connection keeps its peer unless that is 0.0.0.0, every
\* connection is answered at most once, and only an answered or half-closed one
\* is released.
THEOREM Refinement == Spec => ImplementsConnections
<1>1. Init => Table!Init
  BY DEF Init, ZeroSocket, Table!Init, Table!Free, AbstractConn, AbstractOf
<1>2. TypeOK /\ Inv(ZeroPorts) /\ [Next]_vars => [Table!Next]_AbstractConn
  <2> SUFFICES ASSUME TypeOK, Inv(ZeroPorts), [Next]_vars PROVE Table!Next \/ AbstractConn' = AbstractConn
    OBVIOUS
  <2>1. CASE tcp_periodic
    BY <2>1, PeriodicRefines
  <2>2. ASSUME NEW m \in Segments, tcp_receive(m) PROVE Table!Next \/ AbstractConn' = AbstractConn
    <3>1. m \in Segment
      BY SegmentAssumption
    <3>2. CASE Reject(m)
      BY <3>2 DEF Reject, AbstractConn, AbstractOf, Phase
    <3>3. ASSUME NEW i \in Slots, Accept(i, m) PROVE Table!Next
      BY <3>1, <3>3, AcceptRefines
    <3>4. ASSUME NEW i \in Slots, Evolution(i, m) PROVE Table!Next \/ AbstractConn' = AbstractConn
      BY <3>1, <3>4, EvolutionRefines
    <3> QED
      BY <2>2, <3>1, <3>2, <3>3, <3>4, ReceiveCases
  <2>3. CASE UNCHANGED vars
    BY <2>3 DEF vars, AbstractConn, AbstractOf, Phase
  <2> QED
    BY <2>1, <2>2, <2>3 DEF Next
<1> QED
  BY <1>1, <1>2, TypeCorrect, InvCorrect, PTL DEF Spec, ImplementsConnections, Table!Spec

----
(* What one step sends. *)

\* No segment of the sequence carries a response.
Quiet(segs) == \A k \in 1 .. Len(segs) : segs[k].resp = NoResponse

\* A control segment carries no response.
LEMMA CtrlQuiet == Quiet(<<>>) /\ \A s, f : Quiet(<<Ctrl(s, f)>>)
<1>1. \A s, f : Ctrl(s, f).resp = NoResponse
  BY DEF Ctrl
<1> HIDE DEF Ctrl
<1>2. \A x : x.resp = NoResponse => Quiet(<<x>>)
  BY DEF Quiet
<1> QED
  BY <1>1, <1>2 DEF Quiet

\* Segments sent one after the other, none of them with a response.
LEMMA ConcatQuiet ==
    ASSUME NEW S, NEW s \in Seq(S), NEW t \in Seq(S), Quiet(s), Quiet(t)
    PROVE  Quiet(s \o t)
BY DEF Quiet

\* Where the segments are when one more is sent behind two groups of them.
LEMMA ConcatLast ==
    ASSUME NEW S, NEW d \in Seq(S), NEW p \in Seq(S), NEW x \in S, NEW o, o = d \o p \o <<x>>
    PROVE  /\ Len(o) = Len(d) + Len(p) + 1 /\ o[Len(o)] = x
           /\ \A j \in 1 .. Len(d) : o[j] = d[j]
           /\ \A j \in 1 .. Len(p) : o[Len(d) + j] = p[j]
<1> DEFINE c == d \o p
<1>1. /\ c \in Seq(S) /\ Len(c) = Len(d) + Len(p)
      /\ \A j \in 1 .. Len(d) : c[j] = d[j]
      /\ \A j \in 1 .. Len(p) : c[Len(d) + j] = p[j]
  OBVIOUS
<1> DEFINE y == <<x>>
<1>2. o = c \o y /\ Len(y) = 1 /\ y \in Seq(S) /\ y[1] = x
  OBVIOUS
<1> HIDE DEF c, y
<1>3. /\ Len(o) = Len(c) + 1 /\ o[Len(c) + 1] = x
      /\ \A j \in 1 .. Len(c) : o[j] = c[j]
  BY <1>1, <1>2
<1>4. \A j \in 1 .. Len(d) : j \in 1 .. Len(c)
  BY <1>1
<1>5. \A j \in 1 .. Len(p) : Len(d) + j \in 1 .. Len(c)
  BY <1>1
<1> QED
  BY <1>1, <1>3, <1>4, <1>5

\* Every branch of tcp_receive other than the one that answers a request sends
\* control segments only.
LEMMA OthersQuiet ==
    ASSUME TypeOK, NEW m \in Segment, tcp_receive(m), \A i \in Slots : ~Serve(i, m)
    PROVE  Quiet(out')
<1>1. CASE Reject(m)
  BY <1>1 DEF Reject, Quiet
<1>2. ASSUME NEW i \in Slots, Accept(i, m) \/ SynReceived(i, m) PROVE Quiet(out')
  <2>1. \E s : out' = HandshakeReply(s, m)
    BY <1>2, Zenon DEF Accept, SynReceived, Update
  <2> QED
    BY <2>1, CtrlQuiet, Zenon DEF HandshakeReply
<1>3. ASSUME NEW i \in Slots, StraySyn(i, m) \/ NoAck(i, m) \/ FinWait1(i, m) \/ Ignored(i, m) PROVE Quiet(out')
  BY <1>3, CtrlQuiet, Zenon DEF StraySyn, NoAck, FinWait1, Ignored, Update
<1>4. ASSUME NEW i \in Slots, PeerFin(i, m) PROVE Quiet(out')
  BY <1>4, CtrlQuiet, Zenon DEF PeerFin, Update
<1>5. ASSUME NEW i \in Slots, FinWait2(i, m) PROVE Quiet(out')
  <2>1. out' = <<>> \/ \E s : out' = <<Ctrl(s, {"ACK"})>>
    BY <1>5 DEF FinWait2, Update
  <2> QED
    BY <2>1, CtrlQuiet, Zenon
<1>6. ASSUME NEW i \in Slots, Collect(i, m) PROVE Quiet(out')
  <2> DEFINE s == Buffered(i, m)
             a == <<Ctrl(s, {"ACK"})>>
             e == IF s.rx = <<>> THEN a ELSE <<>>
  <2>1. out' = DataAck(s, m) \o e
    BY <1>6 DEF Collect, Update
  <2>2. DataAck(s, m) \in Seq(OutSegment) /\ a \in Seq(OutSegment) /\ <<>> \in Seq(OutSegment)
    BY BufferedType, CtrlType DEF Fits, Flags
  <2>3. Quiet(DataAck(s, m)) /\ Quiet(e)
    BY CtrlQuiet, Zenon DEF DataAck
  <2>4. e \in Seq(OutSegment)
    BY <2>2, Zenon
  <2> HIDE DEF s, e
  <2> QED
    BY <2>1, <2>2, <2>3, <2>4, ConcatQuiet
<1> QED
  BY <1>1, <1>2, <1>3, <1>4, <1>5, <1>6, Zenon DEF tcp_receive

\* A tick sends nothing but SYN-ACKs.
LEMMA PeriodicQuiet == tcp_periodic => Quiet(out')
<1>1. \A s, f : Ctrl(s, f).resp = NoResponse
  BY DEF Ctrl
<1> HIDE DEF Ctrl
<1> SUFFICES ASSUME tcp_periodic PROVE Quiet(out')
  OBVIOUS
<1> DEFINE now == (tcp_now + 1) % NowMod
<1>2. out' = Retries(now)
  BY DEF tcp_periodic
<1> HIDE DEF now
<1>3. Len(Retries(now)) = MaxSockets
  BY TableAssumption DEF Retries
<1>4. \A k \in 1 .. MaxSockets : Retries(now)[k].resp = NoResponse
  BY <1>1, Zenon DEF Retries, NoSegment
<1> QED
  BY <1>2, <1>3, <1>4 DEF Quiet

\* The step that answers a request sends at most one response, with the FIN
\* behind it and numbered right after it.
LEMMA ServeSends ==
    ASSUME TypeOK, NEW m \in Segment, NEW i \in Slots, Serve(i, m), NEW k \in 1 .. Len(out'),
           out'[k].resp # NoResponse
    PROVE  /\ k + 1 = Len(out') /\ "FIN" \in out'[k + 1].flags
           /\ out'[k + 1].seq = Add(out'[k].seq, out'[k].resp.len)
           /\ sockets[i].state \in {"ESTABLISHED", "CLOSE_WAIT"}
           /\ sockets'[i].state = "FIN_WAIT_1"
           /\ sockets'[i].remote_ip = out'[k].ip /\ sockets'[i].remote_port = out'[k].port
<1> DEFINE s == Buffered(i, m)
<1>1. s \in Socket /\ sockets[i].state \in {"ESTABLISHED", "CLOSE_WAIT"}
  BY BufferedFields DEF Serve, Plain, Open
<1>2. PICK resp \in Responses :
        Update(i, Answered(s, resp), DataAck(s, m) \o Data(s, resp) \o <<Ctrl(Answered(s, resp), {"FIN", "ACK"})>>)
  BY DEF Serve
<1> DEFINE n == Answered(s, resp)
           fin == Ctrl(n, {"FIN", "ACK"})
           seg == [ip |-> s.remote_ip, port |-> s.remote_port, flags |-> {"ACK", "PSH"},
                   seq |-> s.seq, ack |-> s.ack, resp |-> resp]
<1>3. /\ n.state = "FIN_WAIT_1" /\ n.remote_ip = s.remote_ip /\ n.remote_port = s.remote_port
      /\ n.seq = Add(s.seq, resp.len)
  <2> HIDE DEF s
  <2> QED
    BY <1>1 DEF Answered, Socket
<1>4. sockets'[i] = n /\ out' = DataAck(s, m) \o Data(s, resp) \o <<fin>>
  BY <1>2 DEF Update, TypeOK
<1>5. DataAck(s, m) \in Seq(OutSegment) /\ Data(s, resp) \in Seq(OutSegment) /\ fin \in OutSegment
  BY BufferedType, AnsweredType, CtrlType DEF Fits, Flags
<1>6. Data(s, resp) = <<>> \/ Data(s, resp) = <<seg>>
  BY DEF Data
<1>7. fin.resp = NoResponse /\ fin.seq = n.seq /\ "FIN" \in fin.flags
  BY DEF Ctrl
<1>8. seg.ip = s.remote_ip /\ seg.port = s.remote_port /\ seg.seq = s.seq /\ seg.resp = resp
  OBVIOUS
<1>9. Quiet(DataAck(s, m))
  BY CtrlQuiet, Zenon DEF DataAck
<1>10. out'[k] = seg /\ k + 1 = Len(out') /\ out'[k + 1] = fin
  <2> DEFINE d == DataAck(s, m)
             p == Data(s, resp)
  <2>1. /\ Len(out') = Len(d) + Len(p) + 1 /\ out'[Len(out')] = fin
        /\ Len(d) \in Nat /\ Len(p) \in Nat
        /\ \A j \in 1 .. Len(d) : out'[j] = d[j]
        /\ \A j \in 1 .. Len(p) : out'[Len(d) + j] = p[j]
    <3> HIDE DEF s, n, fin, seg
    <3> QED
      BY <1>4, <1>5, ConcatLast
  <2>2. k > Len(d) /\ k < Len(out')
    <3>1. ~(k \in 1 .. Len(d))
      BY <1>9, <2>1, Zenon DEF Quiet
    <3>2. k # Len(out')
      BY <1>7, <2>1, Zenon
    <3> HIDE DEF s, n, fin, seg, d, p
    <3> QED
      BY <2>1, <3>1, <3>2
  <2>3. CASE p = <<>>
    <3> HIDE DEF s, n, fin, seg
    <3> QED
      BY <2>1, <2>2, <2>3
  <2>4. CASE p = <<seg>>
    <3> HIDE DEF s, n, fin, seg
    <3> QED
      BY <2>1, <2>2, <2>4
  <2> QED
    BY <1>6, <2>3, <2>4
<1> QED
  BY <1>1, <1>3, <1>4, <1>7, <1>8, <1>10, Zenon

\* A response leaves once, followed by its FIN, and only when its socket stops
\* taking requests: every other step of the server sends control segments only.
THEOREM AnswersOnce == Spec => AnswerThenFin
<1> DEFINE Sends == \A k \in 1 .. Len(out') : out'[k].resp # NoResponse =>
             /\ k + 1 = Len(out') /\ "FIN" \in out'[k + 1].flags
             /\ out'[k + 1].seq = Add(out'[k].seq, out'[k].resp.len)
             /\ \E i \in Slots : /\ sockets[i].state \in {"ESTABLISHED", "CLOSE_WAIT"}
                                 /\ sockets'[i].state = "FIN_WAIT_1"
                                 /\ sockets'[i].remote_ip = out'[k].ip /\ sockets'[i].remote_port = out'[k].port
<1>1. TypeOK /\ [Next]_vars => [Sends]_vars
  <2> SUFFICES ASSUME TypeOK, Next PROVE Sends
    BY Zenon
  <2>1. Quiet(out') => Sends
    BY DEF Quiet
  <2>2. CASE tcp_periodic
    BY <2>1, <2>2, PeriodicQuiet, Zenon
  <2>3. ASSUME NEW m \in Segments, tcp_receive(m) PROVE Sends
    <3>1. m \in Segment
      BY SegmentAssumption
    <3>2. CASE \A i \in Slots : ~Serve(i, m)
      BY <2>1, <2>3, <3>1, <3>2, OthersQuiet, Zenon
    <3>3. ASSUME NEW i \in Slots, Serve(i, m) PROVE Sends
      BY <3>1, <3>3, ServeSends, Zenon
    <3> QED
      BY <3>2, <3>3, Zenon
  <2> QED
    BY <2>2, <2>3, Zenon DEF Next
<1> QED
  BY <1>1, TypeCorrect, PTL DEF Spec, AnswerThenFin
====
