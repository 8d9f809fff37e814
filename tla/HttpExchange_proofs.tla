---- MODULE HttpExchange_proofs ----
(***************************************************************************)
(* Proofs about one exchange per client end to end, for any number of      *)
(* clients, sockets and neighbours, any requests, repetitions and losses   *)
(* of SYNs and SYN-ACKs, in the deployments that SoundDeployment names:    *)
(* the server reads what the client wrote, the client reads the answer to  *)
(* its own request, and the sequence numbers of both ends agree.           *)
(***************************************************************************)
EXTENDS HttpExchange, Tcp_proofs, Arp_proofs, SequenceTheorems

\* The deployments in which the exchange is sound, each condition needed for a
\* reason the runs show: the link does not pad (ip_receive would take padding
\* for payload), the table of arp.c has room for all neighbours (otherwise
\* acknowledgements are dropped and the client repeats data), the network loses
\* SYNs and SYN-ACKs but no acknowledgement, and none carries data (tcp_receive
\* drops the payload of the segment that ends the handshake, and takes repeated
\* data twice), a request fits the receive buffer and is shorter than the number
\* space, and every response fits one segment.
SoundDeployment ==
    /\ Padding = <<>> /\ LostAcks = {} /\ ~AckData
    /\ IsFiniteSet(Neighbours) /\ Cardinality(Neighbours) <= ArpTableSize
    /\ \A c \in Clients : Len(Wanted[c]) < RxBufSize /\ Len(Wanted[c]) < SeqMod
    /\ \A resp \in Responses : resp.len \in 1 .. MaxSegment

\* Requests without a body: the first empty line is the end.
RequestsEndBlank == \A c \in Clients : BlankLines(Wanted[c]) = {Len(Wanted[c])}

----
(* The invariant, for client c with record k, the wire u to the server, the *)
(* wire d to the client and a socket s.                                     *)

ClientRecord == [st : ClientStates, retries : Nat, sent : Nat, una : Nat, rcv : SeqNo, status : Nat]

\* States of a client that has not been connected yet.
Young == {"idle", "syn_sent", "refused"}
IsSyn(m) == "SYN" \in m.flags

\* A segment on the wire to the server: a SYN, or a piece of the request at the
\* place its number says, without a FIN until the client has closed.
UpSegment(c, k, m) ==
    /\ m \in Segment /\ m.ip = Host /\ m.sport = c /\ m.dport = HttpPort
    /\ IF IsSyn(m) THEN m.flags = {"SYN"}
       ELSE /\ m.flags \in {{"ACK"}, {"ACK", "PSH"}, {"FIN", "ACK"}}
            /\ m.seq + Len(m.data) <= k.sent
            /\ m.data = SubSeq(Wanted[c], m.seq + 1, m.seq + Len(m.data))
            /\ "FIN" \in m.flags => k.st \in {"last_ack", "done"}

\* Segment n comes right after m: behind the SYNs the bare ACK that ends the
\* handshake, then the request without gaps.
Follows(m, n) ==
    ~IsSyn(n) => IF IsSyn(m) THEN n.seq = 0 /\ n.data = <<>> ELSE n.seq = m.seq + Len(m.data)

UpInv(c, k, u) ==
    /\ k \in ClientRecord /\ k.una <= k.sent /\ k.sent <= Len(Wanted[c])
    /\ u \in Seq(Segment)
    /\ \A n \in 1 .. Len(u) : UpSegment(c, k, u[n])
    /\ \A n \in 1 .. Len(u) - 1 : Follows(u[n], u[n + 1])
    /\ \A a, b \in 1 .. Len(u) : a < b /\ IsSyn(u[b]) => IsSyn(u[a])
    /\ k.st \in Young => k.sent = 0 /\ \A n \in 1 .. Len(u) : IsSyn(u[n])
    /\ k.st \notin Young /\ u # <<>> => ~IsSyn(u[Len(u)]) /\ u[Len(u)].seq + Len(u[Len(u)].data) = k.sent

\* Neither a response nor the end of a connection.
Quiescent(g) == g.resp = NoResponse /\ "FIN" \notin g.flags
Harmless(g) == Quiescent(g) /\ "RST" \notin g.flags

\* A half-open socket: every SYN-ACK carries its number, and a client that has
\* taken one up has its ACK under way.
HalfOpen(s, k, u, d) ==
    /\ k.st \in {"syn_sent", "refused", "connected"}
    /\ \A n \in 1 .. Len(d) : Quiescent(d[n]) /\ (IsSyn(d[n]) => d[n].seq = s.seq)
    /\ \A a, b \in 1 .. Len(d) : a < b /\ IsSyn(d[a]) => "RST" \notin d[b].flags
    /\ k.st = "connected" =>
          /\ k.rcv = Add(s.seq, 1)
          /\ \A n \in 1 .. Len(u) : ~IsSyn(u[n]) => u[n].ack = k.rcv
          /\ u # <<>> /\ (~IsSyn(u[1]) => u[1].seq = 0 /\ u[1].data = <<>>)
          /\ \A n \in 1 .. Len(d) : "RST" \notin d[n].flags

\* An open socket: its buffer is what the client sent before the segments under
\* way, both ends agree on the server's number, and what it has buffered is
\* acknowledged or the acknowledgement is the last segment under way.
Transfer(c, s, k, u, d) ==
    /\ k.st = "connected" /\ k.rcv = s.seq
    /\ \A n \in 1 .. Len(u) : ~IsSyn(u[n])
    /\ \A n \in 1 .. Len(d) : Harmless(d[n])
    /\ Len(s.rx) <= k.sent /\ s.rx = SubSeq(Wanted[c], 1, Len(s.rx))
    /\ IF u = <<>> THEN Len(s.rx) = k.sent ELSE u[1].seq = Len(s.rx)
    /\ s.rx # <<>> => \/ k.una >= Len(s.rx)
                      \/ d # <<>> /\ ~IsSyn(d[Len(d)]) /\ d[Len(d)].ack = Len(s.rx)

\* The response and the FIN are the last two segments under way to a client that
\* has not taken them yet, and carry the numbers it expects.
AnswerUnderWay(k, d) ==
    /\ d # <<>> /\ d[Len(d)].resp = NoResponse /\ d[Len(d)].flags = {"FIN", "ACK"}
    /\ \/ /\ d[Len(d)].seq = k.rcv
          /\ \A n \in 1 .. Len(d) - 1 : Harmless(d[n])
       \/ /\ Len(d) > 1
          /\ d[Len(d) - 1].resp # NoResponse /\ d[Len(d) - 1].flags = {"ACK", "PSH"}
          /\ d[Len(d) - 1].seq = k.rcv
          /\ d[Len(d)].seq = Add(k.rcv, d[Len(d) - 1].resp.len)
          /\ \A n \in 1 .. Len(d) - 2 : Harmless(d[n])

SocketInv(c, s, k, u, d) ==
    /\ s.remote_ip = Host
    /\ s.state \in {"SYN_RECEIVED", "ESTABLISHED", "FIN_WAIT_1", "FIN_WAIT_2", "TIME_WAIT"}
    /\ s.state = "SYN_RECEIVED" => HalfOpen(s, k, u, d)
    /\ s.state = "ESTABLISHED" => Transfer(c, s, k, u, d)
    /\ s.state \in {"FIN_WAIT_1", "FIN_WAIT_2", "TIME_WAIT"} =>
          /\ k.st \in {"connected", "closing", "last_ack", "done"}
          /\ \A n \in 1 .. Len(u) : ~IsSyn(u[n])
          /\ k.st = "connected" => AnswerUnderWay(k, d)

\* Without a socket nothing but RSTs is under way to a client that was never
\* connected, and a client that was has closed.
NoSocketInv(k, u, d) ==
    \/ /\ k.st \in Young
       /\ k.st = "idle" => u = <<>> /\ d = <<>>
       /\ \A n \in 1 .. Len(d) : Quiescent(d[n]) /\ ~IsSyn(d[n])
    \/ /\ k.st \in {"last_ack", "done"}
       /\ \A n \in 1 .. Len(u) : ~IsSyn(u[n])

\* Every response under way or taken answers the client's own request.
ResponseInv(c, k, d) ==
    /\ d \in Seq(OutSegment)
    /\ \A n \in 1 .. Len(d) : d[n].resp # NoResponse =>
          d[n].resp \in Responses /\ (RequestsEndBlank => Answers(Wanted[c], d[n].resp))
    /\ k.status # 0 /\ RequestsEndBlank =>
          \E resp \in Responses : resp.status = k.status /\ Answers(Wanted[c], resp)

IsLive(s, c) == s.state # "CLOSED" /\ s.remote_port = c

ClientInv(c, sk, k, u, d) ==
    /\ UpInv(c, k, u)
    /\ \A i \in Slots : IsLive(sk[i], c) => SocketInv(c, sk[i], k, u, d)
    /\ (\A i \in Slots : ~IsLive(sk[i], c)) => NoSocketInv(k, u, d)
    /\ ResponseInv(c, k, d)

\* Whoever has been sent a segment is known to the table and stays so.
HostKnown == (\E c \in Clients : toClient[c] # <<>> \/ client[c].st \notin Young) => Known(Host)

XInv ==
    /\ TypeOK /\ Inv({})
    /\ ArpTypeOK /\ ArpTruthful /\ Remembered /\ HostKnown
    /\ client \in [Clients -> ClientRecord]
    /\ toServer \in [Clients -> Seq(Segment)] /\ toClient \in [Clients -> Seq(OutSegment)]
    /\ \A c \in Clients : ClientInv(c, sockets, client[c], toServer[c], toClient[c])
----
(* Sequences: what Append, Tail and concatenation do to the elements. *)

Extends(u, m, v) ==
    /\ Len(u) \in Nat /\ Len(v) = Len(u) + 1 /\ v # <<>>
    /\ \A n \in 1 .. Len(u) : v[n] = u[n]
    /\ v[Len(u) + 1] = m /\ (u = <<>> <=> Len(u) = 0)

Shortens(u, v) ==
    /\ Len(u) \in Nat \ {0} /\ Len(v) = Len(u) - 1 /\ Len(v) \in Nat
    /\ \A n \in 1 .. Len(v) : v[n] = u[n + 1]
    /\ v = <<>> <=> Len(u) = 1

\* Append adds one element at the end.
LEMMA AppendExtends ==
    ASSUME NEW S, NEW u \in Seq(S), NEW m \in S
    PROVE  Append(u, m) \in Seq(S) /\ Extends(u, m, Append(u, m))
<1>1. Append(u, m) \in Seq(S) /\ Len(Append(u, m)) = Len(u) + 1 /\ Len(u) \in Nat
  OBVIOUS
<1>2. \A n \in 1 .. Len(u) : Append(u, m)[n] = u[n]
  OBVIOUS
<1>3. Append(u, m)[Len(u) + 1] = m
  OBVIOUS
<1>4. Append(u, m) # <<>>
  BY <1>1
<1>5. u = <<>> <=> Len(u) = 0
  OBVIOUS
<1> QED
  BY <1>1, <1>2, <1>3, <1>4, <1>5 DEF Extends

\* Tail drops the first element.
LEMMA TailShortens ==
    ASSUME NEW S, NEW u \in Seq(S), u # <<>>
    PROVE  Tail(u) \in Seq(S) /\ Shortens(u, Tail(u)) /\ Head(u) = u[1] /\ u[1] \in S
<1>1. Tail(u) \in Seq(S) /\ Len(u) \in Nat \ {0} /\ Len(Tail(u)) = Len(u) - 1 /\ Len(Tail(u)) \in Nat
  OBVIOUS
<1>2. \A n \in 1 .. Len(Tail(u)) : Tail(u)[n] = u[n + 1]
  OBVIOUS
<1>3. Head(u) = u[1] /\ u[1] \in S
  OBVIOUS
<1>4. Tail(u) = <<>> <=> Len(u) = 1
  <2>1. Tail(u) = <<>> <=> Len(Tail(u)) = 0
    BY <1>1, EmptySeq, Zenon
  <2> QED
    BY <1>1, <2>1
<1> QED
  BY <1>1, <1>2, <1>3, <1>4 DEF Shortens

----
(* The wire to the server. *)

\* What a segment on the wire says stays true when the client has sent more.
LEMMA UpSegmentKept ==
    ASSUME NEW c, NEW k \in ClientRecord, NEW k2 \in ClientRecord, NEW m, UpSegment(c, k, m),
           k.sent <= k2.sent, k.st \in {"last_ack", "done"} => k2.st \in {"last_ack", "done"}
    PROVE  UpSegment(c, k2, m)
<1>1. ~IsSyn(m) => m.seq + Len(m.data) \in Nat
  BY DEF UpSegment, Segment, SeqNo
<1>2. ~IsSyn(m) /\ m.seq + Len(m.data) <= k.sent => m.seq + Len(m.data) <= k2.sent
  BY <1>1 DEF ClientRecord
<1> QED
  BY <1>2, Zenon DEF UpSegment

\* The client's record changes, the wire does not.
LEMMA UpKept ==
    ASSUME NEW c, NEW k, NEW u, UpInv(c, k, u), NEW k2 \in ClientRecord,
           k2.sent = k.sent, k2.una <= k2.sent,
           k.st \in {"last_ack", "done"} => k2.st \in {"last_ack", "done"},
           k2.st \in Young <=> k.st \in Young
    PROVE  UpInv(c, k2, u)
<1>1. k \in ClientRecord /\ k.sent <= k2.sent
  BY DEF UpInv, ClientRecord
<1>2. \A n \in 1 .. Len(u) : UpSegment(c, k2, u[n])
  BY <1>1, UpSegmentKept, Zenon DEF UpInv
<1> QED
  BY <1>2, Zenon DEF UpInv

\* The server or the network takes the first segment.
LEMMA UpTail ==
    ASSUME NEW c, NEW k, NEW u, UpInv(c, k, u), u # <<>>
    PROVE  /\ UpInv(c, k, Tail(u)) /\ Shortens(u, Tail(u)) /\ Head(u) = u[1]
           /\ UpSegment(c, k, u[1])
           /\ Tail(u) # <<>> => Follows(u[1], Tail(u)[1])
           /\ Tail(u) = <<>> /\ k.st \notin Young => ~IsSyn(u[1]) /\ u[1].seq + Len(u[1].data) = k.sent
<1> DEFINE v == Tail(u)
<1>1. v \in Seq(Segment) /\ Shortens(u, v) /\ Head(u) = u[1]
  BY TailShortens, Zenon DEF UpInv
<1> HIDE DEF v
<1>2. /\ \A n \in 1 .. Len(v) : n + 1 \in 1 .. Len(u)
      /\ \A n \in 1 .. Len(v) - 1 : n \in 1 .. Len(v) /\ n + 1 \in 1 .. Len(v) /\ n + 1 \in 1 .. Len(u) - 1
      /\ Len(v) + 1 = Len(u) /\ 1 \in 1 .. Len(u) /\ (v # <<>> => Len(v) \in 1 .. Len(v) /\ 1 \in 1 .. Len(u) - 1 /\ 1 \in 1 .. Len(v))
      /\ (v = <<>> => Len(u) = 1) /\ 1 + 1 = 2
  BY <1>1 DEF Shortens
<1>3. \A n \in 1 .. Len(v) : v[n] = u[n + 1]
  BY <1>1 DEF Shortens
<1>4. \A n \in 1 .. Len(v) : UpSegment(c, k, v[n])
  BY <1>2, <1>3, Zenon DEF UpInv
<1>5. \A n \in 1 .. Len(v) - 1 : Follows(v[n], v[n + 1])
  BY <1>2, <1>3, Zenon DEF UpInv
<1>6. k.st \in Young => \A n \in 1 .. Len(v) : IsSyn(v[n])
  BY <1>2, <1>3, Zenon DEF UpInv
<1>7. v # <<>> => v[Len(v)] = u[Len(u)]
  BY <1>2, <1>3, Zenon
<1>s. \A a, b \in 1 .. Len(v) : a < b /\ IsSyn(v[b]) => IsSyn(v[a])
  <2>1. \A a, b \in 1 .. Len(v) : a < b => a + 1 < b + 1
    BY <1>1 DEF Shortens
  <2> QED
    BY <1>2, <1>3, <2>1, Zenon DEF UpInv
<1>8. UpInv(c, k, v)
  BY <1>1, <1>4, <1>5, <1>6, <1>7, <1>s, Zenon DEF UpInv
<1>9. UpSegment(c, k, u[1])
  BY <1>2, Zenon DEF UpInv
<1>10. v # <<>> => Follows(u[1], v[1])
  BY <1>2, <1>3, Zenon DEF UpInv
<1>11. v = <<>> /\ k.st \notin Young => ~IsSyn(u[1]) /\ u[1].seq + Len(u[1].data) = k.sent
  BY <1>2, Zenon DEF UpInv
<1> QED
  BY <1>1, <1>8, <1>9, <1>10, <1>11, Zenon DEF v

\* The client sends a segment: a SYN, or the next piece of the request.
LEMMA UpAppend ==
    ASSUME NEW c, NEW k, NEW u, UpInv(c, k, u), NEW k2 \in ClientRecord, NEW m,
           k2.una <= k2.sent, k2.sent <= Len(Wanted[c]), k.sent <= k2.sent,
           k.st \in {"last_ack", "done"} => k2.st \in {"last_ack", "done"},
           UpSegment(c, k2, m),
           k2.st \in Young => k.st \in Young /\ IsSyn(m) /\ k2.sent = 0,
           k2.st \notin Young => /\ ~IsSyn(m) /\ m.seq + Len(m.data) = k2.sent
                                 /\ u # <<>> => m.seq = k.sent
                                 /\ k.st \in Young => m.data = <<>>
    PROVE  UpInv(c, k2, Append(u, m)) /\ Extends(u, m, Append(u, m))
<1> DEFINE v == Append(u, m)
<1>0. m \in Segment
  BY DEF UpSegment
<1>1. v \in Seq(Segment) /\ Extends(u, m, v) /\ k \in ClientRecord
  BY <1>0, AppendExtends, Zenon DEF UpInv
<1> HIDE DEF v
<1>2. \A n \in 1 .. Len(u) : v[n] = u[n] /\ UpSegment(c, k2, u[n])
  BY <1>1, UpSegmentKept, Zenon DEF UpInv, Extends
<1>3. /\ Len(v) = Len(u) + 1 /\ \A n \in 1 .. Len(v) : n \in 1 .. Len(u) \/ n = Len(v)
      /\ \A n \in 1 .. Len(v) - 1 : n \in 1 .. Len(u) /\ n + 1 \in 1 .. Len(v)
                                    /\ (n = Len(u) \/ (n \in 1 .. Len(u) - 1 /\ n + 1 \in 1 .. Len(u)))
  BY <1>1 DEF Extends
<1>4. v[Len(v)] = m /\ v # <<>>
  BY <1>1 DEF Extends
<1>5. \A n \in 1 .. Len(v) : UpSegment(c, k2, v[n])
  BY <1>2, <1>3, <1>4, Zenon
<1>6. ASSUME NEW n \in 1 .. Len(v) - 1 PROVE Follows(v[n], v[n + 1])
  <2>1. CASE n \in 1 .. Len(u) - 1 /\ n + 1 \in 1 .. Len(u)
    BY <1>2, <1>3, <2>1, Zenon DEF UpInv
  <2>2. CASE n = Len(u)
    <3>1. v[n] = u[Len(u)] /\ v[n + 1] = m /\ u # <<>> /\ Len(u) \in 1 .. Len(u)
      BY <1>1, <1>2, <1>3, <1>4, <2>2 DEF Extends
    <3>2. CASE k2.st \in Young
      BY <3>1, <3>2, Zenon DEF UpInv, Follows
    <3>3. CASE k2.st \notin Young /\ k.st \notin Young
      BY <3>1, <3>3 DEF UpInv, Follows
    <3>4. CASE k2.st \notin Young /\ k.st \in Young
      <4>1. IsSyn(u[Len(u)]) /\ k.sent = 0
        BY <3>1, <3>4, Zenon DEF UpInv
      <4> QED
        BY <3>1, <3>4, <4>1, Zenon DEF Follows
    <3> QED
      BY <3>2, <3>3, <3>4, Zenon
  <2> QED
    BY <1>3, <2>1, <2>2, Zenon
<1>7. k2.st \in Young => \A n \in 1 .. Len(v) : IsSyn(v[n])
  BY <1>2, <1>3, <1>4, Zenon DEF UpInv
<1>s. \A a, b \in 1 .. Len(v) : a < b /\ IsSyn(v[b]) => IsSyn(v[a])
  <2>1. \A a, b \in 1 .. Len(v) : a < b => a \in 1 .. Len(u) /\ (b \in 1 .. Len(u) \/ b = Len(v))
    BY <1>3, <1>1 DEF Extends
  <2>2. k2.st \notin Young => ~IsSyn(v[Len(v)])
    BY <1>4, Zenon
  <2> QED
    BY <1>2, <1>3, <1>7, <2>1, <2>2, Zenon DEF UpInv
<1>8. UpInv(c, k2, v)
  BY <1>1, <1>4, <1>5, <1>6, <1>7, <1>s, Zenon DEF UpInv
<1> QED
  BY <1>1, <1>8, Zenon DEF v

----
(* Numbers, and the segments a client sends. *)

\* Number n of the client's stream is n: its initial number is the last one.
LEMMA StreamNumber == \A n \in Nat : n < SeqMod => Add(Iss, 1 + n) = n
BY NumberAssumption DEF Add, Iss

\* The first byte of a client has number 0.
LEMMA FirstNumber == Add(Iss, 1) = 0 /\ Iss \in SeqNo
BY NumberAssumption DEF Add, Iss, SeqNo

\* A stretch of the request.
LEMMA Stretch ==
    ASSUME NEW c \in Clients, NEW a \in Nat, NEW b \in Nat, a <= b, b <= Len(Wanted[c])
    PROVE  SubSeq(Wanted[c], a + 1, b) \in Seq(Tokens) /\ Len(SubSeq(Wanted[c], a + 1, b)) = b - a
<1> DEFINE w == Wanted[c]
<1>1. w \in Seq(Tokens) /\ b <= Len(w)
  BY ExchangeAssumption
<1> HIDE DEF w
<1>2. \A i \in a + 1 .. b : w[i] \in Tokens
  BY <1>1
<1>3. a + 1 \in Int /\ b \in Int
  OBVIOUS
<1>4. SubSeq(w, a + 1, b) \in Seq(Tokens) /\ Len(SubSeq(w, a + 1, b)) = IF a + 1 <= b THEN b - (a + 1) + 1 ELSE 0
  BY <1>2, <1>3, SubSeqProperties, Zenon
<1>5. Len(SubSeq(w, a + 1, b)) = b - a
  BY <1>4
<1> QED
  BY <1>4, <1>5, Zenon DEF w

\* Segment m carries the request from a up to b and acknowledges all received.
Carries(c, k, m, flags, a, b) ==
    /\ UpSegment(c, k, m) /\ ~IsSyn(m) /\ m.seq = a /\ m.seq + Len(m.data) = b
    /\ m.ack = k.rcv /\ m.flags = flags /\ (a = b => m.data = <<>>)

\* A conforming stack puts a piece of the request on the wire.
LEMMA SegmentSent ==
    ASSUME SoundDeployment, NEW c \in Clients, NEW k2 \in ClientRecord, client'[c] = k2,
           NEW flags \in {{"ACK"}, {"ACK", "PSH"}, {"FIN", "ACK"}},
           "FIN" \in flags => k2.st \in {"last_ack", "done"},
           NEW a \in Nat, NEW b \in Nat, a <= b, b <= k2.sent, k2.sent <= Len(Wanted[c])
    PROVE  Carries(c, k2, FromClient(c, flags, Add(Iss, 1 + a), SubSeq(Wanted[c], a + 1, b)), flags, a, b)
<1> DEFINE p == SubSeq(Wanted[c], a + 1, b)
           m == FromClient(c, flags, Add(Iss, 1 + a), p)
<1>0. Len(Wanted[c]) \in Nat /\ Len(Wanted[c]) < SeqMod /\ k2.sent \in Nat
  BY ExchangeAssumption DEF SoundDeployment, ClientRecord
<1>a. b <= Len(Wanted[c])
  BY <1>0
<1>1. p \in Seq(Tokens) /\ Len(p) = b - a
  BY <1>a, Stretch, Zenon
<1>2. Add(Iss, 1 + a) = a /\ a \in SeqNo
  BY <1>0, StreamNumber, NumberAssumption DEF SeqNo
<1>p. p = SubSeq(Wanted[c], a + 1, b)
  OBVIOUS
<1> HIDE DEF p
<1>3. m = [ip |-> Host, sport |-> c, dport |-> HttpPort, flags |-> flags, seq |-> a, ack |-> k2.rcv, data |-> p]
  BY <1>2 DEF FromClient, SoundDeployment
<1> HIDE DEF m
<1>4. a + Len(p) = b /\ (a = b => p = <<>>)
  BY <1>1
<1>5. /\ m.ip = Host /\ m.sport = c /\ m.dport = HttpPort /\ m.flags = flags /\ m.seq = a /\ m.ack = k2.rcv
      /\ m.data = p
  BY <1>3
<1>6. m \in Segment
  <2>1. flags \in SUBSET Flags /\ k2.rcv \in SeqNo
    BY DEF Flags, ClientRecord
  <2>2. Host \in IPs /\ c \in Ports /\ HttpPort \in LocalPorts
    BY ExchangeAssumption, PortAssumption
  <2> QED
    BY <1>1, <1>2, <1>3, <2>1, <2>2 DEF Segment
<1>7. ~IsSyn(m)
  BY <1>5 DEF IsSyn
<1>8. UpSegment(c, k2, m)
  BY <1>4, <1>5, <1>6, <1>7, <1>p DEF UpSegment
<1>9. Carries(c, k2, m, flags, a, b)
  BY <1>4, <1>5, <1>7, <1>8 DEF Carries
<1> QED
  BY <1>9, Zenon DEF m, p

\* A segment without payload.
LEMMA AckSent ==
    ASSUME SoundDeployment, NEW c \in Clients, NEW k2 \in ClientRecord, client'[c] = k2,
           NEW flags \in {{"ACK"}, {"FIN", "ACK"}},
           "FIN" \in flags => k2.st \in {"last_ack", "done"}, k2.sent <= Len(Wanted[c])
    PROVE  Carries(c, k2, FromClient(c, flags, Add(Iss, 1 + k2.sent), <<>>), flags, k2.sent, k2.sent)
<1> DEFINE a == k2.sent
           p == SubSeq(Wanted[c], a + 1, a)
           m == FromClient(c, flags, Add(Iss, 1 + a), p)
<1>1. a \in Nat /\ a <= a /\ flags \in {{"ACK"}, {"ACK", "PSH"}, {"FIN", "ACK"}}
  BY DEF ClientRecord
<1>2. Carries(c, k2, m, flags, a, a)
  <2> HIDE DEF a
  <2> SUFFICES Carries(c, k2, FromClient(c, flags, Add(Iss, 1 + a), SubSeq(Wanted[c], a + 1, a)), flags, a, a)
    OBVIOUS
  <2>1. a <= k2.sent /\ k2.sent <= Len(Wanted[c])
    BY <1>1 DEF a
  <2> QED
    BY <1>1, <2>1, SegmentSent, Zenon
<1>3. p = <<>>
  <2>1. p \in Seq(Tokens) /\ Len(p) = a - a
    BY <1>1, Stretch, Zenon
  <2> HIDE DEF p
  <2> QED
    BY <1>1, <2>1
<1> QED
  BY <1>2, <1>3, Zenon

\* A SYN.
LEMMA SynSent ==
    ASSUME SoundDeployment, NEW c \in Clients, NEW k2 \in ClientRecord, client'[c] = k2
    PROVE  LET m == FromClient(c, {"SYN"}, Iss, <<>>)
           IN  UpSegment(c, k2, m) /\ IsSyn(m)
<1> DEFINE m == FromClient(c, {"SYN"}, Iss, <<>>)
<1>1. m = [ip |-> Host, sport |-> c, dport |-> HttpPort, flags |-> {"SYN"}, seq |-> Iss, ack |-> k2.rcv, data |-> <<>>]
  BY DEF FromClient, SoundDeployment
<1>2. {"SYN"} \in SUBSET Flags /\ k2.rcv \in SeqNo /\ <<>> \in Seq(Tokens)
  BY DEF Flags, ClientRecord
<1>3. Host \in IPs /\ c \in Ports /\ HttpPort \in LocalPorts
  BY ExchangeAssumption, PortAssumption
<1> HIDE DEF m
<1>4. m \in Segment
  <2>1. Iss \in SeqNo
    BY FirstNumber
  <2> QED
    BY <1>1, <1>2, <1>3, <2>1 DEF Segment
<1>5. m.ip = Host /\ m.sport = c /\ m.dport = HttpPort /\ m.flags = {"SYN"}
  BY <1>1
<1>6. UpSegment(c, k2, m) /\ IsSyn(m)
  BY <1>4, <1>5 DEF UpSegment, IsSyn
<1> QED
  BY <1>6 DEF m

----
(* The wire to the client. *)

Joins(d, o, v) ==
    /\ Len(d) \in Nat /\ Len(o) \in Nat /\ Len(v) = Len(d) + Len(o)
    /\ \A n \in 1 .. Len(d) : v[n] = d[n]
    /\ \A n \in 1 .. Len(o) : v[Len(d) + n] = o[n]
    /\ (d = <<>> <=> Len(d) = 0) /\ (v = <<>> <=> Len(v) = 0) /\ (o = <<>> <=> Len(o) = 0)

\* Concatenation joins two sequences.
LEMMA ConcatJoins ==
    ASSUME NEW S, NEW d \in Seq(S), NEW o \in Seq(S)
    PROVE  d \o o \in Seq(S) /\ Joins(d, o, d \o o)
<1> DEFINE v == d \o o
<1>1. v \in Seq(S) /\ Len(v) = Len(d) + Len(o) /\ Len(d) \in Nat /\ Len(o) \in Nat
  OBVIOUS
<1>2. \A n \in 1 .. Len(d) : v[n] = d[n]
  OBVIOUS
<1>3. \A n \in 1 .. Len(o) : v[Len(d) + n] = o[n]
  OBVIOUS
<1> HIDE DEF v
<1>4. (d = <<>> <=> Len(d) = 0) /\ (v = <<>> <=> Len(v) = 0) /\ (o = <<>> <=> Len(o) = 0)
  BY <1>1, EmptySeq, Zenon
<1>5. Joins(d, o, v)
  BY <1>1, <1>2, <1>3, <1>4 DEF Joins
<1> QED
  BY <1>1, <1>5, Zenon DEF v

\* What joins a nonempty sequence is not empty.
LEMMA JoinsNonEmpty ==
    ASSUME NEW d, NEW o, NEW v, Joins(d, o, v), o # <<>>
    PROVE  v # <<>>
<1>1. Len(d) \in Nat /\ Len(o) \in Nat /\ Len(v) = Len(d) + Len(o) /\ Len(o) # 0 /\ (v = <<>> <=> Len(v) = 0)
  BY Zenon DEF Joins
<1>2. Len(v) # 0
  BY <1>1
<1> QED
  BY <1>1, <1>2, Zenon

\* The wire is as before, or o was delivered behind it.
Grows(d, o, v) == Len(d) \in Nat /\ (v = d \/ Joins(d, o, v))

\* Where a segment of the grown wire comes from.
GrownFrom(d, o, v) ==
    \A n \in 1 .. Len(v) : \/ n \in 1 .. Len(d) /\ v[n] = d[n]
                           \/ n > Len(d) /\ \E j \in 1 .. Len(o) : v[n] = o[j]

\* Each segment of a wire that has grown was there before or is new.
LEMMA GrowsAt ==
    ASSUME NEW d, NEW o, NEW v, Grows(d, o, v)
    PROVE  GrownFrom(d, o, v)
<1>1. CASE v = d
  BY <1>1 DEF GrownFrom
<1>2. CASE Joins(d, o, v)
  <2> SUFFICES ASSUME NEW n \in 1 .. Len(v), ~(n \in 1 .. Len(d))
               PROVE  n > Len(d) /\ \E j \in 1 .. Len(o) : v[n] = o[j]
    BY <1>2 DEF Joins, GrownFrom
  <2>1. n > Len(d) /\ n - Len(d) \in 1 .. Len(o) /\ Len(d) + (n - Len(d)) = n
    BY <1>2 DEF Joins
  <2> QED
    BY <1>2, <2>1 DEF Joins
<1> QED
  BY <1>1, <1>2 DEF Grows

\* A half-open socket stays one while its SYN-ACK is sent again.
LEMMA HalfOpenDown ==
    ASSUME NEW s, NEW k, NEW u, NEW d, NEW o, NEW v, HalfOpen(s, k, u, d), Grows(d, o, v),
           \A j \in 1 .. Len(o) : Harmless(o[j]) /\ (IsSyn(o[j]) => o[j].seq = s.seq)
    PROVE  HalfOpen(s, k, u, v)
<1>1. \A n \in 1 .. Len(v) : \/ n \in 1 .. Len(d) /\ v[n] = d[n]
                             \/ n > Len(d) /\ \E j \in 1 .. Len(o) : v[n] = o[j]
  BY GrowsAt DEF GrownFrom
<1>2. \A n \in 1 .. Len(v) : Quiescent(v[n]) /\ (IsSyn(v[n]) => v[n].seq = s.seq)
  BY <1>1, Zenon DEF HalfOpen, Harmless
<1>3. ASSUME NEW a \in 1 .. Len(v), NEW b \in 1 .. Len(v), a < b, IsSyn(v[a]) PROVE "RST" \notin v[b].flags
  <2>1. CASE b \in 1 .. Len(d) /\ v[b] = d[b]
    <3>1. a \in 1 .. Len(d) /\ v[a] = d[a]
      BY <1>1, <1>3, <2>1
    <3> QED
      BY <1>3, <2>1, <3>1, Zenon DEF HalfOpen
  <2>2. CASE \E j \in 1 .. Len(o) : v[b] = o[j]
    BY <2>2, Zenon DEF Harmless
  <2> QED
    BY <1>1, <2>1, <2>2, Zenon
<1>4. k.st = "connected" => \A n \in 1 .. Len(v) : "RST" \notin v[n].flags
  BY <1>1, Zenon DEF HalfOpen, Harmless
<1> QED
  BY <1>2, <1>3, <1>4, Zenon DEF HalfOpen

\* A half-open socket stays one when it reads another SYN.
LEMMA HalfOpenSyn ==
    ASSUME NEW c, NEW s, NEW s2, NEW k, NEW u, NEW d, UpInv(c, k, u), HalfOpen(s, k, u, d), u # <<>>,
           IsSyn(u[1]), s2.seq = s.seq
    PROVE  HalfOpen(s2, k, Tail(u), d)
<1> DEFINE v == Tail(u)
<1>1. /\ Shortens(u, v) /\ (v # <<>> => Follows(u[1], v[1]))
      /\ (v = <<>> /\ k.st \notin Young => ~IsSyn(u[1]))
  BY UpTail, Zenon
<1> HIDE DEF v
<1>2. \A n \in 1 .. Len(v) : n + 1 \in 1 .. Len(u) /\ v[n] = u[n + 1]
  BY <1>1 DEF Shortens
<1>3. ASSUME k.st = "connected"
      PROVE  /\ v # <<>> /\ (~IsSyn(v[1]) => v[1].seq = 0 /\ v[1].data = <<>>)
             /\ \A n \in 1 .. Len(v) : ~IsSyn(v[n]) => v[n].ack = k.rcv
  <2>1. k.st \notin Young
    BY <1>3 DEF Young
  <2>2. \A n \in 1 .. Len(v) : ~IsSyn(v[n]) => v[n].ack = k.rcv
    BY <1>2, <1>3, Zenon DEF HalfOpen
  <2> QED
    BY <1>1, <2>1, <2>2, Zenon DEF Follows
<1>4. HalfOpen(s2, k, v, d)
  BY <1>3, Zenon DEF HalfOpen
<1> QED
  BY <1>4, Zenon DEF v

\* The ACK of the handshake opens the socket with the client's number.
LEMMA Establishes ==
    ASSUME NEW c \in Clients, NEW s, NEW s2, NEW k, NEW u, NEW d, NEW o, NEW e,
           UpInv(c, k, u), HalfOpen(s, k, u, d), u # <<>>, ~IsSyn(u[1]),
           s2.seq = u[1].ack, s2.rx = <<>>, Grows(d, o, e), \A j \in 1 .. Len(o) : Harmless(o[j])
    PROVE  Transfer(c, s2, k, Tail(u), e)
<1> DEFINE v == Tail(u)
<1>1. /\ Shortens(u, v) /\ (v # <<>> => Follows(u[1], v[1]))
      /\ (v = <<>> /\ k.st \notin Young => u[1].seq + Len(u[1].data) = k.sent)
  BY UpTail, Zenon
<1> HIDE DEF v
<1>2. \A n \in 1 .. Len(v) : n + 1 \in 1 .. Len(u) /\ v[n] = u[n + 1] /\ 1 < n + 1
  BY <1>1 DEF Shortens
<1>3. 1 \in 1 .. Len(u)
  BY <1>1 DEF Shortens
<1>4. k.st = "connected" /\ k.st \notin Young
  <2>1. k.st \notin Young
    BY <1>3, Zenon DEF UpInv
  <2> QED
    BY <2>1 DEF HalfOpen, Young
<1>5. k.rcv = s2.seq /\ u[1].seq = 0 /\ u[1].data = <<>>
  BY <1>3, <1>4, Zenon DEF HalfOpen
<1>6. \A n \in 1 .. Len(v) : ~IsSyn(v[n])
  BY <1>2, <1>3, Zenon DEF UpInv
<1>7. v # <<>> => v[1].seq = 0
  <2>1. v # <<>> => 1 \in 1 .. Len(v)
    BY <1>1 DEF Shortens
  <2> QED
    BY <1>1, <1>5, <1>6, <2>1 DEF Follows
<1>8. \A n \in 1 .. Len(e) : Harmless(e[n])
  <2>1. \A n \in 1 .. Len(e) : \/ n \in 1 .. Len(d) /\ e[n] = d[n]
                               \/ \E j \in 1 .. Len(o) : e[n] = o[j]
    BY GrowsAt DEF GrownFrom
  <2>2. \A n \in 1 .. Len(d) : Harmless(d[n])
    BY <1>4, Zenon DEF HalfOpen, Harmless
  <2> QED
    BY <2>1, <2>2, Zenon
<1>9. v = <<>> => k.sent = 0
  BY <1>1, <1>4, <1>5
<1>10. Len(s2.rx) = 0 /\ 0 <= k.sent
  BY DEF UpInv, ClientRecord
<1>11. s2.rx = SubSeq(Wanted[c], 1, Len(s2.rx))
  <2>1. 0 \in Nat /\ 0 <= 0 /\ 0 <= Len(Wanted[c]) /\ 0 + 1 = 1 /\ 0 - 0 = 0
    BY ExchangeAssumption
  <2>2. SubSeq(Wanted[c], 1, 0) \in Seq(Tokens) /\ Len(SubSeq(Wanted[c], 1, 0)) = 0
    BY <2>1, Stretch, Zenon
  <2>3. SubSeq(Wanted[c], 1, 0) = <<>>
    BY <2>2, EmptySeq, Zenon
  <2> QED
    BY <1>10, <2>3, Zenon
<1>12. Transfer(c, s2, k, v, e)
  BY <1>4, <1>5, <1>6, <1>7, <1>8, <1>9, <1>10, <1>11 DEF Transfer
<1> QED
  BY <1>12, Zenon DEF v

----
(* The transfer of the request. *)

\* The elements of a stretch of the request.
LEMMA StretchAt ==
    ASSUME NEW c \in Clients, NEW a \in Nat, NEW b \in Nat, a <= b, b <= Len(Wanted[c])
    PROVE  \A i \in 1 .. b - a : SubSeq(Wanted[c], a + 1, b)[i] = Wanted[c][a + i]
<1> DEFINE w == Wanted[c]
<1>1. w \in Seq(Tokens) /\ b <= Len(w)
  BY ExchangeAssumption
<1> HIDE DEF w
<1>2. \A i \in a + 1 .. b : w[i] \in Tokens
  BY <1>1
<1>3. a + 1 \in Int /\ b \in Int
  OBVIOUS
<1>4. \A i \in 1 .. b - (a + 1) + 1 : SubSeq(w, a + 1, b)[i] = w[(a + 1) + i - 1]
  BY <1>2, <1>3, SubSeqProperties
<1>5. \A i \in 1 .. b - a : i \in 1 .. b - (a + 1) + 1 /\ (a + 1) + i - 1 = a + i
  OBVIOUS
<1>6. \A i \in 1 .. b - a : SubSeq(w, a + 1, b)[i] = w[a + i]
  BY <1>4, <1>5, Zenon
<1> QED
  BY <1>6, Zenon DEF w

\* Two stretches that follow each other.
LEMMA StretchJoin ==
    ASSUME NEW c \in Clients, NEW a \in Nat, NEW b \in Nat, a <= b, b <= Len(Wanted[c])
    PROVE  /\ SubSeq(Wanted[c], 1, a) \o SubSeq(Wanted[c], a + 1, b) = SubSeq(Wanted[c], 1, b)
           /\ Len(SubSeq(Wanted[c], 1, b)) = b
<1> DEFINE w == Wanted[c]
           x == SubSeq(w, 1, a)
           y == SubSeq(w, a + 1, b)
           z == SubSeq(w, 1, b)
<1>0. Len(w) \in Nat
  BY ExchangeAssumption
<1>1. 0 \in Nat /\ 0 <= a /\ 0 <= b /\ a <= Len(w) /\ 0 + 1 = 1 /\ a - 0 = a /\ b - 0 = b
  BY <1>0
<1>2. x \in Seq(Tokens) /\ Len(x) = a
  BY <1>1, Stretch, Zenon
<1>3. y \in Seq(Tokens) /\ Len(y) = b - a
  BY Stretch, Zenon
<1>4. z \in Seq(Tokens) /\ Len(z) = b
  BY <1>1, Stretch, Zenon
<1>5. \A i \in 1 .. a : x[i] = w[0 + i]
  <2>1. \A i \in 1 .. a - 0 : SubSeq(Wanted[c], 0 + 1, a)[i] = Wanted[c][0 + i]
    BY <1>1, StretchAt, Zenon
  <2> QED
    BY <1>1, <2>1
<1>6. \A i \in 1 .. b - a : y[i] = w[a + i]
  BY StretchAt, Zenon
<1>7. \A i \in 1 .. b : z[i] = w[0 + i]
  <2>1. \A i \in 1 .. b - 0 : SubSeq(Wanted[c], 0 + 1, b)[i] = Wanted[c][0 + i]
    BY <1>1, StretchAt, Zenon
  <2> QED
    BY <1>1, <2>1
<1> HIDE DEF w, x, y, z
<1>8. /\ x \o y \in Seq(Tokens) /\ Len(x \o y) = b
      /\ \A i \in 1 .. b : (x \o y)[i] = IF i <= a THEN x[i] ELSE y[i - a]
  BY <1>2, <1>3
<1>9. \A i \in 1 .. b : (x \o y)[i] = z[i]
  <2> SUFFICES ASSUME NEW i \in 1 .. b PROVE (x \o y)[i] = z[i]
    OBVIOUS
  <2>1. i <= a => i \in 1 .. a
    BY <1>1
  <2>2. ~(i <= a) => i - a \in 1 .. b - a /\ a + (i - a) = 0 + i
    BY <1>1
  <2> QED
    BY <1>5, <1>6, <1>7, <1>8, <2>1, <2>2, Zenon
<1>10. x \o y = z
  <2>1. Len(x \o y) = Len(z) /\ \A i \in 1 .. Len(x \o y) : (x \o y)[i] = z[i]
    BY <1>4, <1>8, <1>9, Zenon
  <2> QED
    BY <1>4, <1>8, <2>1, SeqEqual, ZenonT(30)
<1> QED
  BY <1>4, <1>10, Zenon DEF w, x, y, z

\* An open socket reads the next piece of the request.
LEMMA Collects ==
    ASSUME NEW c \in Clients, NEW s, NEW s2, NEW k, NEW u, NEW d, NEW o, NEW e,
           UpInv(c, k, u), Transfer(c, s, k, u, d), u # <<>>,
           s2.seq = s.seq, s2.rx = s.rx \o u[1].data, s.rx \in Seq(Tokens),
           Joins(d, o, e), \A j \in 1 .. Len(o) : Harmless(o[j]) /\ ~IsSyn(o[j]),
           u[1].data # <<>> => o # <<>> /\ o[Len(o)].ack = u[1].seq + Len(u[1].data),
           u[1].data = <<>> /\ s.rx # <<>> => o = <<>>
    PROVE  /\ Transfer(c, s2, k, Tail(u), e)
           /\ Len(s2.rx) = Len(s.rx) + Len(u[1].data)
<1> DEFINE v == Tail(u)
           m == u[1]
<1>1. /\ Shortens(u, v) /\ (v # <<>> => Follows(m, v[1])) /\ UpSegment(c, k, m)
      /\ (v = <<>> /\ k.st \notin Young => m.seq + Len(m.data) = k.sent)
  BY UpTail, Zenon
<1> HIDE DEF v
<1>2. \A n \in 1 .. Len(v) : n + 1 \in 1 .. Len(u) /\ v[n] = u[n + 1]
  BY <1>1 DEF Shortens
<1>3. 1 \in 1 .. Len(u)
  BY <1>1 DEF Shortens
<1>4. k.st \notin Young /\ ~IsSyn(m) /\ \A n \in 1 .. Len(v) : ~IsSyn(v[n])
  <2>1. k.st \notin Young
    BY DEF Transfer, Young
  <2> QED
    BY <1>2, <1>3, <2>1, Zenon DEF Transfer
<1>5. m.seq = Len(s.rx) /\ s.rx = SubSeq(Wanted[c], 1, Len(s.rx))
  BY Zenon DEF Transfer
<1>6. /\ m.data \in Seq(Tokens) /\ m.seq + Len(m.data) <= k.sent
      /\ m.data = SubSeq(Wanted[c], m.seq + 1, m.seq + Len(m.data))
  BY <1>1, <1>4 DEF UpSegment, Segment
<1> DEFINE a == Len(s.rx)
           b == m.seq + Len(m.data)
<1>7. a \in Nat /\ b \in Nat /\ a <= b /\ b <= Len(Wanted[c]) /\ b = a + Len(m.data) /\ b <= k.sent
  <2>1. a \in Nat /\ Len(m.data) \in Nat
    BY <1>6
  <2>2. k.sent <= Len(Wanted[c]) /\ k.sent \in Nat /\ Len(Wanted[c]) \in Nat
    BY ExchangeAssumption DEF UpInv, ClientRecord
  <2> HIDE DEF a
  <2>3. b = a + Len(m.data)
    BY <1>5 DEF a
  <2> HIDE DEF b
  <2>4. b <= k.sent
    BY <1>6 DEF b
  <2> QED
    BY <2>1, <2>2, <2>3, <2>4
<1>8. s2.rx = SubSeq(Wanted[c], 1, b) /\ Len(s2.rx) = b
  <2>1. s2.rx = SubSeq(Wanted[c], 1, a) \o SubSeq(Wanted[c], a + 1, b)
    BY <1>5, <1>6, Zenon
  <2> HIDE DEF a, b
  <2>2. /\ SubSeq(Wanted[c], 1, a) \o SubSeq(Wanted[c], a + 1, b) = SubSeq(Wanted[c], 1, b)
        /\ Len(SubSeq(Wanted[c], 1, b)) = b
    BY <1>7, StretchJoin, Zenon
  <2> QED
    BY <2>1, <2>2, Zenon
<1>9. IF v = <<>> THEN b = k.sent ELSE v[1].seq = b
  <2>1. v # <<>> => 1 \in 1 .. Len(v)
    BY <1>1 DEF Shortens
  <2> QED
    BY <1>1, <1>4, <2>1, Zenon DEF Follows
<1>10. \A n \in 1 .. Len(e) : Harmless(e[n])
  <2>0. Grows(d, o, e)
    BY DEF Grows, Joins
  <2>1. \A n \in 1 .. Len(e) : \/ n \in 1 .. Len(d) /\ e[n] = d[n]
                               \/ \E j \in 1 .. Len(o) : e[n] = o[j]
    BY <2>0, GrowsAt DEF GrownFrom
  <2> QED
    BY <2>1, Zenon DEF Transfer
<1>11. ASSUME s2.rx # <<>>
       PROVE  k.una >= b \/ (e # <<>> /\ ~IsSyn(e[Len(e)]) /\ e[Len(e)].ack = b)
  <2>1. CASE m.data # <<>>
    <3>1. Len(o) \in 1 .. Len(o) /\ Len(e) = Len(d) + Len(o) /\ e # <<>>
      BY <2>1 DEF Joins
    <3>2. e[Len(e)] = o[Len(o)]
      BY <3>1, Zenon DEF Joins
    <3> QED
      BY <2>1, <3>1, <3>2, Zenon
  <2>2. CASE m.data = <<>>
    <3>1. b = a /\ s.rx # <<>>
      <4>1. Len(m.data) = 0
        BY <2>2
      <4> HIDE DEF a, b
      <4>2. b = a
        BY <1>7, <4>1
      <4> QED
        BY <1>5, <1>8, <1>11, <4>2, Zenon DEF a
    <3>2. o = <<>>
      BY <2>2, <3>1, Zenon
    <3>3. Len(e) = Len(d) /\ (d # <<>> => e # <<>> /\ Len(d) \in 1 .. Len(d))
      BY <3>2 DEF Joins
    <3>4. d # <<>> => e[Len(e)] = d[Len(d)]
      BY <3>3, Zenon DEF Joins
    <3>5. k.una >= a \/ (d # <<>> /\ ~IsSyn(d[Len(d)]) /\ d[Len(d)].ack = a)
      BY <3>1, Zenon DEF Transfer
    <3> QED
      BY <3>1, <3>3, <3>4, <3>5, Zenon
  <2> QED
    BY <2>1, <2>2, Zenon
<1>12. k.st = "connected" /\ k.rcv = s2.seq
  BY DEF Transfer
<1> HIDE DEF a, b
<1>13. Len(s2.rx) <= k.sent
  BY <1>7, <1>8
<1>14. Transfer(c, s2, k, v, e)
  BY <1>4, <1>8, <1>9, <1>10, <1>11, <1>12, <1>13, Zenon DEF Transfer
<1> QED
  BY <1>7, <1>8, <1>14, Zenon DEF v, a

----
(* The steps of a client.  What the server's side says of the client's record *)
(* and wires before a step, it says after it.                                *)

Survives(c, k, u, d, k2, u2, d2) ==
    /\ \A s \in Socket : SocketInv(c, s, k, u, d) => SocketInv(c, s, k2, u2, d2)
    /\ NoSocketInv(k, u, d) => NoSocketInv(k2, u2, d2)

\* A client that has been connected sends the next piece of its request, or a
\* segment without payload.
LEMMA SentSurvives ==
    ASSUME NEW c \in Clients, NEW k, NEW k2 \in ClientRecord, NEW u, NEW d, NEW m, NEW flags,
           UpInv(c, k, u), Carries(c, k2, m, flags, k.sent, k2.sent), k.st \notin Young,
           k2.st = k.st, k2.rcv = k.rcv, k2.una = k.una, k.sent <= k2.sent, k2.sent <= Len(Wanted[c])
    PROVE  UpInv(c, k2, Append(u, m)) /\ Survives(c, k, u, d, k2, Append(u, m), d)
<1> DEFINE v == Append(u, m)
<1>0. k \in ClientRecord /\ k2.una <= k2.sent
  BY DEF UpInv, ClientRecord
<1>1. UpSegment(c, k2, m) /\ ~IsSyn(m) /\ m.seq = k.sent /\ m.seq + Len(m.data) = k2.sent /\ m.ack = k2.rcv
  BY DEF Carries
<1>2. UpInv(c, k2, v) /\ Extends(u, m, v)
  BY <1>0, <1>1, UpAppend, Zenon
<1> HIDE DEF v
<1>3. /\ \A n \in 1 .. Len(v) : (n \in 1 .. Len(u) /\ v[n] = u[n]) \/ v[n] = m
      /\ v # <<>> /\ (u # <<>> => v[1] = u[1]) /\ (u = <<>> => v[1] = m)
  BY <1>2 DEF Extends
<1>4. (\A n \in 1 .. Len(u) : ~IsSyn(u[n])) => \A n \in 1 .. Len(v) : ~IsSyn(v[n])
  BY <1>1, <1>3, Zenon
<1>5. ASSUME NEW s, HalfOpen(s, k, u, d) PROVE HalfOpen(s, k2, v, d)
  <2>1. (\A n \in 1 .. Len(u) : ~IsSyn(u[n]) => u[n].ack = k.rcv) => \A n \in 1 .. Len(v) : ~IsSyn(v[n]) => v[n].ack = k2.rcv
    BY <1>1, <1>3, Zenon
  <2> QED
    BY <1>3, <1>5, <2>1, Zenon DEF HalfOpen
<1>6. ASSUME NEW s \in Socket, Transfer(c, s, k, u, d) PROVE Transfer(c, s, k2, v, d)
  <2>1. Len(s.rx) <= k2.sent
    <3>1. Len(s.rx) \in Nat
      BY DEF Socket
    <3> QED
      BY <1>0, <1>6, <3>1 DEF Transfer, ClientRecord
  <2>2. v[1].seq = Len(s.rx)
    BY <1>1, <1>3, <1>6, Zenon DEF Transfer
  <2> QED
    BY <1>3, <1>4, <1>6, <2>1, <2>2, Zenon DEF Transfer
<1>7. AnswerUnderWay(k, d) => AnswerUnderWay(k2, d)
  BY Zenon DEF AnswerUnderWay
<1>8. ASSUME NEW s \in Socket, SocketInv(c, s, k, u, d) PROVE SocketInv(c, s, k2, v, d)
  BY <1>4, <1>5, <1>6, <1>7, <1>8, Zenon DEF SocketInv
<1>9. NoSocketInv(k, u, d) => NoSocketInv(k2, v, d)
  BY <1>4, Zenon DEF NoSocketInv
<1>10. Survives(c, k, u, d, k2, v, d)
  BY <1>8, <1>9, Zenon DEF Survives
<1> QED
  BY <1>2, <1>10, Zenon DEF v

\* The answer is still under way when a segment in front of it has been taken.
LEMMA AnswerTail ==
    ASSUME NEW k, NEW k2, NEW d \in Seq(OutSegment), AnswerUnderWay(k, d), k2.rcv = k.rcv,
           IsSyn(d[1]) \/ (d[1].resp # NoResponse \/ "FIN" \in d[1].flags => d[1].seq # k.rcv)
    PROVE  AnswerUnderWay(k2, Tail(d))
<1> DEFINE e == Tail(d)
<1>1. Shortens(d, e)
  BY TailShortens, Zenon DEF AnswerUnderWay
<1> SUFFICES AnswerUnderWay(k2, e)
  OBVIOUS
<1> HIDE DEF e
<1>2. /\ Len(d) \in Nat \ {0} /\ Len(e) = Len(d) - 1
      /\ \A n \in 1 .. Len(e) : e[n] = d[n + 1]
      /\ e = <<>> <=> Len(d) = 1
  BY <1>1 DEF Shortens
<1>3. d[Len(d)].resp = NoResponse /\ d[Len(d)].flags = {"FIN", "ACK"}
  BY Zenon DEF AnswerUnderWay
<1>4. Len(d) # 1 => e # <<>> /\ e[Len(e)] = d[Len(d)]
  <2>1. Len(d) # 1 => Len(e) \in 1 .. Len(e) /\ Len(e) + 1 = Len(d)
    BY <1>2
  <2> QED
    BY <1>2, <2>1, Zenon
<1>5. CASE d[Len(d)].seq = k.rcv /\ \A n \in 1 .. Len(d) - 1 : Harmless(d[n])
  <2>1. Len(d) # 1
    <3>1. "SYN" \notin {"FIN", "ACK"} /\ "FIN" \in {"FIN", "ACK"}
      OBVIOUS
    <3> QED
      BY <1>3, <1>5, <3>1, Zenon DEF IsSyn
  <2>2. \A n \in 1 .. Len(e) - 1 : n \in 1 .. Len(e) /\ n + 1 \in 1 .. Len(d) - 1
    BY <1>2
  <2>3. \A n \in 1 .. Len(e) - 1 : Harmless(e[n])
    BY <1>2, <1>5, <2>2, Zenon
  <2> QED
    BY <1>3, <1>4, <1>5, <2>1, <2>3, Zenon DEF AnswerUnderWay
<1>6. CASE /\ Len(d) > 1
           /\ d[Len(d) - 1].resp # NoResponse /\ d[Len(d) - 1].flags = {"ACK", "PSH"}
           /\ d[Len(d) - 1].seq = k.rcv
           /\ d[Len(d)].seq = Add(k.rcv, d[Len(d) - 1].resp.len)
           /\ \A n \in 1 .. Len(d) - 2 : Harmless(d[n])
  <2>0. Len(d) - 1 # 1
    <3>1. "SYN" \notin {"ACK", "PSH"}
      OBVIOUS
    <3> QED
      BY <1>6, <3>1, Zenon DEF IsSyn
  <2>1. Len(d) # 1 /\ Len(e) > 1 /\ Len(e) - 1 \in 1 .. Len(e) /\ (Len(e) - 1) + 1 = Len(d) - 1
    BY <1>2, <1>6, <2>0
  <2>2. e[Len(e) - 1] = d[Len(d) - 1]
    BY <1>2, <2>1, Zenon
  <2>3. \A n \in 1 .. Len(e) - 2 : n \in 1 .. Len(e) /\ n + 1 \in 1 .. Len(d) - 2
    BY <1>2
  <2>4. \A n \in 1 .. Len(e) - 2 : Harmless(e[n])
    BY <1>2, <1>6, <2>3, Zenon
  <2> QED
    BY <1>3, <1>4, <1>6, <2>1, <2>2, <2>4, Zenon DEF AnswerUnderWay
<1> QED
  BY <1>5, <1>6, Zenon DEF AnswerUnderWay

\* The client or the network takes a segment that does not change the phase of
\* the connection; an acknowledgement it carries is taken note of.
LEMMA TakenSurvives ==
    ASSUME NEW c \in Clients, NEW k, NEW k2 \in ClientRecord, NEW u, NEW d \in Seq(OutSegment),
           UpInv(c, k, u), d # <<>>,
           k2.st = k.st, k2.rcv = k.rcv, k2.sent = k.sent, k.una <= k2.una, k2.una <= k2.sent,
           IsSyn(d[1]) \/ k.st # "connected" \/ (d[1].ack \in k.una .. k.sent => k2.una >= d[1].ack),
           IsSyn(d[1]) \/ k.st # "connected" \/ (d[1].resp # NoResponse \/ "FIN" \in d[1].flags => d[1].seq # k.rcv)
    PROVE  UpInv(c, k2, u) /\ Survives(c, k, u, d, k2, u, Tail(d))
<1> DEFINE e == Tail(d)
<1>0. UpInv(c, k2, u) /\ k \in ClientRecord
  BY UpKept, Zenon DEF UpInv
<1>1. e \in Seq(OutSegment) /\ Shortens(d, e)
  BY TailShortens, Zenon
<1>2. /\ \A n \in 1 .. Len(e) : n + 1 \in 1 .. Len(d) /\ e[n] = d[n + 1]
      /\ \A a, b \in 1 .. Len(e) : a < b => a + 1 < b + 1
  <2> HIDE DEF e
  <2> QED
    BY <1>1 DEF Shortens
<1>3. ASSUME NEW s, HalfOpen(s, k, u, d) PROVE HalfOpen(s, k2, u, e)
  <2> HIDE DEF e
  <2> QED
    BY <1>2, <1>3, Zenon DEF HalfOpen
<1>4. ASSUME NEW s \in Socket, Transfer(c, s, k, u, d) PROVE Transfer(c, s, k2, u, e)
  <2>0. Len(s.rx) \in Nat /\ k.una \in Nat /\ k2.una \in Nat /\ k.sent \in Nat
    BY <1>0 DEF Socket, ClientRecord
  <2>1. k.una >= Len(s.rx) => k2.una >= Len(s.rx)
    BY <2>0
  <2>2. ASSUME ~(k.una >= Len(s.rx)), s.rx # <<>> PROVE k2.una >= Len(s.rx) \/ (e # <<>> /\ ~IsSyn(e[Len(e)]) /\ e[Len(e)].ack = Len(s.rx))
    <3>1. ~IsSyn(d[Len(d)]) /\ d[Len(d)].ack = Len(s.rx) /\ k.st = "connected" /\ Len(s.rx) <= k.sent
      BY <1>4, <2>2, Zenon DEF Transfer
    <3>2. Len(s.rx) \in k.una .. k.sent
      BY <2>0, <2>2, <3>1
    <3> HIDE DEF e
    <3>3. CASE e = <<>>
      <4>1. Len(d) = 1
        BY <1>1, <3>3, Zenon DEF Shortens
      <4> QED
        BY <3>1, <3>2, <4>1, Zenon
    <3>4. CASE e # <<>>
      <4>1. Len(e) \in 1 .. Len(e) /\ Len(e) + 1 = Len(d)
        BY <1>1, <3>4 DEF Shortens
      <4> QED
        BY <1>2, <3>1, <3>4, <4>1, Zenon
    <3> QED
      BY <3>3, <3>4, Zenon
  <2> HIDE DEF e
  <2> QED
    BY <1>2, <1>4, <2>1, <2>2, Zenon DEF Transfer
<1>5. k.st = "connected" /\ AnswerUnderWay(k, d) => AnswerUnderWay(k2, e)
  BY AnswerTail, Zenon
<1> HIDE DEF e
<1>6. ASSUME NEW s \in Socket, SocketInv(c, s, k, u, d) PROVE SocketInv(c, s, k2, u, e)
  BY <1>3, <1>4, <1>5, <1>6, Zenon DEF SocketInv
<1>7. NoSocketInv(k, u, d) => NoSocketInv(k2, u, e)
  BY <1>2, Zenon DEF NoSocketInv
<1>8. Survives(c, k, u, d, k2, u, e)
  BY <1>6, <1>7, Zenon DEF Survives
<1> QED
  BY <1>0, <1>8, Zenon DEF e

\* A SYN leaves, the first one or a repetition.
LEMMA SynSurvives ==
    ASSUME NEW c \in Clients, NEW k, NEW k2 \in ClientRecord, NEW u, NEW d, NEW m,
           UpInv(c, k, u), k.st \in {"idle", "syn_sent"}, k2.st = "syn_sent", k2.sent = k.sent, k2.una = k.una,
           UpSegment(c, k2, m), IsSyn(m)
    PROVE  UpInv(c, k2, Append(u, m)) /\ Survives(c, k, u, d, k2, Append(u, m), d)
<1> DEFINE v == Append(u, m)
<1>1. k.st \in Young /\ k2.st \in Young /\ k.st \notin {"last_ack", "done"}
  BY DEF Young
<1>2. k2.sent = 0 /\ k2.una <= k2.sent /\ k2.sent <= Len(Wanted[c]) /\ k.sent <= k2.sent
  BY <1>1 DEF UpInv, ClientRecord
<1>3. UpInv(c, k2, v)
  BY <1>1, <1>2, UpAppend, Zenon
<1> HIDE DEF v
<1>4. ASSUME NEW s \in Socket, SocketInv(c, s, k, u, d) PROVE SocketInv(c, s, k2, v, d)
  <2>1. s.state = "SYN_RECEIVED" /\ k.st = "syn_sent"
    BY <1>4 DEF SocketInv, HalfOpen, Transfer
  <2>2. HalfOpen(s, k2, v, d)
    BY <1>4, <2>1 DEF SocketInv, HalfOpen
  <2> QED
    BY <1>4, <2>1, <2>2 DEF SocketInv
<1>5. ASSUME NoSocketInv(k, u, d) PROVE NoSocketInv(k2, v, d)
  <2>1. \A n \in 1 .. Len(d) : Quiescent(d[n]) /\ ~IsSyn(d[n])
    BY <1>1, <1>5, Zenon DEF NoSocketInv
  <2> QED
    BY <1>1, <2>1 DEF NoSocketInv
<1>6. Survives(c, k, u, d, k2, v, d)
  BY <1>4, <1>5, Zenon DEF Survives
<1> QED
  BY <1>3, <1>6, Zenon DEF v

\* The client takes up the SYN-ACK and completes the handshake.
LEMMA ConnectedSurvives ==
    ASSUME NEW c \in Clients, NEW k, NEW k2 \in ClientRecord, NEW u, NEW d \in Seq(OutSegment), NEW m,
           UpInv(c, k, u), d # <<>>, IsSyn(d[1]), k.st = "syn_sent", k2.st = "connected",
           k2.rcv = Add(d[1].seq, 1), k2.sent = k.sent, k2.una = k.una,
           Carries(c, k2, m, {"ACK"}, k2.sent, k2.sent)
    PROVE  UpInv(c, k2, Append(u, m)) /\ Survives(c, k, u, d, k2, Append(u, m), Tail(d))
<1> DEFINE v == Append(u, m)
           e == Tail(d)
<1>1. /\ UpSegment(c, k2, m) /\ ~IsSyn(m) /\ m.seq = k2.sent /\ m.seq + Len(m.data) = k2.sent
      /\ m.ack = k2.rcv /\ m.data = <<>>
  BY DEF Carries
<1>2. k.st \in Young /\ k2.st \notin Young /\ k.st \notin {"last_ack", "done"}
  BY DEF Young
<1>3. /\ k2.sent = 0 /\ k2.una <= k2.sent /\ k2.sent <= Len(Wanted[c]) /\ k.sent <= k2.sent
      /\ \A n \in 1 .. Len(u) : IsSyn(u[n])
  BY <1>2 DEF UpInv, ClientRecord
<1>4. UpInv(c, k2, v) /\ Extends(u, m, v)
  BY <1>1, <1>2, <1>3, UpAppend, Zenon
<1>5. Shortens(d, e)
  BY TailShortens, Zenon
<1> HIDE DEF v, e
<1>6. /\ \A n \in 1 .. Len(v) : (n \in 1 .. Len(u) /\ v[n] = u[n]) \/ v[n] = m
      /\ v # <<>> /\ 1 \in 1 .. Len(v)
  BY <1>4 DEF Extends
<1>7. \A n \in 1 .. Len(e) : n + 1 \in 1 .. Len(d) /\ e[n] = d[n + 1] /\ 1 < n + 1
  BY <1>5 DEF Shortens
<1>8. 1 \in 1 .. Len(d) /\ \A a, b \in 1 .. Len(e) : a < b => a + 1 < b + 1
  BY <1>5 DEF Shortens
<1>9. ASSUME NEW s, HalfOpen(s, k, u, d) PROVE HalfOpen(s, k2, v, e)
  <2>1. \A n \in 1 .. Len(e) : Quiescent(e[n]) /\ (IsSyn(e[n]) => e[n].seq = s.seq)
    BY <1>7, <1>9, Zenon DEF HalfOpen
  <2>2. \A n \in 1 .. Len(e) : "RST" \notin e[n].flags
    BY <1>7, <1>8, <1>9, Zenon DEF HalfOpen
  <2>3. k2.rcv = Add(s.seq, 1)
    BY <1>8, <1>9, Zenon DEF HalfOpen
  <2>4. \A n \in 1 .. Len(v) : ~IsSyn(v[n]) => v[n].ack = k2.rcv /\ v[n].seq = 0 /\ v[n].data = <<>>
    BY <1>1, <1>3, <1>6, Zenon
  <2>5. k2.st \in {"syn_sent", "refused", "connected"}
    OBVIOUS
  <2> QED
    BY <1>6, <2>1, <2>2, <2>3, <2>4, <2>5, Zenon DEF HalfOpen
<1>10. ASSUME NEW s \in Socket, SocketInv(c, s, k, u, d) PROVE SocketInv(c, s, k2, v, e)
  <2>1. s.state = "SYN_RECEIVED"
    BY <1>10 DEF SocketInv, Transfer
  <2> QED
    BY <1>9, <1>10, <2>1 DEF SocketInv
<1>11. ~NoSocketInv(k, u, d)
  BY <1>2, <1>8, Zenon DEF NoSocketInv
<1>12. Survives(c, k, u, d, k2, v, e)
  BY <1>10, <1>11, Zenon DEF Survives
<1> QED
  BY <1>4, <1>12, Zenon DEF v, e

\* The client takes the response: the FIN behind it has the next number.
LEMMA ResponseSurvives ==
    ASSUME NEW c \in Clients, NEW k, NEW k2 \in ClientRecord, NEW u, NEW d \in Seq(OutSegment),
           UpInv(c, k, u), d # <<>>, d[1].resp # NoResponse, k.st = "connected",
           k2.st = k.st, k2.sent = k.sent, k2.una <= k2.sent, k2.rcv = Add(k.rcv, d[1].resp.len)
    PROVE  UpInv(c, k2, u) /\ Survives(c, k, u, d, k2, u, Tail(d))
<1> DEFINE e == Tail(d)
<1>1. UpInv(c, k2, u)
  BY UpKept, Zenon
<1>2. Shortens(d, e)
  BY TailShortens, Zenon
<1> HIDE DEF e
<1>3. 1 \in 1 .. Len(d) /\ Len(d) \in Nat \ {0} /\ Len(e) = Len(d) - 1
  BY <1>2 DEF Shortens
<1>4. ASSUME NEW s, HalfOpen(s, k, u, d) PROVE FALSE
  BY <1>3, <1>4, Zenon DEF HalfOpen, Quiescent
<1>5. ASSUME NEW s, Transfer(c, s, k, u, d) PROVE FALSE
  BY <1>3, <1>5, Zenon DEF Transfer, Harmless, Quiescent
<1>6. ASSUME AnswerUnderWay(k, d) PROVE AnswerUnderWay(k2, e)
  <2>1. Len(d) # 1 /\ (Len(d) # 1 => 1 \in 1 .. Len(d) - 1)
    BY <1>3, <1>6 DEF AnswerUnderWay
  <2>2. /\ d[Len(d)].seq = Add(k.rcv, d[Len(d) - 1].resp.len)
        /\ \A n \in 1 .. Len(d) - 2 : Harmless(d[n])
    BY <1>6, <2>1, Zenon DEF AnswerUnderWay, Harmless, Quiescent
  <2>3. ~(1 \in 1 .. Len(d) - 2)
    BY <2>2, Zenon DEF Harmless, Quiescent
  <2>4. Len(d) = 2 /\ Len(d) - 1 = 1 /\ Len(e) = 1
    BY <1>3, <2>1, <2>3
  <2>5. 1 \in 1 .. Len(e) /\ 1 + 1 = 2 /\ \A n \in 1 .. Len(e) - 1 : Harmless(e[n])
    BY <2>4
  <2>6. e[1] = d[2] /\ e # <<>>
    BY <1>2, <2>4, <2>5 DEF Shortens
  <2>7. e[Len(e)] = d[Len(d)] /\ d[Len(d)].seq = k2.rcv
    BY <2>2, <2>4, <2>6, Zenon
  <2> QED
    BY <1>6, <2>5, <2>6, <2>7, Zenon DEF AnswerUnderWay
<1>7. ASSUME NEW s \in Socket, SocketInv(c, s, k, u, d) PROVE SocketInv(c, s, k2, u, e)
  BY <1>4, <1>5, <1>6, <1>7, Zenon DEF SocketInv
<1>8. ~NoSocketInv(k, u, d)
  BY DEF NoSocketInv, Young
<1>9. Survives(c, k, u, d, k2, u, e)
  BY <1>7, <1>8, Zenon DEF Survives
<1> QED
  BY <1>1, <1>9, Zenon DEF e

\* A client that has been connected ends its connection, whatever is left on
\* the wire to it.
LEMMA EndSurvives ==
    ASSUME NEW c \in Clients, NEW k, NEW k2 \in ClientRecord, NEW u, NEW d \in Seq(OutSegment), NEW e,
           UpInv(c, k, u), k2.sent = k.sent, k2.una <= k2.sent,
           k2.st \in {"closing", "last_ack", "done"},
           \/ k.st \in {"closing", "last_ack", "done"}
           \/ k.st = "connected" /\ d # <<>> /\ ~Harmless(d[1]),
           k.st \in {"last_ack", "done"} => k2.st \in {"last_ack", "done"}
    PROVE  UpInv(c, k2, u) /\ Survives(c, k, u, d, k2, u, e)
<1>1. k.st \notin Young /\ k2.st \notin Young
  BY DEF Young
<1>2. UpInv(c, k2, u)
  BY <1>1, UpKept, Zenon
<1>3. d # <<>> => 1 \in 1 .. Len(d)
  OBVIOUS
<1>4. ASSUME NEW s, HalfOpen(s, k, u, d) PROVE FALSE
  <2>1. k.st = "connected"
    BY <1>4 DEF HalfOpen
  <2>2. d # <<>> /\ ~Harmless(d[1])
    BY <2>1
  <2> QED
    BY <1>3, <1>4, <2>1, <2>2, Zenon DEF HalfOpen, Harmless
<1>5. ASSUME NEW s, Transfer(c, s, k, u, d) PROVE FALSE
  <2>1. k.st = "connected"
    BY <1>5 DEF Transfer
  <2>2. d # <<>> /\ ~Harmless(d[1])
    BY <2>1
  <2> QED
    BY <1>3, <1>5, <2>2, Zenon DEF Transfer
<1>6. ASSUME NEW s \in Socket, SocketInv(c, s, k, u, d) PROVE SocketInv(c, s, k2, u, e)
  BY <1>4, <1>5, <1>6 DEF SocketInv
<1>7. NoSocketInv(k, u, d) => NoSocketInv(k2, u, e)
  BY <1>1, Zenon DEF NoSocketInv
<1>8. Survives(c, k, u, d, k2, u, e)
  BY <1>6, <1>7, Zenon DEF Survives
<1> QED
  BY <1>2, <1>8, Zenon

\* A connection attempt is refused by RST.
LEMMA RefusedSurvives ==
    ASSUME NEW c \in Clients, NEW k, NEW k2 \in ClientRecord, NEW u, NEW d \in Seq(OutSegment),
           UpInv(c, k, u), d # <<>>, k.st \in {"syn_sent", "refused"}, k2.st = "refused",
           k2.sent = k.sent, k2.una = k.una
    PROVE  UpInv(c, k2, u) /\ Survives(c, k, u, d, k2, u, Tail(d))
<1> DEFINE e == Tail(d)
<1>1. k.st \in Young /\ k2.st \in Young /\ k.st \notin {"last_ack", "done"} /\ k2.una <= k2.sent
  BY DEF Young, UpInv
<1>2. UpInv(c, k2, u)
  BY <1>1, UpKept, Zenon
<1>3. Shortens(d, e)
  BY TailShortens, Zenon
<1> HIDE DEF e
<1>4. \A n \in 1 .. Len(e) : n + 1 \in 1 .. Len(d) /\ e[n] = d[n + 1]
  BY <1>3 DEF Shortens
<1>5. \A a, b \in 1 .. Len(e) : a < b => a + 1 < b + 1
  BY <1>3 DEF Shortens
<1>6. ASSUME NEW s, HalfOpen(s, k, u, d) PROVE HalfOpen(s, k2, u, e)
  <2>1. k2.st \in {"syn_sent", "refused", "connected"} /\ k2.st # "connected"
    OBVIOUS
  <2> QED
    BY <1>4, <1>5, <1>6, <2>1, Zenon DEF HalfOpen
<1>7. ASSUME NEW s \in Socket, SocketInv(c, s, k, u, d) PROVE SocketInv(c, s, k2, u, e)
  <2>1. s.state = "SYN_RECEIVED"
    BY <1>7 DEF SocketInv, Transfer
  <2> QED
    BY <1>6, <1>7, <2>1 DEF SocketInv
<1>8. NoSocketInv(k, u, d) => NoSocketInv(k2, u, e)
  <2>1. k2.st # "idle"
    OBVIOUS
  <2> QED
    BY <1>1, <1>4, <2>1, Zenon DEF NoSocketInv
<1>9. Survives(c, k, u, d, k2, u, e)
  BY <1>7, <1>8, Zenon DEF Survives
<1> QED
  BY <1>2, <1>9, Zenon DEF e

\* A SYN is lost on its way to the server.
LEMMA LostSynSurvives ==
    ASSUME NEW c \in Clients, NEW k, NEW u, NEW d, UpInv(c, k, u), u # <<>>, IsSyn(u[1])
    PROVE  UpInv(c, k, Tail(u)) /\ Survives(c, k, u, d, k, Tail(u), d)
<1> DEFINE v == Tail(u)
<1>1. UpInv(c, k, v) /\ Shortens(u, v)
  BY UpTail, Zenon
<1>2. \A s : HalfOpen(s, k, u, d) => HalfOpen(s, k, v, d)
  BY HalfOpenSyn, Zenon
<1> HIDE DEF v
<1>3. 1 \in 1 .. Len(u)
  BY <1>1 DEF Shortens
<1>4. ASSUME NEW s \in Socket, SocketInv(c, s, k, u, d) PROVE SocketInv(c, s, k, v, d)
  BY <1>2, <1>3, <1>4, Zenon DEF SocketInv, Transfer
<1>5. NoSocketInv(k, u, d) => NoSocketInv(k, v, d)
  BY <1>3, Zenon DEF NoSocketInv
<1>6. Survives(c, k, u, d, k, v, d)
  BY <1>4, <1>5, Zenon DEF Survives
<1> QED
  BY <1>1, <1>6, Zenon DEF v

\* Two effects of one step may be shown one after the other.
LEMMA SurvivesTwice ==
    ASSUME NEW c, NEW k, NEW u, NEW d, NEW k1, NEW u1, NEW d1, NEW k2, NEW u2, NEW d2,
           Survives(c, k, u, d, k1, u1, d1), Survives(c, k1, u1, d1, k2, u2, d2)
    PROVE  Survives(c, k, u, d, k2, u2, d2)
BY Zenon DEF Survives

\* The invariant of a client, from what survives of it for every socket.
LEMMA Carried ==
    ASSUME NEW c, NEW sk \in [Slots -> Socket], NEW k, NEW u, NEW d, NEW k2, NEW u2, NEW d2,
           ClientInv(c, sk, k, u, d), Survives(c, k, u, d, k2, u2, d2),
           UpInv(c, k2, u2), ResponseInv(c, k2, d2)
    PROVE  ClientInv(c, sk, k2, u2, d2)
<1>1. \A i \in Slots : sk[i] \in Socket
  OBVIOUS
<1> QED
  BY <1>1, Zenon DEF ClientInv, Survives

\* The responses under way when the first segment has been taken.
LEMMA ResponseTail ==
    ASSUME NEW c, NEW k, NEW k2, NEW d, ResponseInv(c, k, d), d # <<>>,
           \/ k2.status = k.status
           \/ d[1].resp # NoResponse /\ k2.status = d[1].resp.status
    PROVE  ResponseInv(c, k2, Tail(d))
<1> DEFINE e == Tail(d)
<1>1. e \in Seq(OutSegment) /\ Shortens(d, e)
  BY TailShortens, Zenon DEF ResponseInv
<1> HIDE DEF e
<1>2. 1 \in 1 .. Len(d) /\ \A n \in 1 .. Len(e) : n + 1 \in 1 .. Len(d) /\ e[n] = d[n + 1]
  BY <1>1 DEF Shortens
<1>3. ResponseInv(c, k2, e)
  BY <1>1, <1>2, Zenon DEF ResponseInv
<1> QED
  BY <1>3, Zenon DEF e

----
(* What a step leaves alone. *)

\* The server does nothing.
LEMMA ServerKept ==
    ASSUME TypeOK, Inv({}), UNCHANGED <<sockets, tcp_now>>, out' = <<>>
    PROVE  TypeOK' /\ Inv({})'
<1>1. TypeOK'
  BY DEF TypeOK
<1>2. Inv({})'
  BY DEF Inv, ListenerKept, AcceptedHavePeer, AmbiguousOnlyOn, Ambiguous, RetryNeverOverdue, NoPendingRequest
<1> QED
  BY <1>1, <1>2

\* The table of neighbours does not change.
LEMMA ArpKept ==
    ASSUME ArpTypeOK, ArpTruthful, Remembered, UNCHANGED <<arp_table, announced>>
    PROVE  ArpTypeOK' /\ ArpTruthful' /\ Remembered' /\ (Known(Host) => Known(Host)')
<1>1. Announced' = Announced /\ \A n : Known(n)' <=> Known(n)
  BY DEF Announced, Known, arp_lookup
<1>2. ArpTypeOK' /\ ArpTruthful'
  BY DEF ArpTypeOK, ArpTruthful
<1>3. Remembered'
  BY <1>1, Zenon DEF Remembered
<1> QED
  BY <1>1, <1>2, <1>3

\* A step of client c alone.
LEMMA OnlyClient ==
    ASSUME XInv, NEW c \in Clients, ServerIdle,
           NEW k2 \in ClientRecord, NEW u2 \in Seq(Segment), NEW d2 \in Seq(OutSegment),
           client' = [client EXCEPT ![c] = k2], toServer' = [toServer EXCEPT ![c] = u2],
           toClient' = [toClient EXCEPT ![c] = d2],
           ClientInv(c, sockets, k2, u2, d2),
           k2.st \notin Young => client[c].st \notin Young \/ toClient[c] # <<>>,
           d2 # <<>> => toClient[c] # <<>>
    PROVE  XInv'
<1>1. TypeOK' /\ Inv({})'
  BY ServerKept DEF XInv, ServerIdle
<1>2. ArpTypeOK' /\ ArpTruthful' /\ Remembered' /\ (Known(Host) => Known(Host)')
  BY ArpKept DEF XInv, ServerIdle
<1>3. /\ client \in [Clients -> ClientRecord]
      /\ toServer \in [Clients -> Seq(Segment)] /\ toClient \in [Clients -> Seq(OutSegment)]
  BY DEF XInv
<1>4. /\ client' \in [Clients -> ClientRecord]
      /\ toServer' \in [Clients -> Seq(Segment)] /\ toClient' \in [Clients -> Seq(OutSegment)]
  BY <1>3
<1>5. /\ client'[c] = k2 /\ toServer'[c] = u2 /\ toClient'[c] = d2
      /\ \A b \in Clients \ {c} : client'[b] = client[b] /\ toServer'[b] = toServer[b] /\ toClient'[b] = toClient[b]
  BY <1>3
<1>6. sockets' = sockets
  BY DEF ServerIdle
<1>7. \A b \in Clients : ClientInv(b, sockets', client'[b], toServer'[b], toClient'[b])
  BY <1>5, <1>6, Zenon DEF XInv
<1>8. HostKnown'
  <2>1. (\E b \in Clients : toClient'[b] # <<>> \/ client'[b].st \notin Young)
            => \E b \in Clients : toClient[b] # <<>> \/ client[b].st \notin Young
    BY <1>5, Zenon
  <2> QED
    BY <1>2, <2>1, Zenon DEF XInv, HostKnown
<1> QED
  BY <1>1, <1>2, <1>4, <1>7, <1>8, Zenon DEF XInv

\* The facts every step of client c starts from.
ClientFacts(c) ==
    /\ sockets \in [Slots -> Socket] /\ client \in [Clients -> ClientRecord]
    /\ toServer \in [Clients -> Seq(Segment)] /\ toClient \in [Clients -> Seq(OutSegment)]
    /\ client[c] \in ClientRecord /\ toServer[c] \in Seq(Segment) /\ toClient[c] \in Seq(OutSegment)
    /\ ClientInv(c, sockets, client[c], toServer[c], toClient[c])
    /\ UpInv(c, client[c], toServer[c]) /\ ResponseInv(c, client[c], toClient[c])
    /\ client[c].una <= client[c].sent /\ client[c].sent <= Len(Wanted[c])

\* They are part of the invariant.
LEMMA StartFacts ==
    ASSUME XInv, NEW c \in Clients
    PROVE  ClientFacts(c)
<1>1. /\ sockets \in [Slots -> Socket] /\ client \in [Clients -> ClientRecord]
      /\ toServer \in [Clients -> Seq(Segment)] /\ toClient \in [Clients -> Seq(OutSegment)]
  BY DEF XInv, TypeOK
<1>2. client[c] \in ClientRecord /\ toServer[c] \in Seq(Segment) /\ toClient[c] \in Seq(OutSegment)
  BY <1>1
<1>3. ClientInv(c, sockets, client[c], toServer[c], toClient[c])
  BY Zenon DEF XInv
<1>4. UpInv(c, client[c], toServer[c]) /\ ResponseInv(c, client[c], toClient[c])
  BY <1>3, Zenon DEF ClientInv
<1>5. client[c].una <= client[c].sent /\ client[c].sent <= Len(Wanted[c])
  BY <1>4, Zenon DEF UpInv
<1> QED
  BY <1>1, <1>2, <1>3, <1>4, <1>5, Zenon DEF ClientFacts

\* Before it connects a client has nothing under way.
LEMMA IdleEmpty ==
    ASSUME NEW c, NEW sk, NEW k, NEW u, NEW d, ClientInv(c, sk, k, u, d), k.st = "idle"
    PROVE  u = <<>> /\ d = <<>>
<1>1. ASSUME NEW s, SocketInv(c, s, k, u, d) PROVE FALSE
  BY <1>1 DEF SocketInv, HalfOpen, Transfer
<1>2. NoSocketInv(k, u, d)
  BY <1>1, Zenon DEF ClientInv
<1> QED
  BY <1>2 DEF NoSocketInv

\* A step of client c that the server's side survives keeps the invariant.
LEMMA ClientMoves ==
    ASSUME XInv, NEW c \in Clients, ServerIdle, NEW k2, NEW u2, NEW d2,
           client' = [client EXCEPT ![c] = k2], toServer' = [toServer EXCEPT ![c] = u2],
           toClient' = [toClient EXCEPT ![c] = d2],
           Survives(c, client[c], toServer[c], toClient[c], k2, u2, d2),
           UpInv(c, k2, u2), ResponseInv(c, k2, d2),
           k2.st \notin Young => client[c].st \notin Young \/ toClient[c] # <<>>,
           d2 # <<>> => toClient[c] # <<>>
    PROVE  XInv'
<1>1. ClientFacts(c)
  BY StartFacts, Zenon
<1>2. ClientInv(c, sockets, k2, u2, d2)
  BY <1>1, Carried, Zenon DEF ClientFacts
<1>3. k2 \in ClientRecord /\ u2 \in Seq(Segment) /\ d2 \in Seq(OutSegment)
  BY Zenon DEF UpInv, ResponseInv
<1> QED
  BY <1>2, <1>3, OnlyClient, Zenon

\* The record after Take: k, with the acknowledgement of the segment taken.
Taken(c, k, k2) ==
    /\ k2 \in ClientRecord /\ k2.st = k.st /\ k2.sent = k.sent /\ k2.rcv = k.rcv /\ k2.status = k.status
    /\ client[c].una <= k2.una /\ k2.una <= k2.sent
    /\ client[c].st # "connected" => k2.una = client[c].una
    /\ client[c].st = "connected" /\ Seg(c).ack \in client[c].una .. client[c].sent => k2.una = Seg(c).ack
    /\ ServerIdle /\ client' = [client EXCEPT ![c] = k2] /\ client'[c] = k2
    /\ toClient' = [toClient EXCEPT ![c] = Tail(toClient[c])] /\ Seg(c) = toClient[c][1]

\* The record that Take leaves, with the acknowledgement it takes over.
LEMMA TakeRecord ==
    ASSUME XInv, NEW c \in Clients, toClient[c] # <<>>, NEW k \in ClientRecord, Take(c, k),
           k.sent = client[c].sent
    PROVE  \E k2 : Taken(c, k, k2)
<1> DEFINE a == AckedBy(c)
           k2 == [k EXCEPT !.una = a]
<1>1. ClientFacts(c)
  BY StartFacts, Zenon
<1>2. Add(Iss, 1) = 0
  BY FirstNumber
<1>3. Seg(c) = toClient[c][1] /\ toClient[c][1] \in OutSegment
  BY <1>1, TailShortens, Zenon DEF ClientFacts, Seg
<1>4. Seg(c).ack \in Nat /\ client[c].una \in Nat /\ client[c].sent \in Nat
  BY <1>1, <1>3 DEF ClientFacts, ClientRecord, OutSegment, SeqNo
<1>5. /\ a \in Nat /\ client[c].una <= a /\ a <= client[c].sent
      /\ client[c].st # "connected" => a = client[c].una
      /\ client[c].st = "connected" /\ Seg(c).ack \in client[c].una .. client[c].sent => a = Seg(c).ack
  BY <1>1, <1>2, <1>4 DEF AckedBy, ClientFacts
<1> HIDE DEF a
<1>6. /\ k2 \in ClientRecord /\ k2.st = k.st /\ k2.sent = k.sent /\ k2.rcv = k.rcv /\ k2.status = k.status
      /\ k2.una = a
  BY <1>5 DEF ClientRecord
<1>7. /\ client' = [client EXCEPT ![c] = k2] /\ toClient' = [toClient EXCEPT ![c] = Tail(toClient[c])]
      /\ ServerIdle
  BY DEF Take, a
<1> HIDE DEF k2
<1>8. client'[c] = k2
  BY <1>1, <1>7 DEF ClientFacts
<1>9. Taken(c, k, k2)
  BY <1>3, <1>5, <1>6, <1>7, <1>8 DEF Taken
<1> QED
  BY <1>9, Zenon

\* A wire that does not change, in the form of one that does.
LEMMA SameWire ==
    ASSUME XInv, NEW c \in Clients
    PROVE  toServer = [toServer EXCEPT ![c] = toServer[c]] /\ toClient = [toClient EXCEPT ![c] = toClient[c]]
BY DEF XInv

\* The acknowledgement that follows a step of the client.
LEMMA AckSurvives ==
    ASSUME SoundDeployment, XInv, NEW c \in Clients, NEW k2 \in ClientRecord, client'[c] = k2,
           k2.sent = client[c].sent, NEW u, NEW e, UpInv(c, k2, u), k2.st \notin Young,
           NEW flags \in {{"ACK"}, {"FIN", "ACK"}}, "FIN" \in flags => k2.st \in {"last_ack", "done"}
    PROVE  LET v == Append(u, FromClient(c, flags, SndNxt(c), <<>>))
           IN  UpInv(c, k2, v) /\ Survives(c, k2, u, e, k2, v, e)
<1> DEFINE m == FromClient(c, flags, SndNxt(c), <<>>)
<1>1. k2.sent <= Len(Wanted[c]) /\ k2.sent <= k2.sent
  BY DEF UpInv, ClientRecord
<1>2. SndNxt(c) = Add(Iss, 1 + k2.sent)
  BY Zenon DEF SndNxt
<1>3. Carries(c, k2, m, flags, k2.sent, k2.sent)
  BY <1>1, <1>2, AckSent, Zenon
<1> HIDE DEF m
<1>4. UpInv(c, k2, Append(u, m)) /\ Survives(c, k2, u, e, k2, Append(u, m), e)
  BY <1>1, <1>3, SentSurvives, Zenon
<1> QED
  BY <1>4, Zenon DEF m

\* A step that takes a segment and acknowledges it, or leaves that for later.
LEMMA AcknowledgeMoves ==
    ASSUME SoundDeployment, XInv, NEW c \in Clients, toClient[c] # <<>>, NEW k, NEW k2, Taken(c, k, k2),
           k.sent = client[c].sent, k2.st \notin Young, Acknowledge(c),
           UpInv(c, k2, toServer[c]), ResponseInv(c, k2, Tail(toClient[c])),
           Survives(c, client[c], toServer[c], toClient[c], k2, toServer[c], Tail(toClient[c]))
    PROVE  XInv'
<1> DEFINE u == toServer[c]
           d == toClient[c]
           e == Tail(d)
           v == Append(u, FromClient(c, {"ACK"}, SndNxt(c), <<>>))
<1>1. /\ k2 \in ClientRecord /\ client'[c] = k2 /\ k2.sent = client[c].sent /\ ServerIdle
      /\ client' = [client EXCEPT ![c] = k2] /\ toClient' = [toClient EXCEPT ![c] = e]
  BY Zenon DEF Taken
<1>2. toServer' = toServer \/ toServer' = [toServer EXCEPT ![c] = v]
  BY DEF Acknowledge
<1>3. CASE toServer' = toServer
  <2>1. toServer' = [toServer EXCEPT ![c] = u]
    BY <1>3, SameWire, Zenon
  <2> QED
    BY <1>1, <2>1, ClientMoves, Zenon
<1>4. CASE toServer' = [toServer EXCEPT ![c] = v]
  <2>1. {"ACK"} \in {{"ACK"}, {"FIN", "ACK"}} /\ "FIN" \notin {"ACK"}
    OBVIOUS
  <2>2. UpInv(c, k2, v) /\ Survives(c, k2, u, e, k2, v, e)
    BY <1>1, <2>1, AckSurvives, Zenon
  <2> HIDE DEF v
  <2>3. Survives(c, client[c], u, d, k2, v, e)
    BY <2>2, SurvivesTwice, Zenon
  <2> QED
    BY <1>1, <1>4, <2>2, <2>3, ClientMoves, Zenon
<1> QED
  BY <1>2, <1>3, <1>4, Zenon

\* Connect, and the repetition of a SYN.
LEMMA SynMoves ==
    ASSUME SoundDeployment, XInv, NEW c \in Clients, ServerIdle, UNCHANGED toClient, NEW k2 \in ClientRecord,
           client[c].st \in {"idle", "syn_sent"}, k2.st = "syn_sent", k2.sent = client[c].sent,
           k2.una = client[c].una, k2.status = client[c].status,
           client' = [client EXCEPT ![c] = k2], Send(c, {"SYN"}, Iss, <<>>)
    PROVE  XInv'
<1> DEFINE m == FromClient(c, {"SYN"}, Iss, <<>>)
           v == Append(toServer[c], m)
           d == toClient[c]
<1>1. ClientFacts(c)
  BY StartFacts, Zenon
<1>2. client'[c] = k2
  BY <1>1 DEF ClientFacts
<1>3. UpSegment(c, k2, m) /\ IsSyn(m)
  BY <1>2, SynSent, Zenon
<1>4. toServer' = [toServer EXCEPT ![c] = v]
  BY DEF Send
<1> HIDE DEF m
<1>5. UpInv(c, k2, v) /\ Survives(c, client[c], toServer[c], d, k2, v, d)
  BY <1>1, <1>3, SynSurvives, Zenon DEF ClientFacts
<1>6. ResponseInv(c, k2, d)
  BY <1>1, Zenon DEF ClientFacts, ResponseInv
<1>7. toClient' = [toClient EXCEPT ![c] = d]
  BY SameWire, Zenon
<1>8. k2.st \in Young
  BY DEF Young
<1> QED
  BY <1>4, <1>5, <1>6, <1>7, <1>8, ClientMoves, Zenon

\* Connect: the first SYN leaves.
LEMMA ConnectInv ==
    ASSUME SoundDeployment, XInv, NEW c \in Clients, Connect(c)
    PROVE  XInv'
<1> DEFINE k2 == [client[c] EXCEPT !.st = "syn_sent"]
<1>1. ClientFacts(c)
  BY StartFacts, Zenon
<1>2. /\ k2 \in ClientRecord /\ k2.st = "syn_sent" /\ k2.sent = client[c].sent /\ k2.una = client[c].una
      /\ k2.status = client[c].status
  BY <1>1 DEF ClientFacts, ClientRecord, ClientStates
<1>3. /\ client' = [client EXCEPT ![c] = k2] /\ ServerIdle /\ UNCHANGED toClient /\ Send(c, {"SYN"}, Iss, <<>>)
      /\ client[c].st \in {"idle", "syn_sent"}
  BY DEF Connect
<1> HIDE DEF k2
<1> QED
  BY <1>2, <1>3, SynMoves, Zenon

\* Data is never repeated: when both wires are empty, all of it is acknowledged.
LEMMA AllAcked ==
    ASSUME NEW c \in Clients, NEW sk \in [Slots -> Socket], NEW k, NEW u, NEW d,
           ClientInv(c, sk, k, u, d), k.st = "connected", u = <<>>, d = <<>>
    PROVE  k.una >= k.sent
<1>1. k \in ClientRecord
  BY DEF ClientInv, UpInv
<1>2. ~NoSocketInv(k, u, d)
  BY DEF NoSocketInv, Young
<1>3. PICK i \in Slots : SocketInv(c, sk[i], k, u, d)
  BY <1>2, Zenon DEF ClientInv
<1> DEFINE s == sk[i]
<1>4. s \in Socket
  OBVIOUS
<1>5. Transfer(c, s, k, u, d)
  BY <1>3 DEF SocketInv, HalfOpen, AnswerUnderWay
<1> HIDE DEF s
<1>6. s.rx \in Seq(Tokens)
  BY <1>4 DEF Socket
<1>7. Len(s.rx) = k.sent /\ (s.rx # <<>> => k.una >= Len(s.rx))
  BY <1>5, Zenon DEF Transfer
<1>8. s.rx = <<>> => Len(s.rx) = 0
  BY <1>6, EmptySeq, Zenon
<1> QED
  BY <1>1, <1>7, <1>8 DEF ClientRecord

\* Retransmit: another SYN; in a sound deployment data is never repeated, since
\* the acknowledgement of what was read is under way.
LEMMA RetransmitInv ==
    ASSUME SoundDeployment, XInv, NEW c \in Clients, Retransmit(c)
    PROVE  XInv'
<1> DEFINE k2 == [client[c] EXCEPT !.retries = @ - 1]
<1>1. ClientFacts(c)
  BY StartFacts, Zenon
<1>2. client[c].st = "syn_sent"
  <2>1. ASSUME client[c].st = "connected", toServer[c] = <<>>, toClient[c] = <<>> PROVE client[c].una >= client[c].sent
    BY <1>1, <2>1, AllAcked, Zenon DEF ClientFacts
  <2>2. client[c].una \in Nat /\ client[c].sent \in Nat
    BY <1>1 DEF ClientFacts, ClientRecord
  <2> QED
    BY <2>1, <2>2 DEF Retransmit, Unacked
<1>3. /\ k2 \in ClientRecord /\ k2.st = "syn_sent" /\ k2.sent = client[c].sent /\ k2.una = client[c].una
      /\ k2.status = client[c].status
  <2> DEFINE k == client[c]
  <2>1. k \in ClientRecord /\ k.retries > 0
    BY <1>1 DEF ClientFacts, Retransmit
  <2>2. k2 = [k EXCEPT !.retries = @ - 1] /\ k.st = "syn_sent"
    BY <1>2
  <2> HIDE DEF k, k2
  <2>3. k.retries - 1 \in Nat
    BY <2>1 DEF ClientRecord
  <2>4. /\ k2 \in ClientRecord /\ k2.st = "syn_sent" /\ k2.sent = k.sent /\ k2.una = k.una /\ k2.status = k.status
    BY <2>1, <2>2, <2>3 DEF ClientRecord
  <2> QED
    BY <2>4 DEF k
<1>4. /\ client' = [client EXCEPT ![c] = k2] /\ ServerIdle /\ UNCHANGED toClient /\ Send(c, {"SYN"}, Iss, <<>>)
      /\ client[c].st \in {"idle", "syn_sent"}
  BY <1>2 DEF Retransmit
<1> HIDE DEF k2
<1> QED
  BY <1>3, <1>4, SynMoves, Zenon

\* GiveUp: the client has no socket, so it leaves nothing behind.
LEMMA GiveUpInv ==
    ASSUME SoundDeployment, XInv, NEW c \in Clients, GiveUp(c)
    PROVE  XInv'
<1> DEFINE k2 == [client[c] EXCEPT !.st = "refused"]
           u == toServer[c]
           d == toClient[c]
<1>1. ClientFacts(c)
  BY StartFacts, Zenon
<1>2. /\ k2 \in ClientRecord /\ k2.st = "refused" /\ k2.sent = client[c].sent /\ k2.una = client[c].una
      /\ k2.status = client[c].status
  BY <1>1 DEF ClientFacts, ClientRecord, ClientStates
<1>3. client[c].st = "syn_sent" /\ d = <<>> /\ client' = [client EXCEPT ![c] = k2] /\ ServerIdle
  BY DEF GiveUp
<1>4. toServer' = [toServer EXCEPT ![c] = u] /\ toClient' = [toClient EXCEPT ![c] = d]
  BY SameWire, Zenon DEF GiveUp
<1>5. k2.st \in Young /\ k2.st # "idle" /\ client[c].st \in Young /\ client[c].st \notin {"last_ack", "done"}
  BY <1>2, <1>3 DEF Young
<1>l. \A i \in Slots : ~IsLive(sockets[i], c)
  BY Zenon DEF GiveUp, IsLive
<1> HIDE DEF k2
<1>6. UpInv(c, k2, u)
  <2>1. k2.una <= k2.sent
    BY <1>1, <1>2, Zenon DEF ClientFacts
  <2> QED
    BY <1>1, <1>2, <1>5, <2>1, UpKept, Zenon DEF ClientFacts
<1>7. NoSocketInv(k2, u, d)
  <2>1. \A n \in 1 .. Len(d) : Quiescent(d[n]) /\ ~IsSyn(d[n])
    BY <1>3
  <2> QED
    BY <1>5, <2>1, Zenon DEF NoSocketInv
<1>8. ResponseInv(c, k2, d)
  BY <1>1, <1>2, Zenon DEF ClientFacts, ResponseInv
<1>9. ClientInv(c, sockets, k2, u, d)
  BY <1>6, <1>7, <1>8, <1>l, Zenon DEF ClientInv
<1> QED
  BY <1>1, <1>2, <1>3, <1>4, <1>5, <1>9, OnlyClient, Zenon DEF ClientFacts

\* SendData: the next piece of the request.
LEMMA SendDataInv ==
    ASSUME SoundDeployment, XInv, NEW c \in Clients, SendData(c)
    PROVE  XInv'
<1>1. ClientFacts(c)
  BY StartFacts, Zenon
<1>2. PICK n \in 1 .. Len(Wanted[c]) - client[c].sent :
          /\ client' = [client EXCEPT ![c].sent = @ + n]
          /\ Send(c, {"ACK", "PSH"}, SndNxt(c), SubSeq(Wanted[c], client[c].sent + 1, client[c].sent + n))
  BY DEF SendData
<1> DEFINE k == client[c]
           k2 == [k EXCEPT !.sent = @ + n]
           u == toServer[c]
           d == toClient[c]
           m == FromClient(c, {"ACK", "PSH"}, SndNxt(c), SubSeq(Wanted[c], k.sent + 1, k.sent + n))
           v == Append(u, m)
<1>3. k.sent \in Nat /\ Len(Wanted[c]) \in Nat /\ n \in Nat /\ k.sent + n <= Len(Wanted[c])
  BY <1>1, ExchangeAssumption DEF ClientFacts, ClientRecord
<1>4. /\ k2 \in ClientRecord /\ k2.st = k.st /\ k2.sent = k.sent + n /\ k2.una = k.una /\ k2.rcv = k.rcv
      /\ k2.status = k.status
  <2>1. k \in ClientRecord /\ k.sent + n \in Nat
    BY <1>1, <1>3 DEF ClientFacts
  <2> HIDE DEF k
  <2> QED
    BY <2>1 DEF ClientRecord
<1>5. /\ client' = [client EXCEPT ![c] = k2] /\ toServer' = [toServer EXCEPT ![c] = v] /\ ServerIdle
      /\ UNCHANGED toClient
  BY <1>2 DEF SendData, Send
<1>6. client'[c] = k2 /\ k.st \notin Young
  BY <1>1, <1>5 DEF ClientFacts, SendData, Young
<1> HIDE DEF k2
<1>7. Carries(c, k2, m, {"ACK", "PSH"}, k.sent, k2.sent)
  <2>1. {"ACK", "PSH"} \in {{"ACK"}, {"ACK", "PSH"}, {"FIN", "ACK"}} /\ "FIN" \notin {"ACK", "PSH"}
    OBVIOUS
  <2>2. k.sent \in Nat /\ k.sent + n \in Nat /\ k.sent <= k.sent + n /\ k.sent + n <= k2.sent /\ k2.sent <= Len(Wanted[c])
    BY <1>3, <1>4
  <2>3. SndNxt(c) = Add(Iss, 1 + k.sent)
    BY Zenon DEF SndNxt
  <2>4. Carries(c, k2, FromClient(c, {"ACK", "PSH"}, Add(Iss, 1 + k.sent), SubSeq(Wanted[c], k.sent + 1, k.sent + n)),
                {"ACK", "PSH"}, k.sent, k.sent + n)
    BY <1>4, <1>6, <2>1, <2>2, SegmentSent, Zenon
  <2> QED
    BY <1>4, <2>3, <2>4, Zenon
<1> HIDE DEF m
<1>8. UpInv(c, k2, v) /\ Survives(c, k, u, d, k2, v, d)
  <2>1. k.sent <= k2.sent /\ k2.sent <= Len(Wanted[c])
    BY <1>3, <1>4
  <2> QED
    BY <1>1, <1>4, <1>6, <1>7, <2>1, SentSurvives, Zenon DEF ClientFacts
<1>9. ResponseInv(c, k2, d)
  BY <1>1, <1>4, Zenon DEF ClientFacts, ResponseInv
<1>10. toClient' = [toClient EXCEPT ![c] = d]
  BY <1>5, SameWire, Zenon
<1> QED
  BY <1>5, <1>6, <1>8, <1>9, <1>10, ClientMoves, Zenon

\* Nothing of the request.
LEMMA EmptyStart == ASSUME NEW c \in Clients PROVE SubSeq(Wanted[c], 1, 0) = <<>>
<1>1. Wanted[c] \in Seq(Tokens)
  BY ExchangeAssumption
<1> QED
  BY <1>1

\* OnSynAck: the client takes the number of its half-open socket, or repeats its ACK.
LEMMA OnSynAckInv ==
    ASSUME SoundDeployment, XInv, NEW c \in Clients, OnSynAck(c)
    PROVE  XInv'
<1> DEFINE k == client[c]
           u == toServer[c]
           d == toClient[c]
           m == FromClient(c, {"ACK"}, SndNxt(c), <<>>)
           v == Append(u, m)
<1>1. ClientFacts(c) /\ d # <<>>
  BY StartFacts, Zenon DEF OnSynAck
<1>a. k.st = "syn_sent" => k.sent = 0
  BY <1>1 DEF ClientFacts, UpInv, Young
<1>b. FirstData(c) = {0}
  BY DEF SoundDeployment, FirstData
<1>c. SubSeq(Wanted[c], 1, 0) = <<>>
  BY EmptyStart
<1>2. /\ IsSyn(Seg(c)) /\ toServer' = [toServer EXCEPT ![c] = v]
      /\ \/ k.st = "syn_sent" /\ Take(c, [k EXCEPT !.st = "connected", !.rcv = Add(Seg(c).seq, 1), !.sent = 0])
         \/ k.st \in {"connected", "closing", "last_ack"} /\ Take(c, k)
  BY <1>b, <1>c DEF OnSynAck, IsSyn, Send
<1>3. {"ACK"} \in {{"ACK"}, {"FIN", "ACK"}} /\ "FIN" \notin {"ACK"}
  OBVIOUS
<1>4. CASE /\ k.st = "syn_sent"
           /\ Take(c, [k EXCEPT !.st = "connected", !.rcv = Add(Seg(c).seq, 1), !.sent = 0])
  <2> DEFINE k1 == [k EXCEPT !.st = "connected", !.rcv = Add(Seg(c).seq, 1), !.sent = 0]
  <2>1. Seg(c) = d[1] /\ d[1] \in OutSegment
    BY <1>1, TailShortens, Zenon DEF ClientFacts, Seg
  <2>2. Add(Seg(c).seq, 1) \in SeqNo
    <3>1. Seg(c).seq \in Nat /\ 1 \in Nat
      BY <2>1 DEF OutSegment, SeqNo
    <3> QED
      BY <3>1, AddType, Zenon
  <2>3. /\ k1 \in ClientRecord /\ k1.st = "connected" /\ k1.rcv = Add(Seg(c).seq, 1) /\ k1.sent = k.sent
        /\ k1.status = k.status /\ Take(c, k1)
    BY <1>1, <1>4, <1>a, <2>2 DEF ClientFacts, ClientRecord, ClientStates
  <2> HIDE DEF k1
  <2>4. PICK k2 : Taken(c, k1, k2)
    BY <1>1, <2>3, TakeRecord, Zenon
  <2>5. /\ k2 \in ClientRecord /\ k2.st = "connected" /\ k2.rcv = Add(d[1].seq, 1) /\ k2.sent = k.sent
        /\ k2.status = k.status /\ client'[c] = k2 /\ ServerIdle /\ client' = [client EXCEPT ![c] = k2]
        /\ toClient' = [toClient EXCEPT ![c] = Tail(d)] /\ IsSyn(d[1])
    BY <1>2, <2>1, <2>3, <2>4, Zenon DEF Taken
  <2>6. k2.una = k.una
    BY <1>4, <2>4 DEF Taken
  <2>7. Carries(c, k2, m, {"ACK"}, k2.sent, k2.sent)
    <3>1. SndNxt(c) = Add(Iss, 1 + k2.sent) /\ k2.sent <= Len(Wanted[c])
      BY <1>1, <2>5, Zenon DEF SndNxt, ClientFacts
    <3> QED
      BY <1>3, <2>5, <3>1, AckSent, Zenon
  <2> HIDE DEF m
  <2>8. UpInv(c, k2, v) /\ Survives(c, k, u, d, k2, v, Tail(d))
    BY <1>1, <1>4, <2>5, <2>6, <2>7, ConnectedSurvives, Zenon DEF ClientFacts
  <2>9. ResponseInv(c, k2, Tail(d))
    BY <1>1, <2>5, ResponseTail, Zenon DEF ClientFacts
  <2> QED
    BY <1>1, <1>2, <2>5, <2>8, <2>9, ClientMoves, Zenon
<1>5. CASE k.st \in {"connected", "closing", "last_ack"} /\ Take(c, k)
  <2>1. PICK k2 : Taken(c, k, k2)
    BY <1>1, <1>5, TakeRecord, Zenon DEF ClientFacts
  <2>2. /\ k2 \in ClientRecord /\ k2.st = k.st /\ k2.rcv = k.rcv /\ k2.sent = k.sent /\ k.una <= k2.una
        /\ k2.una <= k2.sent
        /\ k2.status = k.status /\ client'[c] = k2 /\ ServerIdle /\ client' = [client EXCEPT ![c] = k2]
        /\ toClient' = [toClient EXCEPT ![c] = Tail(d)] /\ IsSyn(d[1])
    BY <1>2, <2>1, Zenon DEF Taken
  <2>3. k2.st \notin Young
    BY <1>5, <2>2 DEF Young
  <2>4. UpInv(c, k2, u) /\ Survives(c, k, u, d, k2, u, Tail(d))
    BY <1>1, <2>2, TakenSurvives, Zenon DEF ClientFacts
  <2>5. UpInv(c, k2, v) /\ Survives(c, k2, u, Tail(d), k2, v, Tail(d))
    BY <1>3, <2>2, <2>3, <2>4, AckSurvives, Zenon
  <2> HIDE DEF m
  <2>6. Survives(c, k, u, d, k2, v, Tail(d))
    BY <2>4, <2>5, SurvivesTwice, Zenon
  <2>7. ResponseInv(c, k2, Tail(d))
    BY <1>1, <2>2, ResponseTail, Zenon DEF ClientFacts
  <2> QED
    BY <1>1, <1>2, <2>2, <2>5, <2>6, <2>7, ClientMoves, Zenon
<1> QED
  BY <1>2, <1>4, <1>5, Zenon

\* OnResponse: the FIN is what is left under way.
LEMMA OnResponseInv ==
    ASSUME SoundDeployment, XInv, NEW c \in Clients, OnResponse(c)
    PROVE  XInv'
<1> DEFINE k == client[c]
           u == toServer[c]
           d == toClient[c]
           g == Seg(c)
           k1 == [k EXCEPT !.status = g.resp.status, !.rcv = Add(@, g.resp.len)]
<1>1. ClientFacts(c) /\ d # <<>>
  BY StartFacts, Zenon DEF OnResponse
<1>2. g = d[1] /\ g \in OutSegment
  BY <1>1, TailShortens, Zenon DEF ClientFacts, Seg
<1>3. g.resp # NoResponse /\ k.st = "connected" /\ Take(c, k1) /\ Acknowledge(c)
  BY DEF OnResponse, InSequence
<1>4. /\ k1 \in ClientRecord /\ k1.st = k.st /\ k1.sent = k.sent /\ k1.status = g.resp.status
      /\ k1.rcv = Add(k.rcv, g.resp.len)
  <2>1. k \in ClientRecord
    BY <1>1 DEF ClientFacts
  <2>2. g.resp.status \in Nat /\ g.resp.len \in Nat
    BY <1>2 DEF OutSegment, Response
  <2>3. k.rcv \in Nat
    BY <2>1 DEF ClientRecord, SeqNo
  <2>4. Add(k.rcv, g.resp.len) \in SeqNo
    BY <2>2, <2>3, AddType, Zenon
  <2> HIDE DEF k, g
  <2> QED
    BY <2>1, <2>2, <2>4 DEF ClientRecord
<1> HIDE DEF k1
<1>5. PICK k2 : Taken(c, k1, k2)
  BY <1>1, <1>3, <1>4, TakeRecord, Zenon
<1>6. /\ k2 \in ClientRecord /\ k2.st = k.st /\ k2.sent = k.sent /\ k2.una <= k2.sent
      /\ k2.rcv = Add(k.rcv, d[1].resp.len) /\ k2.status = d[1].resp.status
  BY <1>2, <1>4, <1>5, Zenon DEF Taken
<1>7. UpInv(c, k2, u) /\ Survives(c, k, u, d, k2, u, Tail(d))
  BY <1>1, <1>2, <1>3, <1>6, ResponseSurvives, Zenon DEF ClientFacts
<1>8. ResponseInv(c, k2, Tail(d))
  BY <1>1, <1>2, <1>3, <1>6, ResponseTail, Zenon DEF ClientFacts
<1>9. k2.st \notin Young
  BY <1>3, <1>6 DEF Young
<1> QED
  BY <1>1, <1>3, <1>4, <1>5, <1>7, <1>8, <1>9, AcknowledgeMoves, Zenon

\* OnFin: nothing is left under way.
LEMMA OnFinInv ==
    ASSUME SoundDeployment, XInv, NEW c \in Clients, OnFin(c)
    PROVE  XInv'
<1> DEFINE k == client[c]
           u == toServer[c]
           d == toClient[c]
           k1 == [k EXCEPT !.st = "closing", !.rcv = Add(@, 1)]
<1>1. ClientFacts(c) /\ d # <<>>
  BY StartFacts, Zenon DEF OnFin
<1>2. Seg(c) = d[1]
  BY <1>1, TailShortens, Zenon DEF ClientFacts, Seg
<1>3. "FIN" \in Seg(c).flags /\ k.st = "connected" /\ Take(c, k1) /\ Acknowledge(c)
  BY DEF OnFin, InSequence
<1>4. k1 \in ClientRecord /\ k1.st = "closing" /\ k1.sent = k.sent /\ k1.status = k.status
  <2>1. k \in ClientRecord
    BY <1>1 DEF ClientFacts
  <2>2. k.rcv \in Nat /\ 1 \in Nat
    BY <2>1 DEF ClientRecord, SeqNo
  <2>3. Add(k.rcv, 1) \in SeqNo
    BY <2>2, AddType, Zenon
  <2> HIDE DEF k
  <2> QED
    BY <2>1, <2>3 DEF ClientRecord, ClientStates
<1> HIDE DEF k1
<1>5. PICK k2 : Taken(c, k1, k2)
  BY <1>1, <1>3, <1>4, TakeRecord, Zenon
<1>6. k2 \in ClientRecord /\ k2.st = "closing" /\ k2.sent = k.sent /\ k2.una <= k2.sent /\ k2.status = k.status
  BY <1>4, <1>5, Zenon DEF Taken
<1>7. ~Harmless(d[1])
  BY <1>2, <1>3, Zenon DEF Harmless, Quiescent
<1>8. k2.st \in {"closing", "last_ack", "done"} /\ k.st \notin {"last_ack", "done"} /\ k2.st \notin Young
  BY <1>3, <1>6 DEF Young
<1>9. UpInv(c, k2, u) /\ Survives(c, k, u, d, k2, u, Tail(d))
  BY <1>1, <1>3, <1>6, <1>7, <1>8, EndSurvives, Zenon DEF ClientFacts
<1>10. ResponseInv(c, k2, Tail(d))
  BY <1>1, <1>6, ResponseTail, Zenon DEF ClientFacts
<1> QED
  BY <1>1, <1>3, <1>4, <1>5, <1>8, <1>9, <1>10, AcknowledgeMoves, Zenon

\* Close: the client's FIN leaves.
LEMMA CloseInv ==
    ASSUME SoundDeployment, XInv, NEW c \in Clients, Close(c)
    PROVE  XInv'
<1> DEFINE k == client[c]
           u == toServer[c]
           d == toClient[c]
           k2 == [k EXCEPT !.st = "last_ack"]
           v == Append(u, FromClient(c, {"FIN", "ACK"}, SndNxt(c), <<>>))
<1>1. ClientFacts(c)
  BY StartFacts, Zenon
<1>2. /\ k2 \in ClientRecord /\ k2.st = "last_ack" /\ k2.sent = k.sent /\ k2.una = k.una /\ k2.status = k.status
  BY <1>1 DEF ClientFacts, ClientRecord, ClientStates
<1>3. /\ k.st = "closing" /\ client' = [client EXCEPT ![c] = k2] /\ ServerIdle
      /\ toServer' = [toServer EXCEPT ![c] = v] /\ UNCHANGED toClient
  BY DEF Close, Send
<1>4. client'[c] = k2
  BY <1>1, <1>3 DEF ClientFacts
<1> HIDE DEF k2
<1>5. /\ k2.st \in {"closing", "last_ack", "done"} /\ k2.st \in {"last_ack", "done"} /\ k2.st \notin Young
      /\ k.st \in {"closing", "last_ack", "done"} /\ k.st \notin Young
      /\ {"FIN", "ACK"} \in {{"ACK"}, {"FIN", "ACK"}}
  BY <1>2, <1>3 DEF Young
<1>6. UpInv(c, k2, u) /\ Survives(c, k, u, d, k2, u, d)
  <2>1. k2.una <= k2.sent
    BY <1>1, <1>2, Zenon DEF ClientFacts
  <2> QED
    BY <1>1, <1>2, <1>5, <2>1, EndSurvives, Zenon DEF ClientFacts
<1>7. UpInv(c, k2, v) /\ Survives(c, k2, u, d, k2, v, d)
  BY <1>2, <1>4, <1>5, <1>6, AckSurvives, Zenon
<1> HIDE DEF v
<1>8. Survives(c, k, u, d, k2, v, d)
  BY <1>6, <1>7, SurvivesTwice, Zenon
<1>9. ResponseInv(c, k2, d)
  BY <1>1, <1>2, Zenon DEF ClientFacts, ResponseInv
<1>10. toClient' = [toClient EXCEPT ![c] = d]
  BY <1>3, SameWire, Zenon
<1> QED
  BY <1>3, <1>5, <1>7, <1>8, <1>9, <1>10, ClientMoves, Zenon

\* OnRst: no RST is under way to a client whose socket is open.
LEMMA OnRstInv ==
    ASSUME SoundDeployment, XInv, NEW c \in Clients, OnRst(c)
    PROVE  XInv'
<1> DEFINE k == client[c]
           u == toServer[c]
           d == toClient[c]
           st == IF k.st \in {"syn_sent", "refused"} THEN "refused" ELSE "done"
           k1 == [k EXCEPT !.st = st]
<1>1. ClientFacts(c) /\ d # <<>>
  BY StartFacts, Zenon DEF OnRst
<1>2. Seg(c) = d[1]
  BY <1>1, TailShortens, Zenon DEF ClientFacts, Seg
<1>3. "RST" \in Seg(c).flags /\ Take(c, k1) /\ toServer' = toServer
  BY DEF OnRst
<1>4. k1 \in ClientRecord /\ k1.st = st /\ k1.sent = k.sent /\ k1.status = k.status
  BY <1>1 DEF ClientFacts, ClientRecord, ClientStates
<1> HIDE DEF k1
<1>5. PICK k2 : Taken(c, k1, k2)
  BY <1>1, <1>3, <1>4, TakeRecord, Zenon
<1>6. /\ k2 \in ClientRecord /\ k2.st = st /\ k2.sent = k.sent /\ k2.una <= k2.sent /\ k2.status = k.status
      /\ ServerIdle /\ client' = [client EXCEPT ![c] = k2] /\ toClient' = [toClient EXCEPT ![c] = Tail(d)]
      /\ (k.st # "connected" => k2.una = k.una)
  BY <1>4, <1>5, Zenon DEF Taken
<1>7. k.st # "idle"
  BY <1>1, IdleEmpty, Zenon DEF ClientFacts
<1>8. UpInv(c, k2, u) /\ Survives(c, k, u, d, k2, u, Tail(d))
  <2>1. CASE k.st \in {"syn_sent", "refused"}
    <3>1. k2.st = "refused" /\ k2.una = k.una
      BY <1>6, <2>1
    <3> QED
      BY <1>1, <1>6, <2>1, <3>1, RefusedSurvives, Zenon DEF ClientFacts
  <2>2. CASE k.st \notin {"syn_sent", "refused"}
    <3>1. k2.st \in {"closing", "last_ack", "done"} /\ k2.st \in {"last_ack", "done"}
      BY <1>6, <2>2
    <3>2. k.st \in {"closing", "last_ack", "done"} \/ k.st = "connected"
      BY <1>1, <1>7, <2>2 DEF ClientFacts, ClientRecord, ClientStates
    <3>3. ~Harmless(d[1])
      BY <1>2, <1>3, Zenon DEF Harmless
    <3> QED
      BY <1>1, <1>6, <3>1, <3>2, <3>3, EndSurvives, Zenon DEF ClientFacts
  <2> QED
    BY <2>1, <2>2, Zenon
<1>9. ResponseInv(c, k2, Tail(d))
  BY <1>1, <1>6, ResponseTail, Zenon DEF ClientFacts
<1>10. toServer' = [toServer EXCEPT ![c] = u]
  BY <1>3, SameWire, Zenon
<1> QED
  BY <1>1, <1>6, <1>8, <1>9, <1>10, ClientMoves, Zenon

\* OnOther: a segment without effect, or the last acknowledgement.
LEMMA OnOtherInv ==
    ASSUME SoundDeployment, XInv, NEW c \in Clients, OnOther(c)
    PROVE  XInv'
<1> DEFINE k == client[c]
           u == toServer[c]
           d == toClient[c]
           ends == Seg(c).flags = {"ACK"} /\ k.st = "last_ack"
           k1 == IF ends THEN [k EXCEPT !.st = "done"] ELSE k
<1>1. ClientFacts(c) /\ d # <<>>
  BY StartFacts, Zenon DEF OnOther
<1>2. Seg(c) = d[1]
  BY <1>1, TailShortens, Zenon DEF ClientFacts, Seg
<1>3. Take(c, k1) /\ toServer' = toServer
  BY DEF OnOther
<1>4. /\ k1 \in ClientRecord /\ k1.sent = k.sent /\ k1.status = k.status /\ k1.rcv = k.rcv
      /\ (ends => k1.st = "done") /\ (~ends => k1.st = k.st)
  BY <1>1 DEF ClientFacts, ClientRecord, ClientStates
<1>5. k.st = "connected" /\ (d[1].resp # NoResponse \/ "FIN" \in d[1].flags) => d[1].seq # k.rcv
  BY <1>2 DEF OnOther, InSequence
<1>e. ends => k.st = "last_ack"
  OBVIOUS
<1> HIDE DEF k1, ends
<1>6. PICK k2 : Taken(c, k1, k2)
  BY <1>1, <1>3, <1>4, TakeRecord, Zenon
<1>7. /\ k2 \in ClientRecord /\ k2.st = k1.st /\ k2.sent = k.sent /\ k2.rcv = k.rcv /\ k2.status = k.status
      /\ k.una <= k2.una /\ k2.una <= k2.sent
      /\ ServerIdle /\ client' = [client EXCEPT ![c] = k2] /\ toClient' = [toClient EXCEPT ![c] = Tail(d)]
  BY <1>4, <1>6, Zenon DEF Taken
<1>8. k.st # "connected" \/ (d[1].ack \in k.una .. k.sent => k2.una >= d[1].ack)
  <2>1. k.st = "connected" /\ d[1].ack \in k.una .. k.sent => k2.una = d[1].ack
    BY <1>2, <1>6, Zenon DEF Taken
  <2>2. k2.una \in Nat
    BY <1>7 DEF ClientRecord
  <2> QED
    BY <2>1, <2>2
<1>9. UpInv(c, k2, u) /\ Survives(c, k, u, d, k2, u, Tail(d))
  <2>1. CASE ends
    <3>1. k2.st \in {"closing", "last_ack", "done"} /\ k2.st \in {"last_ack", "done"} /\ k.st \in {"closing", "last_ack", "done"}
      BY <1>4, <1>7, <1>e, <2>1
    <3> QED
      BY <1>1, <1>7, <3>1, EndSurvives, Zenon DEF ClientFacts
  <2>2. CASE ~ends
    <3>1. k2.st = k.st
      BY <1>4, <1>7, <2>2, Zenon
    <3> QED
      BY <1>1, <1>5, <1>7, <1>8, <3>1, TakenSurvives, Zenon DEF ClientFacts
  <2> QED
    BY <2>1, <2>2, Zenon
<1>10. ResponseInv(c, k2, Tail(d))
  BY <1>1, <1>7, ResponseTail, Zenon DEF ClientFacts
<1>11. toServer' = [toServer EXCEPT ![c] = u]
  BY <1>3, SameWire, Zenon
<1> QED
  BY <1>1, <1>7, <1>9, <1>10, <1>11, ClientMoves, Zenon

\* Lose: a SYN or a SYN-ACK is lost.
LEMMA LoseInv ==
    ASSUME SoundDeployment, XInv, NEW c \in Clients, Lose(c)
    PROVE  XInv'
<1> DEFINE k == client[c]
           u == toServer[c]
           d == toClient[c]
<1>1. ClientFacts(c)
  BY StartFacts, Zenon
<1>2. client' = [client EXCEPT ![c] = k] /\ ServerIdle
  BY <1>1 DEF Lose, ClientFacts
<1>3. CASE /\ u # <<>> /\ "SYN" \in Head(u).flags
           /\ toServer' = [toServer EXCEPT ![c] = Tail(u)] /\ UNCHANGED toClient
  <2>1. IsSyn(u[1])
    BY <1>1, <1>3, TailShortens, Zenon DEF ClientFacts, IsSyn
  <2>2. UpInv(c, k, Tail(u)) /\ Survives(c, k, u, d, k, Tail(u), d)
    BY <1>1, <1>3, <2>1, LostSynSurvives, Zenon DEF ClientFacts
  <2>3. toClient' = [toClient EXCEPT ![c] = d]
    BY <1>3, SameWire, Zenon
  <2> QED
    BY <1>1, <1>2, <1>3, <2>2, <2>3, ClientMoves, Zenon DEF ClientFacts
<1>4. CASE /\ d # <<>> /\ "SYN" \in Seg(c).flags
           /\ toClient' = [toClient EXCEPT ![c] = Tail(d)] /\ UNCHANGED toServer
  <2>1. IsSyn(d[1])
    BY <1>1, <1>4, TailShortens, Zenon DEF ClientFacts, IsSyn, Seg
  <2>2. k.una <= k.una
    BY <1>1 DEF ClientFacts, ClientRecord
  <2>3. UpInv(c, k, u) /\ Survives(c, k, u, d, k, u, Tail(d))
    BY <1>1, <1>4, <2>1, <2>2, TakenSurvives, Zenon DEF ClientFacts
  <2>4. ResponseInv(c, k, Tail(d))
    BY <1>1, <1>4, ResponseTail, Zenon DEF ClientFacts
  <2>5. toServer' = [toServer EXCEPT ![c] = u]
    BY <1>4, SameWire, Zenon
  <2> QED
    BY <1>2, <1>4, <2>3, <2>4, <2>5, ClientMoves, Zenon
<1>5. \A m : ~("SYN" \in m.flags) => ~Losable(m, "client") /\ ~Losable(m, "server")
  BY DEF Losable, SoundDeployment
<1> QED
  BY <1>3, <1>4, <1>5 DEF Lose

----
(* The answer of the server. *)

\* The stretch from the first element to the last.
LEMMA WholeSeq ==
    ASSUME NEW S, NEW s \in Seq(S)
    PROVE  SubSeq(s, 1, Len(s)) = s
<1> DEFINE t == SubSeq(s, 1, Len(s))
           n == Len(s)
<1>1. n \in Nat /\ 1 \in Int /\ n \in Int /\ \A i \in 1 .. n : s[i] \in S
  OBVIOUS
<1>2. t \in Seq(S) /\ Len(t) = IF 1 <= n THEN n - 1 + 1 ELSE 0
  <2> HIDE DEF n
  <2>1. SubSeq(s, 1, n) \in Seq(S) /\ Len(SubSeq(s, 1, n)) = IF 1 <= n THEN n - 1 + 1 ELSE 0
    BY <1>1, SubSeqProperties
  <2> QED
    BY <2>1 DEF n
<1>3. \A i \in 1 .. n - 1 + 1 : t[i] = s[1 + i - 1]
  BY <1>1, SubSeqProperties
<1>4. Len(t) = n
  <2> HIDE DEF t, n
  <2> QED
    BY <1>1, <1>2
<1>5. \A i \in 1 .. n : t[i] = s[i]
  <2>1. \A i \in 1 .. n : i \in 1 .. n - 1 + 1 /\ 1 + i - 1 = i
    BY <1>1
  <2> HIDE DEF t, n
  <2> QED
    BY <1>3, <2>1, Zenon
<1>6. t = s
  <2>1. Len(t) = Len(s) /\ \A i \in 1 .. Len(t) : t[i] = s[i]
    BY <1>4, <1>5, Zenon
  <2> HIDE DEF t
  <2> QED
    BY <1>2, <2>1, SeqEqual, ZenonT(30)
<1> QED
  BY <1>6, Zenon

\* A request without a body is complete only when all of it is in the buffer.
LEMMA RequestOfClient ==
    ASSUME RequestsEndBlank, NEW c \in Clients, NEW b \in Nat, b <= Len(Wanted[c]),
           BlankLines(SubSeq(Wanted[c], 1, b)) # {}
    PROVE  Request(SubSeq(Wanted[c], 1, b)) = Wanted[c]
<1> DEFINE w == Wanted[c]
           x == SubSeq(w, 1, b)
<1>1. w \in Seq(Tokens) /\ Len(w) \in Nat
  BY ExchangeAssumption
<1>2. 0 \in Nat /\ 0 <= b /\ 0 + 1 = 1 /\ b - 0 = b
  OBVIOUS
<1>3. x \in Seq(Tokens) /\ Len(x) = b
  BY <1>2, Stretch, Zenon
<1>4. \A i \in 1 .. b : x[i] = w[i]
  <2>1. \A i \in 1 .. b - 0 : SubSeq(Wanted[c], 0 + 1, b)[i] = Wanted[c][0 + i]
    BY <1>2, StretchAt, Zenon
  <2> QED
    BY <1>2, <2>1
<1>5. BlankLines(w) = {Len(w)} /\ BlankLines(x) # {} /\ b <= Len(w)
  BY DEF RequestsEndBlank
<1> HIDE DEF w, x
<1>6. BlankLines(x) \subseteq BlankLines(w)
  <2> SUFFICES ASSUME NEW i \in 2 .. b, x[i - 1] = CRLF, x[i] = CRLF
               PROVE  i \in 2 .. Len(w) /\ w[i - 1] = CRLF /\ w[i] = CRLF
    BY <1>3 DEF BlankLines
  <2>1. i \in 1 .. b /\ i - 1 \in 1 .. b /\ i \in 2 .. Len(w)
    BY <1>1, <1>5
  <2> QED
    BY <1>4, <2>1, Zenon
<1>7. BlankLines(x) = {Len(w)}
  BY <1>5, <1>6, Zenon
<1>8. Len(w) = b
  <2>1. Len(w) \in 2 .. b
    BY <1>3, <1>7 DEF BlankLines
  <2> QED
    BY <1>1, <1>5, <2>1
<1>9. (CHOOSE i \in BlankLines(x) : IsFirst(i, BlankLines(x))) = Len(w)
  <2>1. Len(w) <= Len(w)
    BY <1>1
  <2>2. IsFirst(Len(w), BlankLines(x))
    BY <1>7, <2>1, Zenon DEF IsFirst
  <2>3. \A i \in BlankLines(x) : i = Len(w)
    BY <1>7, Zenon
  <2> QED
    BY <1>7, <2>2, <2>3, Zenon
<1>10. x = w
  <2>1. SubSeq(w, 1, Len(w)) = w
    BY <1>1, WholeSeq, Zenon
  <2> QED
    BY <1>8, <2>1, Zenon DEF x
<1>11. Request(x) = w
  BY <1>3, <1>8, <1>9, <1>10, WholeSeq, Zenon DEF Request
<1> QED
  BY <1>11, Zenon DEF w, x

\* The segments that leave with the answer of socket s: a response and a FIN,
\* behind at most an acknowledgement.
AnswerSent(s, o) ==
    /\ Len(o) \in Nat /\ Len(o) > 1
    /\ o[Len(o)].resp = NoResponse /\ o[Len(o)].flags = {"FIN", "ACK"}
    /\ o[Len(o) - 1].resp # NoResponse /\ o[Len(o) - 1].flags = {"ACK", "PSH"}
    /\ o[Len(o) - 1].seq = s.seq /\ o[Len(o)].seq = Add(s.seq, o[Len(o) - 1].resp.len)
    /\ \A n \in 1 .. Len(o) - 2 : Harmless(o[n])

\* An open socket answers the request it has read completely.
LEMMA Serves ==
    ASSUME NEW c \in Clients, NEW s, NEW k, NEW u, NEW d, NEW o, NEW e,
           Transfer(c, s, k, u, d), Joins(d, o, e), AnswerSent(s, o)
    PROVE  AnswerUnderWay(k, e)
<1>1. /\ Len(d) \in Nat /\ Len(o) \in Nat /\ Len(o) > 1 /\ Len(e) = Len(d) + Len(o)
      /\ (e = <<>> <=> Len(e) = 0)
  BY DEF Joins, AnswerSent
<1>2. /\ Len(o) \in 1 .. Len(o) /\ Len(o) - 1 \in 1 .. Len(o) /\ Len(e) > 1 /\ e # <<>>
      /\ Len(d) + (Len(o) - 1) = Len(e) - 1
      /\ \A n \in 1 .. Len(o) - 2 : n \in 1 .. Len(o)
  BY <1>1
<1>3. e[Len(e)] = o[Len(o)] /\ e[Len(e) - 1] = o[Len(o) - 1]
  BY <1>1, <1>2, Zenon DEF Joins
<1>4. ASSUME NEW n \in 1 .. Len(e) - 2 PROVE Harmless(e[n])
  <2>1. CASE n \in 1 .. Len(d)
    BY <2>1, Zenon DEF Joins, Transfer
  <2>2. CASE n \notin 1 .. Len(d)
    <3>1. n - Len(d) \in 1 .. Len(o) - 2 /\ n - Len(d) \in 1 .. Len(o) /\ Len(d) + (n - Len(d)) = n
      BY <1>1, <2>2
    <3>2. e[Len(d) + (n - Len(d))] = o[n - Len(d)]
      BY <3>1, Zenon DEF Joins
    <3> QED
      BY <3>1, <3>2, Zenon DEF AnswerSent
  <2> QED
    BY <2>1, <2>2, Zenon
<1>5. k.rcv = s.seq
  BY DEF Transfer
<1> QED
  BY <1>2, <1>3, <1>4, <1>5, Zenon DEF AnswerUnderWay, AnswerSent

\* Two segments behind a sequence.
Behind(x, g, f, o) ==
    /\ Len(x) \in Nat /\ Len(o) = Len(x) + 2 /\ o[Len(o)] = f /\ o[Len(o) - 1] = g
    /\ \A n \in 1 .. Len(o) - 2 : n \in 1 .. Len(x) /\ o[n] = x[n]
    /\ \A n \in 1 .. Len(o) : (n \in 1 .. Len(x) /\ o[n] = x[n]) \/ o[n] \in {f, g}

\* Two segments sent after the sequence x.
LEMMA TwoBehind ==
    ASSUME NEW S, NEW x \in Seq(S), NEW g \in S, NEW f \in S
    PROVE  x \o <<g>> \o <<f>> \in Seq(S) /\ Behind(x, g, f, x \o <<g>> \o <<f>>)
<1> DEFINE y == x \o <<g>>
           o == y \o <<f>>
<1>1. y \in Seq(S) /\ Len(y) = Len(x) + 1 /\ Len(x) \in Nat /\ y[Len(x) + 1] = g /\ \A n \in 1 .. Len(x) : y[n] = x[n]
  OBVIOUS
<1> HIDE DEF y
<1>2. o \in Seq(S) /\ Len(o) = Len(y) + 1 /\ o[Len(y) + 1] = f /\ \A n \in 1 .. Len(y) : o[n] = y[n]
  BY <1>1
<1> HIDE DEF o
<1>3. Len(o) = Len(x) + 2 /\ o[Len(o)] = f /\ o[Len(o) - 1] = g
  BY <1>1, <1>2
<1>4. \A n \in 1 .. Len(o) - 2 : n \in 1 .. Len(x) /\ o[n] = x[n]
  BY <1>1, <1>2
<1>5. \A n \in 1 .. Len(o) : (n \in 1 .. Len(x) /\ o[n] = x[n]) \/ o[n] \in {f, g}
  BY <1>1, <1>2, <1>3, <1>4
<1>6. Behind(x, g, f, o)
  BY <1>1, <1>3, <1>4, <1>5 DEF Behind
<1> QED
  BY <1>2, <1>6, Zenon DEF o, y

----
(* The delivery of what a step of the server sent. *)

\* The first and the last of a set that has them.
LEMMA FirstFinal ==
    ASSUME NEW S, NEW a \in S, NEW b \in S, \A j \in S : a <= j /\ j <= b, S \subseteq Int
    PROVE  First(S) = a /\ Final(S) = b
<1>1. First(S) \in S /\ \A j \in S : First(S) <= j
  BY Zenon DEF First
<1>2. Final(S) \in S /\ \A j \in S : j <= Final(S)
  BY Zenon DEF Final
<1>3. First(S) <= a /\ a <= First(S) /\ b <= Final(S) /\ Final(S) <= b
  BY <1>1, <1>2, Zenon
<1>4. First(S) \in Int /\ Final(S) \in Int /\ a \in Int /\ b \in Int
  BY <1>1, <1>2, Zenon
<1> HIDE DEF First, Final
<1> QED
  BY <1>3, <1>4

\* All segments of a step of tcp_receive go to one client.
Addressed(o, c) ==
    /\ o \in Seq(OutSegment)
    /\ \A n \in 1 .. Len(o) : o[n].ip = Host /\ o[n].port = c /\ o[n].flags # {}

\* A step that sends to one client only delivers all to it.
LEMMA DeliveredToOne ==
    ASSUME NEW c \in Clients, Addressed(out', c)
    PROVE  Delivered(c) = out' /\ \A b \in Clients \ {c} : Delivered(b) = <<>>
<1> DEFINE o == out'
<1>1. o \in Seq(OutSegment) /\ Len(o) \in Nat /\ (o = <<>> <=> Len(o) = 0)
  <2>1. o \in Seq(OutSegment)
    BY Zenon DEF Addressed
  <2> HIDE DEF o
  <2> QED
    BY <2>1
<1>2. SentTo(c) = 1 .. Len(o)
  BY Zenon DEF SentTo, Addressed
<1>3. ASSUME NEW b \in Clients \ {c} PROVE Delivered(b) = <<>>
  <2>1. SentTo(b) = {}
    BY Zenon DEF SentTo, Addressed
  <2> QED
    BY <2>1, Zenon DEF Delivered
<1>4. CASE Len(o) = 0
  <2>1. 1 .. 0 = {}
    OBVIOUS
  <2>2. SentTo(c) = {}
    BY <1>2, <1>4, <2>1, Zenon
  <2> QED
    BY <1>1, <1>3, <1>4, <2>2, Zenon DEF Delivered
<1>5. CASE Len(o) # 0
  <2> DEFINE S == 1 .. Len(o)
  <2>1. /\ 1 \in S /\ Len(o) \in S /\ S \subseteq Int /\ \A j \in S : 1 <= j /\ j <= Len(o)
    <3> HIDE DEF o
    <3> QED
      BY <1>1, <1>5
  <2>2. SentTo(c) = S /\ S # {}
    BY <1>2, <2>1, Zenon
  <2> HIDE DEF S
  <2>3. First(S) = 1 /\ Final(S) = Len(o)
    BY <2>1, FirstFinal, Zenon
  <2>4. Delivered(c) = SubSeq(o, 1, Len(o))
    BY <2>2, <2>3, Zenon DEF Delivered
  <2>5. SubSeq(o, 1, Len(o)) = o
    BY <1>1, WholeSeq, Zenon
  <2> QED
    BY <1>3, <2>4, <2>5, Zenon
<1> QED
  BY <1>4, <1>5, Zenon

\* What is delivered to client c is put behind its wire if Host is known, and lost otherwise.
Lands(c, o) ==
    /\ toClient'[c] \in Seq(OutSegment) /\ Grows(toClient[c], o, toClient'[c])
    /\ Known(Host) => Joins(toClient[c], o, toClient'[c])
    /\ ~Known(Host) \/ o = <<>> => toClient'[c] = toClient[c]

\* Deliver puts it there.
LEMMA DeliverLands ==
    ASSUME XInv, Deliver, NEW c \in Clients, NEW o \in Seq(OutSegment), Delivered(c) = o
    PROVE  Lands(c, o)
<1> DEFINE d == toClient[c]
           e == toClient'[c]
<1>1. e = IF Known(Host) THEN d \o o ELSE d
  BY DEF Deliver
<1>2. d \in Seq(OutSegment) /\ Len(d) \in Nat
  BY DEF XInv
<1>3. d \o o \in Seq(OutSegment) /\ Joins(d, o, d \o o)
  BY <1>2, ConcatJoins, Zenon
<1>4. o = <<>> => d \o o = d
  <2> HIDE DEF d
  <2> QED
    BY <1>2
<1> QED
  BY <1>1, <1>2, <1>3, <1>4, Zenon DEF Lands, Grows

\* Deliver leaves the table alone, and nothing reaches a wire before Host is known.
LEMMA DeliverKeeps ==
    ASSUME XInv, Deliver, \A c \in Clients : Lands(c, Delivered(c))
    PROVE  /\ toClient' \in [Clients -> Seq(OutSegment)] /\ UNCHANGED <<arp_table, announced>>
           /\ \A c \in Clients : toClient'[c] # <<>> => toClient[c] # <<>> \/ Known(Host)
<1>1. toClient' = [c \in Clients |-> toClient'[c]]
  BY DEF Deliver
<1>2. \A c \in Clients : toClient'[c] \in Seq(OutSegment)
  BY Zenon DEF Lands
<1>3. toClient' \in [Clients -> Seq(OutSegment)]
  BY <1>1, <1>2, Zenon
<1>4. UNCHANGED <<arp_table, announced>>
  BY DEF Deliver, arp_resolve
<1>5. \A c \in Clients : toClient'[c] # <<>> => toClient[c] # <<>> \/ Known(Host)
  BY Zenon DEF Lands
<1> QED
  BY <1>3, <1>4, <1>5

\* The responses under way to client c when o has been delivered.
LEMMA ResponseGrows ==
    ASSUME NEW c, NEW k, NEW d, NEW o, NEW e \in Seq(OutSegment), ResponseInv(c, k, d), Grows(d, o, e),
           \A j \in 1 .. Len(o) : o[j].resp # NoResponse =>
              o[j].resp \in Responses /\ (RequestsEndBlank => Answers(Wanted[c], o[j].resp))
    PROVE  ResponseInv(c, k, e)
<1>1. \A n \in 1 .. Len(e) : \/ n \in 1 .. Len(d) /\ e[n] = d[n]
                             \/ \E j \in 1 .. Len(o) : e[n] = o[j]
  BY GrowsAt DEF GrownFrom
<1> QED
  BY <1>1, Zenon DEF ResponseInv

----
(* A poll of the server: the socket of a client and the segments it sends. *)

\* The one control segment a socket sends.
CtrlOnly(o, s, flags) ==
    /\ Len(o) = 1 /\ o # <<>> /\ 1 \in 1 .. Len(o)
    /\ \A j \in 1 .. Len(o) : o[j].resp = NoResponse /\ o[j].flags = flags /\ o[j].seq = s.seq /\ o[j].ack = s.ack

\* tcp_send_ctrl sends one segment to the peer of the socket.
LEMMA CtrlSent ==
    ASSUME NEW c, NEW s \in Socket, s.remote_ip = Host, s.remote_port = c, NEW flags \in SUBSET Flags, flags # {}
    PROVE  Addressed(<<Ctrl(s, flags)>>, c) /\ CtrlOnly(<<Ctrl(s, flags)>>, s, flags)
<1> DEFINE g == Ctrl(s, flags)
<1>1. g \in OutSegment
  BY CtrlType, Zenon
<1>2. g.ip = Host /\ g.port = c /\ g.flags = flags /\ g.resp = NoResponse /\ g.seq = s.seq /\ g.ack = s.ack
  BY DEF Ctrl
<1> HIDE DEF g
<1>3. <<g>> \in Seq(OutSegment) /\ Len(<<g>>) = 1 /\ <<g>> # <<>> /\ \A j \in 1 .. Len(<<g>>) : <<g>>[j] = g
  BY <1>1
<1>4. Addressed(<<g>>, c) /\ CtrlOnly(<<g>>, s, flags)
  BY <1>2, <1>3 DEF Addressed, CtrlOnly
<1> QED
  BY <1>4, Zenon DEF g

\* A step that sends nothing.
LEMMA NothingSent == \A c : Addressed(<<>>, c)
<1>1. <<>> \in Seq(OutSegment) /\ \A n \in 1 .. Len(<<>>) : FALSE
  OBVIOUS
<1> QED
  BY <1>1, Zenon DEF Addressed

\* Socket t is socket s of the same client after a step.
SamePeer(s, t) == t \in Socket /\ t.remote_ip = Host /\ t.remote_port = s.remote_port

\* Touching a socket that has a peer changes the time of its last activity only.
LEMMA TouchLive ==
    ASSUME NEW s \in Socket, NEW m \in Segment, tcp_now \in Ticks, s.remote_ip = Host
    PROVE  LET t == Touch(s, m)
           IN  SamePeer(s, t) /\ t.state = s.state /\ t.rx = s.rx /\ t.seq = s.seq /\ t.ack = s.ack
<1>1. Host # AnyIP
  BY ExchangeAssumption, AddressAssumption
<1> QED
  BY <1>1 DEF Touch, SamePeer, Socket

\* socket_lookup finds the socket of the client that sent the segment.
FoundSocket(c, m) ==
    /\ \A i \in Slots : i \in Lookup(m) <=> IsLive(sockets[i], c)
    /\ \A i, j \in Slots : IsLive(sockets[i], c) /\ IsLive(sockets[j], c) => i = j
    /\ \A i \in Slots : IsLive(sockets[i], c) =>
          SocketInv(c, sockets[i], client[c], toServer[c], toClient[c]) /\ sockets[i].remote_ip = Host

\* A socket is found exactly when it is live for the client, and there is at most one.
LEMMA LiveLookup ==
    ASSUME XInv, NEW c \in Clients, NEW m, m.ip = Host, m.sport = c, m.dport = HttpPort
    PROVE  FoundSocket(c, m)
<1>1. c # 0
  BY ExchangeAssumption
<1>2. ClientInv(c, sockets, client[c], toServer[c], toClient[c])
  BY Zenon DEF XInv
<1>3. \A i \in Slots : IsLive(sockets[i], c) =>
          SocketInv(c, sockets[i], client[c], toServer[c], toClient[c]) /\ sockets[i].remote_ip = Host
  BY <1>2, Zenon DEF ClientInv, SocketInv
<1>4. \A i, j \in Slots : IsLive(sockets[i], c) /\ IsLive(sockets[j], c) => i = j
  <2>1. \A i, j \in Slots : ~Ambiguous(i, j)
    BY DEF XInv, Inv, AmbiguousOnlyOn
  <2> QED
    BY <1>3, <2>1, Zenon DEF Ambiguous, IsLive
<1>5. \A i \in Slots : IsLive(sockets[i], c) => sockets[i].local_port = HttpPort
  <2>1. AcceptedHavePeer({})
    BY DEF XInv, Inv
  <2>2. \A i \in Slots : IsLive(sockets[i], c) => i \in Slots \ {0}
    BY <1>1, <2>1, Zenon DEF AcceptedHavePeer, IsLive
  <2> QED
    BY <2>1, <2>2, Zenon DEF AcceptedHavePeer, IsLive
<1>6. \A i \in Slots : i \in Lookup(m) <=> IsLive(sockets[i], c)
  <2>1. \A i \in Slots : i \in Lookup(m) => IsLive(sockets[i], c)
    BY Zenon DEF Lookup, Matches, IsLive
  <2>2. \A i \in Slots : IsLive(sockets[i], c) => i \in Lookup(m)
    BY <1>3, <1>5, Zenon DEF Lookup, Matches, IsLive
  <2> QED
    BY <2>1, <2>2, Zenon
<1> QED
  BY <1>3, <1>4, <1>6, Zenon DEF FoundSocket

\* The facts every poll starts from; m is the segment read.
PollFacts(c, m) ==
    /\ ClientFacts(c) /\ toServer[c] # <<>> /\ m = toServer[c][1] /\ 1 \in 1 .. Len(toServer[c])
    /\ m \in Segment /\ m.ip = Host /\ m.sport = c /\ m.dport = HttpPort
    /\ UpSegment(c, client[c], m) /\ UpInv(c, client[c], Tail(toServer[c]))
    /\ Shortens(toServer[c], Tail(toServer[c]))
    /\ (IsSyn(m) => m.flags = {"SYN"}) /\ (~IsSyn(m) => "ACK" \in m.flags) /\ "RST" \notin m.flags
    /\ "FIN" \in m.flags => client[c].st \in {"last_ack", "done"}
    /\ FoundSocket(c, m) /\ tcp_now \in Ticks
    /\ tcp_receive(m) /\ Deliver /\ client' = client
    /\ toServer' = [toServer EXCEPT ![c] = Tail(toServer[c])]

\* They hold whenever a segment is polled.
LEMMA PollStart ==
    ASSUME XInv, NEW c \in Clients, Poll(c)
    PROVE  \E m : PollFacts(c, m)
<1> DEFINE m == toServer[c][1]
           u == toServer[c]
<1>1. ClientFacts(c)
  BY StartFacts, Zenon
<1>2. u # <<>> /\ tcp_receive(Head(u)) /\ Deliver /\ client' = client /\ toServer' = [toServer EXCEPT ![c] = Tail(u)]
  BY DEF Poll
<1>3. /\ UpInv(c, client[c], Tail(u)) /\ Shortens(u, Tail(u)) /\ Head(u) = m /\ UpSegment(c, client[c], m)
  BY <1>1, <1>2, UpTail, Zenon DEF ClientFacts
<1>4. 1 \in 1 .. Len(u)
  BY <1>3 DEF Shortens
<1>5. m \in Segment /\ m.ip = Host /\ m.sport = c /\ m.dport = HttpPort
  BY <1>3, Zenon DEF UpSegment
<1> HIDE DEF m
<1>6. /\ (IsSyn(m) => m.flags = {"SYN"}) /\ (~IsSyn(m) => "ACK" \in m.flags) /\ "RST" \notin m.flags
      /\ ("FIN" \in m.flags => client[c].st \in {"last_ack", "done"})
  BY <1>3 DEF UpSegment
<1>7. FoundSocket(c, m) /\ tcp_now \in Ticks
  <2>1. tcp_now \in Ticks
    BY DEF XInv, TypeOK
  <2> QED
    BY <1>5, <2>1, LiveLookup, Zenon
<1>8. m = u[1] /\ tcp_receive(m)
  BY <1>2, <1>3, Zenon DEF m
<1> HIDE DEF u
<1>9. PollFacts(c, m)
  BY <1>1, <1>2, <1>3, <1>4, <1>5, <1>6, <1>7, <1>8, Zenon DEF PollFacts, u
<1> QED
  BY <1>9, Zenon

\* A poll changes the sockets and wires of one client only.
LEMMA PollFrame ==
    ASSUME XInv, NEW c \in Clients, NEW m, PollFacts(c, m), Addressed(out', c),
           ClientInv(c, sockets', client[c], Tail(toServer[c]), toClient'[c]),
           \A b \in Clients \ {c} : \A j \in Slots :
              /\ IsLive(sockets'[j], b) <=> IsLive(sockets[j], b)
              /\ IsLive(sockets'[j], b) => sockets'[j] = sockets[j]
    PROVE  XInv'
<1>1. /\ m \in Segment /\ tcp_receive(m) /\ Deliver /\ client' = client
      /\ toServer' = [toServer EXCEPT ![c] = Tail(toServer[c])] /\ ClientFacts(c)
  BY Zenon DEF PollFacts
<1>2. TypeOK' /\ Inv({})'
  <2>1. TypeOK /\ Inv({})
    BY DEF XInv
  <2>2. FromPeer(m, {})
    BY ExchangeAssumption, AddressAssumption, Zenon DEF PollFacts, FromPeer
  <2> QED
    BY <1>1, <2>1, <2>2, ReceiveType, ReceiveInv, Zenon
<1>3. Delivered(c) = out' /\ \A b \in Clients \ {c} : Delivered(b) = <<>>
  BY DeliveredToOne, Zenon
<1>4. \A b \in Clients : Lands(b, Delivered(b))
  <2>1. out' \in Seq(OutSegment) /\ <<>> \in Seq(OutSegment)
    BY DEF Addressed
  <2>2. \A b \in Clients : Delivered(b) \in Seq(OutSegment)
    BY <1>3, <2>1, Zenon
  <2> QED
    BY <1>1, <2>2, DeliverLands, Zenon
<1>5. /\ toClient' \in [Clients -> Seq(OutSegment)] /\ UNCHANGED <<arp_table, announced>>
      /\ \A b \in Clients : toClient'[b] # <<>> => toClient[b] # <<>> \/ Known(Host)
  BY <1>1, <1>4, DeliverKeeps, Zenon
<1>6. ArpTypeOK' /\ ArpTruthful' /\ Remembered' /\ (Known(Host) => Known(Host)')
  <2>1. ArpTypeOK /\ ArpTruthful /\ Remembered
    BY DEF XInv
  <2> QED
    BY <1>5, <2>1, ArpKept, Zenon
<1>7. HostKnown'
  <2>1. HostKnown
    BY DEF XInv
  <2> QED
    BY <1>1, <1>5, <1>6, <2>1, Zenon DEF HostKnown
<1>8. \A b \in Clients \ {c} : toClient'[b] = toClient[b] /\ toServer'[b] = toServer[b]
  <2>1. \A b \in Clients \ {c} : toServer'[b] = toServer[b]
    BY <1>1 DEF ClientFacts
  <2> QED
    BY <1>3, <1>4, <2>1, Zenon DEF Lands
<1>9. toServer'[c] = Tail(toServer[c])
  BY <1>1 DEF ClientFacts
<1>10. \A b \in Clients \ {c} : ClientInv(b, sockets', client[b], toServer[b], toClient[b])
  <2>1. \A b \in Clients : ClientInv(b, sockets, client[b], toServer[b], toClient[b])
    BY DEF XInv
  <2> QED
    BY <2>1, Zenon DEF ClientInv
<1>11. \A b \in Clients : ClientInv(b, sockets', client'[b], toServer'[b], toClient'[b])
  BY <1>1, <1>8, <1>9, <1>10, Zenon
<1>12. client' \in [Clients -> ClientRecord] /\ toServer' \in [Clients -> Seq(Segment)]
  <2>1. Tail(toServer[c]) \in Seq(Segment)
    BY Zenon DEF PollFacts, UpInv
  <2> QED
    BY <1>1, <2>1 DEF ClientFacts
<1> QED
  BY <1>2, <1>5, <1>6, <1>7, <1>11, <1>12, Zenon DEF XInv

\* A poll that writes one socket, which belongs to the client or was free.
LEMMA PollUpdate ==
    ASSUME XInv, NEW c \in Clients, NEW m, PollFacts(c, m), NEW i \in Slots, NEW s2, NEW o,
           Update(i, s2, o), Addressed(o, c), s2.remote_port = c,
           IsLive(sockets[i], c) \/ (sockets[i].state = "CLOSED" /\ \A j \in Slots : ~IsLive(sockets[j], c)),
           s2.state # "CLOSED" => SocketInv(c, s2, client[c], Tail(toServer[c]), toClient'[c]),
           s2.state = "CLOSED" => NoSocketInv(client[c], Tail(toServer[c]), toClient'[c]),
           ResponseInv(c, client[c], toClient'[c])
    PROVE  XInv'
<1>1. out' = o /\ sockets'[i] = s2 /\ \A j \in Slots : j # i => sockets'[j] = sockets[j]
  BY DEF Update, XInv, TypeOK
<1>2. \A j \in Slots : IsLive(sockets[j], c) => j = i
  BY Zenon DEF PollFacts, FoundSocket
<1>3. \A j \in Slots : IsLive(sockets'[j], c) => j = i
  BY <1>1, <1>2, Zenon
<1>4. \A j \in Slots : IsLive(sockets'[j], c) => SocketInv(c, sockets'[j], client[c], Tail(toServer[c]), toClient'[c])
  <2> SUFFICES ASSUME NEW j \in Slots, IsLive(sockets'[j], c)
               PROVE  SocketInv(c, sockets'[j], client[c], Tail(toServer[c]), toClient'[c])
    BY Zenon
  <2>1. sockets'[j] = s2
    BY <1>1, <1>3, Zenon
  <2>2. s2.state # "CLOSED"
    BY <2>1, Zenon DEF IsLive
  <2> QED
    BY <2>1, <2>2, Zenon
<1>5. (\A j \in Slots : ~IsLive(sockets'[j], c)) => NoSocketInv(client[c], Tail(toServer[c]), toClient'[c])
  BY <1>1, Zenon DEF IsLive
<1>6. ClientInv(c, sockets', client[c], Tail(toServer[c]), toClient'[c])
  BY <1>4, <1>5, Zenon DEF ClientInv, PollFacts
<1>7. \A b \in Clients \ {c} : ~IsLive(sockets[i], b) /\ ~IsLive(sockets'[i], b)
  BY <1>1, Zenon DEF IsLive
<1>8. \A b \in Clients \ {c} : \A j \in Slots :
              /\ IsLive(sockets'[j], b) <=> IsLive(sockets[j], b)
              /\ IsLive(sockets'[j], b) => sockets'[j] = sockets[j]
  BY <1>1, <1>7, Zenon
<1> QED
  BY <1>1, <1>6, <1>8, PollFrame, Zenon

\* What the poll sent has landed behind the wire of the client.
LEMMA PollLands ==
    ASSUME XInv, NEW c \in Clients, NEW m, PollFacts(c, m), Addressed(out', c)
    PROVE  /\ Lands(c, out')
           /\ client[c].st \notin Young => Joins(toClient[c], out', toClient'[c])
<1>1. Lands(c, out')
  BY DeliveredToOne, DeliverLands, Zenon DEF PollFacts, Addressed
<1>2. client[c].st \notin Young => Known(Host)
  BY Zenon DEF XInv, HostKnown
<1> QED
  BY <1>1, <1>2, Zenon DEF Lands

----
(* The branches of tcp_receive for the segment of a client. *)

\* A poll that sends no response leaves the responses under way as they were.
LEMMA QuietLands ==
    ASSUME NEW c, NEW m, PollFacts(c, m), Lands(c, out'), \A j \in 1 .. Len(out') : out'[j].resp = NoResponse
    PROVE  ResponseInv(c, client[c], toClient'[c])
<1>1. ResponseInv(c, client[c], toClient[c]) /\ toClient'[c] \in Seq(OutSegment) /\ Grows(toClient[c], out', toClient'[c])
  BY Zenon DEF PollFacts, ClientFacts, Lands
<1> QED
  BY <1>1, ResponseGrows, Zenon

\* A client without a socket stays without one.
LEMMA NoSocketKept ==
    ASSUME NEW k, NEW u, NEW v, NEW d, NEW o, NEW e, NoSocketInv(k, u, d), u # <<>>, Shortens(u, v), Grows(d, o, e),
           k.st \in Young => \A j \in 1 .. Len(o) : Quiescent(o[j]) /\ ~IsSyn(o[j])
    PROVE  NoSocketInv(k, v, e)
<1>1. \A n \in 1 .. Len(e) : \/ n \in 1 .. Len(d) /\ e[n] = d[n]
                             \/ n > Len(d) /\ \E j \in 1 .. Len(o) : e[n] = o[j]
  BY GrowsAt DEF GrownFrom
<1>2. \A n \in 1 .. Len(v) : n + 1 \in 1 .. Len(u) /\ v[n] = u[n + 1]
  BY DEF Shortens
<1>3. CASE k.st \in Young
  <2>1. k.st # "idle" /\ \A n \in 1 .. Len(d) : Quiescent(d[n]) /\ ~IsSyn(d[n])
    BY <1>3 DEF NoSocketInv, Young
  <2>2. \A n \in 1 .. Len(e) : Quiescent(e[n]) /\ ~IsSyn(e[n])
    BY <1>1, <1>3, <2>1, Zenon
  <2> QED
    BY <1>3, <2>1, <2>2, Zenon DEF NoSocketInv
<1>4. CASE k.st \notin Young
  <2>1. k.st \in {"last_ack", "done"} /\ \A n \in 1 .. Len(u) : ~IsSyn(u[n])
    BY <1>4, Zenon DEF NoSocketInv
  <2>2. \A n \in 1 .. Len(v) : ~IsSyn(v[n])
    BY <1>2, <2>1, Zenon
  <2> QED
    BY <2>1, <2>2, Zenon DEF NoSocketInv
<1> QED
  BY <1>3, <1>4, Zenon

\* Reject: a segment of a client without a socket, answered by RST.
LEMMA PollReject ==
    ASSUME XInv, NEW c \in Clients, NEW m, PollFacts(c, m), Reject(m)
    PROVE  XInv'
<1> DEFINE r == [ip |-> m.ip, port |-> m.sport, flags |-> {"RST"}, seq |-> 0,
                 ack |-> Add(m.seq, IF "SYN" \in m.flags THEN 2 ELSE 1), resp |-> NoResponse]
<1>1. Lookup(m) = {} /\ out' = <<r>> /\ sockets' = sockets
  BY DEF Reject, PollFacts
<1>2. m \in Segment /\ m.ip = Host /\ m.sport = c /\ FoundSocket(c, m) /\ ClientFacts(c) /\ toServer[c] # <<>>
  BY Zenon DEF PollFacts
<1>3. r \in OutSegment
  <2>1. Add(m.seq, IF "SYN" \in m.flags THEN 2 ELSE 1) \in SeqNo
    <3>1. m.seq \in Nat /\ (IF "SYN" \in m.flags THEN 2 ELSE 1) \in Nat
      BY <1>2 DEF Segment, SeqNo
    <3> QED
      BY <3>1, AddType, Zenon
  <2>2. m.ip \in IPs \cup {AnyIP} /\ m.sport \in Ports
    BY <1>2 DEF Segment
  <2>3. 0 \in SeqNo /\ NoResponse \in Response /\ {"RST"} \in SUBSET Flags
    BY NumberAssumption DEF SeqNo, NoResponse, Response, Flags
  <2> DEFINE a == Add(m.seq, IF "SYN" \in m.flags THEN 2 ELSE 1)
  <2> HIDE DEF a
  <2>4. [ip |-> m.ip, port |-> m.sport, flags |-> {"RST"}, seq |-> 0, ack |-> a, resp |-> NoResponse] \in OutSegment
    BY <2>1, <2>2, <2>3 DEF OutSegment, a
  <2> QED
    BY <2>4, Zenon DEF a
<1>4. r.ip = Host /\ r.port = c /\ r.flags = {"RST"} /\ r.resp = NoResponse
  BY <1>2
<1> HIDE DEF r
<1>5. <<r>> \in Seq(OutSegment) /\ \A j \in 1 .. Len(<<r>>) : <<r>>[j] = r
  BY <1>3
<1>6. Addressed(out', c) /\ \A j \in 1 .. Len(out') : out'[j].resp = NoResponse /\ Quiescent(out'[j]) /\ ~IsSyn(out'[j])
  BY <1>1, <1>4, <1>5 DEF Addressed, Quiescent, IsSyn
<1>7. Lands(c, out')
  BY <1>6, PollLands, Zenon
<1>8. ResponseInv(c, client[c], toClient'[c])
  BY <1>6, <1>7, QuietLands, Zenon
<1>9. \A i \in Slots : ~IsLive(sockets[i], c)
  BY <1>1, <1>2, Zenon DEF FoundSocket
<1>10. NoSocketInv(client[c], toServer[c], toClient[c])
  BY <1>2, <1>9, Zenon DEF ClientFacts, ClientInv
<1>11. NoSocketInv(client[c], Tail(toServer[c]), toClient'[c])
  BY <1>2, <1>6, <1>7, <1>10, NoSocketKept, Zenon DEF PollFacts, Lands
<1>12. ClientInv(c, sockets', client[c], Tail(toServer[c]), toClient'[c])
  BY <1>1, <1>8, <1>9, <1>11, Zenon DEF ClientInv, PollFacts
<1> QED
  BY <1>1, <1>6, <1>12, PollFrame, Zenon

\* case TCP_SYN_RECEIVED for the socket of a client.
LEMMA HandshakeFields ==
    ASSUME NEW s, Fits(s), NEW m \in Segment, s.remote_ip = Host
    PROVE  LET h == Handshake(s, m)
           IN  /\ SamePeer(s, h) /\ h.rx = s.rx
               /\ "ACK" \in m.flags => h.state = "ESTABLISHED" /\ h.seq = m.ack
               /\ "ACK" \notin m.flags => h.state = s.state /\ h.seq = s.seq
<1>1. Handshake(s, m) \in Socket
  BY HandshakeType DEF Fits
<1> QED
  BY <1>1 DEF Handshake, SamePeer, Socket, Fits

\* A SYN opens a half-open socket.
LEMMA PollAccept ==
    ASSUME XInv, NEW c \in Clients, NEW m, PollFacts(c, m), NEW i \in Slots, Accept(i, m)
    PROVE  XInv'
<1> DEFINE s == Touch(NewSocket(i, m), m)
           h == Handshake(s, m)
           k == client[c]
           v == Tail(toServer[c])
<1>1. /\ m \in Segment /\ m.ip = Host /\ m.sport = c /\ FoundSocket(c, m) /\ ClientFacts(c) /\ toServer[c] # <<>>
      /\ Shortens(toServer[c], v) /\ m = toServer[c][1] /\ 1 \in 1 .. Len(toServer[c]) /\ tcp_now \in Ticks
  BY Zenon DEF PollFacts
<1>2. IsSyn(m) /\ m.flags = {"SYN"} /\ "ACK" \notin m.flags
  BY DEF Accept, PollFacts, IsSyn
<1>3. sockets[i].state = "CLOSED" /\ \A j \in Slots : ~IsLive(sockets[j], c)
  BY <1>1, Zenon DEF Accept, IsFirst, ClosedSlots, FoundSocket
<1>4. Fits(NewSocket(i, m)) /\ NewSocket(i, m).remote_ip = Host /\ NewSocket(i, m).remote_port = c
      /\ NewSocket(i, m).state = "SYN_RECEIVED"
  BY <1>1, NewSocketType DEF XInv, NewSocket, ZeroSocket
<1>5. Fits(s) /\ s.remote_ip = Host /\ s.remote_port = c /\ s.state = "SYN_RECEIVED"
  <2>1. Fits(s)
    BY <1>1, <1>4, TouchType, Zenon
  <2>2. NewSocket(i, m) \in Socket
    BY <1>4, Zenon DEF Fits
  <2> QED
    BY <1>1, <1>4, <2>1, <2>2, TouchLive DEF SamePeer
<1> HIDE DEF s
<1>6. SamePeer(s, h) /\ h.state = s.state /\ h.seq = s.seq
  BY <1>1, <1>2, <1>5, HandshakeFields, Zenon
<1>7. Update(i, h, <<Ctrl(h, {"SYN", "ACK"})>>)
  BY <1>2 DEF Accept, HandshakeReply, s
<1> HIDE DEF h
<1>8. h \in Socket /\ h.remote_ip = Host /\ h.remote_port = c /\ h.state = "SYN_RECEIVED"
  BY <1>5, <1>6, Zenon DEF SamePeer
<1> DEFINE o == <<Ctrl(h, {"SYN", "ACK"})>>
<1>9. Addressed(o, c) /\ CtrlOnly(o, h, {"SYN", "ACK"})
  <2>1. {"SYN", "ACK"} \in SUBSET Flags /\ {"SYN", "ACK"} # {}
    BY DEF Flags
  <2> QED
    BY <1>8, <2>1, CtrlSent, Zenon
<1> HIDE DEF o
<1>10. out' = o
  BY <1>7 DEF Update, o
<1>11. \A j \in 1 .. Len(o) : o[j].resp = NoResponse /\ Harmless(o[j]) /\ o[j].seq = h.seq
  BY <1>9 DEF CtrlOnly, Harmless, Quiescent
<1>12. Lands(c, o)
  BY <1>9, <1>10, PollLands, Zenon
<1>13. ResponseInv(c, k, toClient'[c])
  BY <1>10, <1>11, <1>12, QuietLands, Zenon
<1>14. HalfOpen(h, k, v, toClient'[c])
  <2>1. NoSocketInv(k, toServer[c], toClient[c])
    BY <1>1, <1>3, Zenon DEF ClientFacts, ClientInv
  <2>2. k.st \in {"syn_sent", "refused"}
    BY <1>1, <1>2, <2>1 DEF NoSocketInv, Young
  <2>3. \A n \in 1 .. Len(toClient[c]) : Quiescent(toClient[c][n]) /\ ~IsSyn(toClient[c][n])
    BY <1>1, <1>2, <2>1, Zenon DEF NoSocketInv
  <2>4. k.st # "connected" /\ k.st \in {"syn_sent", "refused", "connected"}
    BY <2>2
  <2>5. HalfOpen(h, k, v, toClient[c])
    BY <2>3, <2>4, Zenon DEF HalfOpen
  <2> QED
    BY <1>11, <1>12, <2>5, HalfOpenDown, Zenon DEF Lands
<1>15. h.state # "CLOSED" /\ SocketInv(c, h, k, v, toClient'[c])
  BY <1>8, <1>14 DEF SocketInv
<1> QED
  BY <1>3, <1>7, <1>8, <1>9, <1>13, <1>15, PollUpdate, Zenon DEF o

\* The socket that a branch of the switch works on.
LEMMA PollFound ==
    ASSUME XInv, NEW c \in Clients, NEW m, PollFacts(c, m), NEW i \in Slots, Found(i, m)
    PROVE  /\ IsLive(sockets[i], c) /\ sockets[i] \in Socket /\ Fits(sockets[i])
           /\ sockets[i].remote_ip = Host /\ sockets[i].remote_port = c
           /\ SocketInv(c, sockets[i], client[c], toServer[c], toClient[c])
<1>1. i \in Lookup(m)
  BY DEF Found, IsFirst
<1>2. IsLive(sockets[i], c) /\ sockets[i].remote_ip = Host /\ SocketInv(c, sockets[i], client[c], toServer[c], toClient[c])
  BY <1>1, Zenon DEF PollFacts, FoundSocket
<1>3. Fits(sockets[i])
  BY DEF XInv, TypeOK, Fits
<1> QED
  BY <1>2, <1>3, Zenon DEF IsLive, Fits

\* A half-open socket reads another SYN, or the ACK that opens it.
LEMMA PollSynReceived ==
    ASSUME XInv, NEW c \in Clients, NEW m, PollFacts(c, m), NEW i \in Slots, SynReceived(i, m)
    PROVE  XInv'
<1> DEFINE t == sockets[i]
           s == Touch(t, m)
           h == Handshake(s, m)
           flags == IF "ACK" \in m.flags THEN {"ACK"} ELSE {"SYN", "ACK"}
           o == <<Ctrl(h, flags)>>
           k == client[c]
           u == toServer[c]
           v == Tail(u)
           d == toClient[c]
<1>1. /\ m \in Segment /\ ClientFacts(c) /\ u # <<>> /\ UpInv(c, k, u)
      /\ Shortens(u, v) /\ m = u[1] /\ 1 \in 1 .. Len(u) /\ tcp_now \in Ticks
  BY Zenon DEF PollFacts, ClientFacts
<1>2. Found(i, m) /\ t.state = "SYN_RECEIVED" /\ Update(i, h, o)
  BY DEF SynReceived, HandshakeReply
<1>3. /\ IsLive(t, c) /\ t \in Socket /\ Fits(t) /\ t.remote_ip = Host /\ t.remote_port = c
      /\ SocketInv(c, t, k, u, d)
  BY <1>2, PollFound, Zenon
<1>4. HalfOpen(t, k, u, d) /\ t.rx = <<>>
  <2>1. NoPendingRequest
    BY DEF XInv, Inv
  <2>2. t.state \notin {"ESTABLISHED", "CLOSE_WAIT"}
    BY <1>2
  <2> QED
    BY <1>2, <1>3, <2>1, <2>2, Zenon DEF SocketInv, NoPendingRequest
<1> HIDE DEF t
<1>5. SamePeer(t, s) /\ s.state = t.state /\ s.rx = t.rx /\ s.seq = t.seq /\ Fits(s)
  BY <1>1, <1>3, TouchLive, TouchType, Zenon
<1> HIDE DEF s
<1>6. /\ SamePeer(s, h) /\ h.rx = s.rx
      /\ "ACK" \in m.flags => h.state = "ESTABLISHED" /\ h.seq = m.ack
      /\ "ACK" \notin m.flags => h.state = s.state /\ h.seq = s.seq
  <2>1. s.remote_ip = Host
    BY <1>5, Zenon DEF SamePeer
  <2> QED
    BY <1>1, <1>5, <2>1, HandshakeFields, Zenon
<1> HIDE DEF h
<1>7. h \in Socket /\ h.remote_ip = Host /\ h.remote_port = c
  BY <1>3, <1>5, <1>6, Zenon DEF SamePeer
<1>8. flags \in SUBSET Flags /\ flags # {} /\ "FIN" \notin flags /\ "RST" \notin flags
  BY DEF Flags
<1>9. Addressed(o, c) /\ CtrlOnly(o, h, flags)
  <2> HIDE DEF flags
  <2> QED
    BY <1>7, <1>8, CtrlSent, Zenon
<1>10. out' = o
  BY <1>2 DEF Update
<1> HIDE DEF o
<1>11. \A j \in 1 .. Len(o) : o[j].resp = NoResponse /\ Harmless(o[j]) /\ o[j].seq = h.seq
  BY <1>8, <1>9, Zenon DEF CtrlOnly, Harmless, Quiescent
<1>12. Lands(c, o)
  BY <1>9, <1>10, PollLands, Zenon
<1>13. ResponseInv(c, k, toClient'[c])
  BY <1>10, <1>11, <1>12, QuietLands, Zenon
<1>14. CASE IsSyn(m)
  <2>1. "ACK" \notin m.flags
    BY <1>14 DEF PollFacts
  <2>2. h.state = "SYN_RECEIVED" /\ h.seq = t.seq
    BY <1>2, <1>5, <1>6, <2>1, Zenon
  <2>3. HalfOpen(h, k, v, d)
    BY <1>1, <1>4, <1>14, <2>2, HalfOpenSyn, Zenon
  <2>4. HalfOpen(h, k, v, toClient'[c])
    BY <1>11, <1>12, <2>3, HalfOpenDown, Zenon DEF Lands
  <2>5. h.state # "CLOSED" /\ SocketInv(c, h, k, v, toClient'[c])
    BY <1>7, <2>2, <2>4 DEF SocketInv
  <2> QED
    BY <1>2, <1>3, <1>7, <1>9, <1>13, <2>5, PollUpdate, Zenon DEF t
<1>15. CASE ~IsSyn(m)
  <2>1. h.state = "ESTABLISHED" /\ h.seq = m.ack /\ h.rx = <<>>
    BY <1>4, <1>5, <1>6, <1>15, Zenon DEF PollFacts
  <2>2. Transfer(c, h, k, v, toClient'[c])
    BY <1>1, <1>4, <1>11, <1>12, <1>15, <2>1, Establishes, Zenon DEF Lands
  <2>3. h.state # "CLOSED" /\ SocketInv(c, h, k, v, toClient'[c])
    BY <1>7, <2>1, <2>2 DEF SocketInv
  <2> QED
    BY <1>2, <1>3, <1>7, <1>9, <1>13, <2>3, PollUpdate, Zenon DEF t
<1> QED
  BY <1>14, <1>15, Zenon

\* An open socket of a client is established, and reads neither a SYN nor a FIN
\* nor a segment without ACK.
LEMMA PollOpen ==
    ASSUME XInv, NEW c \in Clients, NEW m, PollFacts(c, m), NEW i \in Slots, Open(i, m)
    PROVE  /\ Transfer(c, sockets[i], client[c], toServer[c], toClient[c]) /\ sockets[i].state = "ESTABLISHED"
           /\ ~IsSyn(m) /\ "FIN" \notin m.flags /\ "ACK" \in m.flags
<1>1. SocketInv(c, sockets[i], client[c], toServer[c], toClient[c])
  BY PollFound, Zenon DEF Open
<1>2. Transfer(c, sockets[i], client[c], toServer[c], toClient[c]) /\ sockets[i].state = "ESTABLISHED"
  BY <1>1 DEF Open, SocketInv
<1>3. ~IsSyn(m)
  BY <1>2, Zenon DEF Transfer, PollFacts
<1>4. "FIN" \notin m.flags
  BY <1>2 DEF Transfer, PollFacts
<1> QED
  BY <1>2, <1>3, <1>4, Zenon DEF PollFacts

\* The buffer and the acknowledgement when an open socket reads a segment: the
\* payload fits, and the number does not wrap.
Appended(t, m, b) ==
    /\ Fits(b) /\ b.remote_ip = Host /\ b.remote_port = t.remote_port /\ b.state = t.state /\ b.seq = t.seq
    /\ b.rx = t.rx \o m.data /\ b.ack = m.seq + Len(m.data)

\* The payload fits, and its number is the length of the buffer.
LEMMA PollBuffered ==
    ASSUME SoundDeployment, XInv, NEW c \in Clients, NEW m, PollFacts(c, m), NEW i \in Slots, Open(i, m)
    PROVE  Appended(sockets[i], m, Buffered(i, m))
<1> DEFINE t == sockets[i]
           k == client[c]
           a == Acked(i, m)
<1>1. /\ Transfer(c, t, k, toServer[c], toClient[c]) /\ ~IsSyn(m)
  BY PollOpen, Zenon
<1>2. /\ m \in Segment /\ ClientFacts(c) /\ toServer[c] # <<>> /\ m = toServer[c][1] /\ UpSegment(c, k, m)
      /\ tcp_now \in Ticks
  BY Zenon DEF PollFacts
<1>3. t \in Socket /\ t.remote_ip = Host
  BY PollFound, Zenon DEF Open
<1>4. /\ m.seq = Len(t.rx) /\ m.seq + Len(m.data) <= k.sent
  BY <1>1, <1>2, Zenon DEF Transfer, UpSegment
<1>5. k.sent \in Nat /\ k.sent <= Len(Wanted[c]) /\ Len(Wanted[c]) \in Nat
  BY <1>2, ExchangeAssumption DEF ClientFacts, ClientRecord
<1>6. Len(Wanted[c]) < RxBufSize /\ Len(Wanted[c]) < SeqMod /\ RxBufSize \in Nat /\ SeqMod \in Nat \ {0}
  BY TableAssumption, NumberAssumption DEF SoundDeployment
<1>7. Len(t.rx) \in Nat /\ Len(m.data) \in Nat
  BY <1>2, <1>3 DEF Socket, Segment
<1>8. Len(t.rx) + Len(m.data) < RxBufSize /\ m.seq + Len(m.data) < SeqMod /\ m.seq + Len(m.data) \in Nat
  <2> DEFINE x == Len(t.rx)
             y == Len(m.data)
             w == Len(Wanted[c])
             z == k.sent
             q == m.seq
  <2>1. x \in Nat /\ y \in Nat /\ w \in Nat /\ z \in Nat /\ q = x /\ q + y <= z /\ z <= w /\ w < RxBufSize /\ w < SeqMod
    BY <1>4, <1>5, <1>6, <1>7, Zenon
  <2> HIDE DEF x, y, w, z, q
  <2>2. x + y < RxBufSize /\ q + y < SeqMod /\ q + y \in Nat
    BY <1>6, <2>1
  <2> QED
    BY <2>2, Zenon DEF x, y, q
<1>9. Add(m.seq, Len(m.data)) = m.seq + Len(m.data)
  <2> DEFINE n == m.seq + Len(m.data)
  <2> HIDE DEF n
  <2>1. n \in Nat /\ n < SeqMod
    BY <1>8 DEF n
  <2>2. n % SeqMod = n
    BY <1>6, <2>1
  <2> QED
    BY <2>2, Zenon DEF Add, n
<1>10. /\ SamePeer(t, Touch(t, m)) /\ Touch(t, m).state = t.state /\ Touch(t, m).rx = t.rx /\ Touch(t, m).seq = t.seq
  BY <1>2, <1>3, TouchLive, Zenon
<1>11. a = [Touch(t, m) EXCEPT !.ack = m.seq + Len(m.data)]
  BY <1>9, Zenon DEF Acked
<1>12. Fits(a) /\ Fits(Buffered(i, m))
  BY <1>2, AckedType, BufferedType, Zenon DEF XInv
<1> DEFINE n == m.seq + Len(m.data)
           p == Touch(t, m)
<1>13. /\ a.remote_ip = Host /\ a.remote_port = t.remote_port /\ a.state = t.state /\ a.seq = t.seq /\ a.rx = t.rx
       /\ a.ack = n /\ a \in Socket
  <2>1. a \in Socket /\ p \in Socket /\ p.remote_ip = Host /\ p.remote_port = t.remote_port
    BY <1>10, <1>12, Zenon DEF Fits, SamePeer
  <2> HIDE DEF t, p, a, n
  <2>2. a = [p EXCEPT !.ack = n] /\ p.state = t.state /\ p.seq = t.seq /\ p.rx = t.rx
    BY <1>10, <1>11 DEF p, n
  <2> QED
    BY <2>1, <2>2 DEF Socket
<1>14. Buffered(i, m) = [a EXCEPT !.rx = t.rx \o m.data]
  BY <1>8, <1>13 DEF Buffered
<1> DEFINE b == Buffered(i, m)
<1>15. /\ b.remote_ip = Host /\ b.remote_port = t.remote_port /\ b.state = t.state /\ b.seq = t.seq
       /\ b.rx = t.rx \o m.data /\ b.ack = n
  <2> HIDE DEF t, a, n
  <2>1. b = [a EXCEPT !.rx = t.rx \o m.data]
    BY <1>14 DEF t
  <2> HIDE DEF b
  <2> QED
    BY <1>13, <2>1 DEF Socket
<1> QED
  BY <1>12, <1>15, Zenon DEF Appended

\* The segment an open socket reads continues what it has buffered.
LEMMA ReadsNext ==
    ASSUME NEW c \in Clients, NEW t \in Socket, NEW k \in ClientRecord, NEW u, NEW d, Transfer(c, t, k, u, d), u # <<>>,
           NEW m \in Segment, m = u[1], UpSegment(c, k, m), ~IsSyn(m), k.sent <= Len(Wanted[c])
    PROVE  /\ m.seq + Len(m.data) \in Nat /\ m.seq + Len(m.data) <= Len(Wanted[c])
           /\ t.rx \o m.data = SubSeq(Wanted[c], 1, m.seq + Len(m.data))
<1> DEFINE a == Len(t.rx)
           b == m.seq + Len(m.data)
<1>1. /\ m.seq = a /\ t.rx = SubSeq(Wanted[c], 1, a)
      /\ b <= k.sent /\ m.data = SubSeq(Wanted[c], m.seq + 1, b)
  BY Zenon DEF Transfer, UpSegment
<1>2. a \in Nat /\ Len(m.data) \in Nat /\ k.sent \in Nat /\ Len(Wanted[c]) \in Nat
  BY ExchangeAssumption DEF Socket, Segment, ClientRecord
<1>3. b \in Nat /\ a <= b /\ b <= Len(Wanted[c])
  <2>1. b = a + Len(m.data)
    BY <1>1, Zenon
  <2> HIDE DEF a, b
  <2> QED
    BY <1>1, <1>2, <2>1
<1>4. t.rx \o m.data = SubSeq(Wanted[c], 1, a) \o SubSeq(Wanted[c], a + 1, b)
  BY <1>1, Zenon
<1> HIDE DEF a, b
<1>5. t.rx \o m.data = SubSeq(Wanted[c], 1, b)
  BY <1>2, <1>3, <1>4, StretchJoin, Zenon
<1> QED
  BY <1>3, <1>5, Zenon DEF b

\* The request is not complete yet.
LEMMA PollCollect ==
    ASSUME SoundDeployment, XInv, NEW c \in Clients, NEW m, PollFacts(c, m), NEW i \in Slots, Collect(i, m)
    PROVE  XInv'
<1> DEFINE t == sockets[i]
           s == Buffered(i, m)
           g == <<Ctrl(s, {"ACK"})>>
           o == DataAck(s, m) \o (IF s.rx = <<>> THEN g ELSE <<>>)
           k == client[c]
           u == toServer[c]
           v == Tail(u)
           d == toClient[c]
<1>1. /\ m \in Segment /\ ClientFacts(c) /\ u # <<>> /\ UpInv(c, k, u) /\ Shortens(u, v) /\ m = u[1]
  BY Zenon DEF PollFacts, ClientFacts
<1>2. Open(i, m) /\ Found(i, m) /\ Update(i, s, o)
  BY DEF Collect, Plain, Open
<1>3. IsLive(t, c) /\ t \in Socket /\ t.remote_port = c
  BY <1>2, PollFound, Zenon
<1>4. Transfer(c, t, k, u, d) /\ t.state = "ESTABLISHED"
  BY <1>2, PollOpen, Zenon
<1>5. Appended(t, m, s)
  BY <1>2, PollBuffered, Zenon
<1>6. /\ s \in Socket /\ s.remote_ip = Host /\ s.remote_port = c /\ s.state = "ESTABLISHED" /\ s.seq = t.seq
      /\ s.rx = t.rx \o m.data /\ s.ack = m.seq + Len(m.data)
  BY <1>3, <1>4, <1>5, Zenon DEF Appended, Fits
<1> HIDE DEF s
<1>7. Addressed(g, c) /\ CtrlOnly(g, s, {"ACK"})
  <2>1. {"ACK"} \in SUBSET Flags /\ {"ACK"} # {}
    BY DEF Flags
  <2> QED
    BY <1>6, <2>1, CtrlSent, Zenon
<1>8. /\ t.rx \in Seq(Tokens) /\ m.data \in Seq(Tokens)
      /\ (m.data # <<>> => t.rx \o m.data # <<>>) /\ (m.data = <<>> => t.rx \o m.data = t.rx)
  <2>1. t.rx \in Seq(Tokens) /\ m.data \in Seq(Tokens)
    BY <1>1, <1>3 DEF Socket, Segment
  <2>2. Joins(t.rx, m.data, t.rx \o m.data)
    BY <2>1, ConcatJoins, Zenon
  <2>3. m.data # <<>> => t.rx \o m.data # <<>>
    BY <2>2, JoinsNonEmpty, Zenon
  <2>4. t.rx \o <<>> = t.rx
    <3> DEFINE y == t.rx
    <3>1. y \in Seq(Tokens)
      BY <2>1
    <3> HIDE DEF y
    <3>2. y \o <<>> = y
      BY <3>1
    <3> QED
      BY <3>2, Zenon DEF y
  <2> QED
    BY <2>1, <2>3, <2>4, Zenon
<1>9. o = IF m.data # <<>> \/ s.rx = <<>> THEN g ELSE <<>>
  <2>1. g \in Seq(OutSegment)
    BY <1>7, Zenon DEF Addressed
  <2>2. m.data # <<>> => s.rx # <<>>
    BY <1>6, <1>8, Zenon
  <2>3. DataAck(s, m) = IF m.data # <<>> THEN g ELSE <<>>
    BY DEF DataAck
  <2> HIDE DEF g, t
  <2>4. g \o <<>> = g /\ <<>> \o g = g /\ <<>> \o <<>> = <<>>
    BY <2>1
  <2> QED
    BY <2>2, <2>3, <2>4, Zenon
<1>10. out' = o
  BY <1>2 DEF Update
<1> HIDE DEF o, g
<1>11. \A j \in 1 .. Len(g) : g[j].resp = NoResponse /\ Harmless(g[j]) /\ ~IsSyn(g[j]) /\ g[j].ack = m.seq + Len(m.data)
  BY <1>6, <1>7 DEF CtrlOnly, Harmless, Quiescent, IsSyn
<1>12. \A j \in 1 .. Len(o) : o[j].resp = NoResponse /\ Harmless(o[j]) /\ ~IsSyn(o[j])
  <2>1. \A j \in 1 .. Len(<<>>) : FALSE
    OBVIOUS
  <2> QED
    BY <1>9, <1>11, <2>1, Zenon
<1>13. m.data # <<>> => o # <<>> /\ o[Len(o)].ack = m.seq + Len(m.data)
  BY <1>7, <1>9, <1>11, Zenon DEF CtrlOnly
<1>14. m.data = <<>> /\ t.rx # <<>> => o = <<>>
  BY <1>6, <1>8, <1>9, Zenon
<1>15. Addressed(o, c)
  BY <1>7, <1>9, NothingSent, Zenon
<1>16. Lands(c, o) /\ Joins(d, o, toClient'[c])
  <2>1. k.st \notin Young
    BY <1>4 DEF Transfer, Young
  <2> QED
    BY <1>10, <1>15, <2>1, PollLands, Zenon
<1>17. ResponseInv(c, k, toClient'[c])
  BY <1>10, <1>12, <1>16, QuietLands, Zenon
<1>18. Transfer(c, s, k, v, toClient'[c])
  BY <1>1, <1>4, <1>6, <1>8, <1>12, <1>13, <1>14, <1>16, Collects, Zenon
<1>19. s.state # "CLOSED" /\ SocketInv(c, s, k, v, toClient'[c])
  BY <1>6, <1>18 DEF SocketInv
<1> QED
  BY <1>2, <1>3, <1>6, <1>15, <1>17, <1>19, PollUpdate, Zenon

\* The request is complete and answered.
LEMMA PollServe ==
    ASSUME SoundDeployment, XInv, NEW c \in Clients, NEW m, PollFacts(c, m), NEW i \in Slots, Serve(i, m)
    PROVE  XInv'
<1> DEFINE t == sockets[i]
           s == Buffered(i, m)
           k == client[c]
           u == toServer[c]
           v == Tail(u)
           d == toClient[c]
<1>1. /\ m \in Segment /\ ClientFacts(c) /\ u # <<>> /\ UpInv(c, k, u) /\ Shortens(u, v) /\ m = u[1]
      /\ UpSegment(c, k, m) /\ k \in ClientRecord /\ k.sent <= Len(Wanted[c])
  BY Zenon DEF PollFacts, ClientFacts
<1>2. Open(i, m) /\ Found(i, m) /\ BlankLines(s.rx) # {}
  BY DEF Serve, Plain, Open
<1>3. PICK resp \in Responses :
          /\ Answers(Request(s.rx), resp)
          /\ Update(i, Answered(s, resp),
                    DataAck(s, m) \o Data(s, resp) \o <<Ctrl(Answered(s, resp), {"FIN", "ACK"})>>)
  BY DEF Serve
<1>4. IsLive(t, c) /\ t \in Socket /\ t.remote_port = c
  BY <1>2, PollFound, Zenon
<1>5. Transfer(c, t, k, u, d) /\ t.state = "ESTABLISHED" /\ ~IsSyn(m)
  BY <1>2, PollOpen, Zenon
<1>6. Appended(t, m, s)
  BY <1>2, PollBuffered, Zenon
<1>7. /\ s \in Socket /\ Fits(s) /\ s.remote_ip = Host /\ s.remote_port = c /\ s.seq = t.seq /\ s.rx = t.rx \o m.data
  BY <1>4, <1>5, <1>6, Zenon DEF Appended, Fits
<1>8. RequestsEndBlank => Answers(Wanted[c], resp)
  <2>1. /\ m.seq + Len(m.data) \in Nat /\ m.seq + Len(m.data) <= Len(Wanted[c])
        /\ s.rx = SubSeq(Wanted[c], 1, m.seq + Len(m.data))
    BY <1>1, <1>4, <1>5, <1>7, ReadsNext, Zenon
  <2>2. RequestsEndBlank => Request(s.rx) = Wanted[c]
    BY <1>2, <2>1, RequestOfClient, Zenon
  <2> QED
    BY <1>3, <2>2, Zenon
<1> DEFINE a == Answered(s, resp)
           x == DataAck(s, m)
           g == [ip |-> s.remote_ip, port |-> s.remote_port, flags |-> {"ACK", "PSH"},
                 seq |-> s.seq, ack |-> s.ack, resp |-> resp]
           f == Ctrl(a, {"FIN", "ACK"})
           o == x \o <<g>> \o <<f>>
<1>9. resp.len \in 1 .. MaxSegment /\ resp \in Response /\ resp # NoResponse
  <2>1. resp.len \in 1 .. MaxSegment /\ resp \in Response
    BY ResponseAssumption DEF SoundDeployment
  <2>2. NoResponse.len = 0
    BY DEF NoResponse
  <2> QED
    BY <2>1, <2>2
<1>10. Data(s, resp) = <<g>>
  BY <1>9 DEF Data
<1>11. /\ a \in Socket /\ a.remote_ip = Host /\ a.remote_port = c /\ a.state = "FIN_WAIT_1"
       /\ a.seq = Add(s.seq, resp.len)
  <2>1. a \in Socket
    BY <1>7, AnsweredType, Zenon DEF Fits
  <2> HIDE DEF s
  <2> QED
    BY <1>7, <2>1 DEF Answered, Socket
<1>12. x \in Seq(OutSegment) /\ g \in OutSegment
  <2>1. x \in Seq(OutSegment)
    BY <1>1, BufferedType, Zenon DEF XInv
  <2>2. {"ACK", "PSH"} \in SUBSET Flags
    BY DEF Flags
  <2> HIDE DEF s
  <2> QED
    BY <1>7, <1>9, <2>1, <2>2 DEF OutSegment, Socket
<1>13. f \in OutSegment /\ f.ip = Host /\ f.port = c /\ f.flags = {"FIN", "ACK"} /\ f.resp = NoResponse /\ f.seq = a.seq
  <2>1. {"FIN", "ACK"} \in SUBSET Flags
    BY DEF Flags
  <2>2. f \in OutSegment
    BY <1>11, <2>1, CtrlType, Zenon
  <2> HIDE DEF a
  <2> QED
    BY <1>11, <2>2 DEF Ctrl
<1>14. g.ip = Host /\ g.port = c /\ g.flags = {"ACK", "PSH"} /\ g.resp = resp /\ g.seq = s.seq
  BY <1>7
<1>15. Update(i, a, o)
  BY <1>3, <1>10, Zenon
<1>16. \A j \in 1 .. Len(x) : x[j].ip = Host /\ x[j].port = c /\ x[j].flags = {"ACK"} /\ x[j].resp = NoResponse
  <2>1. {"ACK"} \in SUBSET Flags /\ {"ACK"} # {}
    BY DEF Flags
  <2>2. Addressed(<<Ctrl(s, {"ACK"})>>, c) /\ CtrlOnly(<<Ctrl(s, {"ACK"})>>, s, {"ACK"})
    BY <1>7, <2>1, CtrlSent, Zenon
  <2>3. x = <<Ctrl(s, {"ACK"})>> \/ x = <<>>
    BY DEF DataAck
  <2>4. \A j \in 1 .. Len(<<>>) : FALSE
    OBVIOUS
  <2> QED
    BY <2>2, <2>3, <2>4, Zenon DEF Addressed, CtrlOnly
<1> HIDE DEF x, g, f, a, s
<1>17. o \in Seq(OutSegment) /\ Behind(x, g, f, o)
  BY <1>12, <1>13, TwoBehind, Zenon
<1>18. out' = o
  BY <1>15 DEF Update
<1> HIDE DEF o
<1>19. \A n \in 1 .. Len(o) : (n \in 1 .. Len(x) /\ o[n] = x[n]) \/ o[n] \in {f, g}
  BY <1>17, Zenon DEF Behind
<1>20. Addressed(o, c)
  <2>1. {"ACK"} # {} /\ {"FIN", "ACK"} # {} /\ {"ACK", "PSH"} # {}
    OBVIOUS
  <2>2. \A n \in 1 .. Len(o) : o[n].ip = Host /\ o[n].port = c /\ o[n].flags # {}
    BY <1>13, <1>14, <1>16, <1>19, <2>1, Zenon
  <2> QED
    BY <1>17, <2>2, Zenon DEF Addressed
<1>21. AnswerSent(t, o)
  <2>1. Len(o) \in Nat /\ Len(o) > 1
    BY <1>17 DEF Behind
  <2>2. \A n \in 1 .. Len(o) - 2 : o[n].resp = NoResponse /\ o[n].flags = {"ACK"}
    BY <1>16, <1>17, Zenon DEF Behind
  <2>3. \A n \in 1 .. Len(o) - 2 : Harmless(o[n])
    BY <2>2 DEF Harmless, Quiescent
  <2>4. o[Len(o)] = f /\ o[Len(o) - 1] = g
    BY <1>17, Zenon DEF Behind
  <2> QED
    BY <1>7, <1>9, <1>11, <1>13, <1>14, <2>1, <2>3, <2>4, Zenon DEF AnswerSent
<1>22. k.st = "connected" /\ k.st \notin Young /\ k.st \in {"connected", "closing", "last_ack", "done"}
  BY <1>5 DEF Transfer, Young
<1>23. Lands(c, o) /\ Joins(d, o, toClient'[c])
  BY <1>18, <1>20, <1>22, PollLands, Zenon
<1>24. AnswerUnderWay(k, toClient'[c])
  BY <1>5, <1>21, <1>23, Serves, Zenon
<1>25. \A n \in 1 .. Len(v) : ~IsSyn(v[n])
  <2>1. \A n \in 1 .. Len(v) : n + 1 \in 1 .. Len(u) /\ v[n] = u[n + 1]
    BY <1>1 DEF Shortens
  <2> QED
    BY <1>5, <2>1, Zenon DEF Transfer
<1>26. a.state # "CLOSED" /\ SocketInv(c, a, k, v, toClient'[c])
  BY <1>11, <1>22, <1>24, <1>25 DEF SocketInv
<1>27. ResponseInv(c, k, toClient'[c])
  <2>1. \A j \in 1 .. Len(o) : o[j].resp # NoResponse =>
            o[j].resp \in Responses /\ (RequestsEndBlank => Answers(Wanted[c], o[j].resp))
    <3> SUFFICES ASSUME NEW j \in 1 .. Len(o), o[j].resp # NoResponse
                 PROVE  o[j].resp = resp
      BY <1>8, Zenon
    <3>1. o[j] # f
      BY <1>13, Zenon
    <3>2. ~(j \in 1 .. Len(x) /\ o[j] = x[j])
      BY <1>16, Zenon
    <3>3. o[j] = g
      BY <1>19, <3>1, <3>2, Zenon
    <3> QED
      BY <1>14, <3>3, Zenon
  <2> QED
    BY <1>1, <1>23, <2>1, ResponseGrows, Zenon DEF ClientFacts, Lands
<1> QED
  BY <1>2, <1>4, <1>11, <1>15, <1>20, <1>26, <1>27, PollUpdate, Zenon

\* A socket that has answered reads what is left of the connection.
LEMMA AnsweredKept ==
    ASSUME NEW c, NEW s, NEW s2, NEW k, NEW u, NEW v, NEW d, SocketInv(c, s, k, u, d), Shortens(u, v),
           s.state \in {"FIN_WAIT_1", "FIN_WAIT_2", "TIME_WAIT"},
           s2.state \in {"FIN_WAIT_1", "FIN_WAIT_2", "TIME_WAIT"}, s2.remote_ip = Host
    PROVE  SocketInv(c, s2, k, v, d)
<1>1. \A n \in 1 .. Len(v) : n + 1 \in 1 .. Len(u) /\ v[n] = u[n + 1]
  BY DEF Shortens
<1>2. /\ k.st \in {"connected", "closing", "last_ack", "done"} /\ (k.st = "connected" => AnswerUnderWay(k, d))
      /\ \A n \in 1 .. Len(u) : ~IsSyn(u[n])
  BY Zenon DEF SocketInv
<1>3. \A n \in 1 .. Len(v) : ~IsSyn(v[n])
  BY <1>1, <1>2, Zenon
<1> QED
  BY <1>2, <1>3 DEF SocketInv

\* A socket that has answered and sends nothing.
LEMMA PollAnswered ==
    ASSUME XInv, NEW c \in Clients, NEW m, PollFacts(c, m), NEW i \in Slots, Found(i, m), NEW s2, Update(i, s2, <<>>),
           sockets[i].state \in {"FIN_WAIT_1", "FIN_WAIT_2", "TIME_WAIT"},
           s2.state \in {"FIN_WAIT_1", "FIN_WAIT_2", "TIME_WAIT"}, s2.remote_ip = Host, s2.remote_port = c
    PROVE  XInv'
<1>1. IsLive(sockets[i], c) /\ SocketInv(c, sockets[i], client[c], toServer[c], toClient[c])
  BY PollFound, Zenon
<1>2. out' = <<>>
  BY DEF Update
<1>3. Addressed(out', c) /\ Addressed(<<>>, c)
  BY <1>2, NothingSent, Zenon
<1>4. toClient'[c] = toClient[c]
  BY <1>2, <1>3, PollLands, Zenon DEF Lands
<1>5. ResponseInv(c, client[c], toClient'[c])
  BY <1>4, Zenon DEF PollFacts, ClientFacts
<1>6. SocketInv(c, s2, client[c], Tail(toServer[c]), toClient'[c])
  BY <1>1, <1>4, AnsweredKept, Zenon DEF PollFacts
<1>7. s2.state # "CLOSED"
  OBVIOUS
<1> QED
  BY <1>1, <1>3, <1>5, <1>6, <1>7, PollUpdate, Zenon

\* FinWait1: the answer is acknowledged, or the FIN comes first.
LEMMA PollFinWait1 ==
    ASSUME XInv, NEW c \in Clients, NEW m, PollFacts(c, m), NEW i \in Slots, FinWait1(i, m)
    PROVE  XInv'
<1> DEFINE t == sockets[i]
           s == Touch(t, m)
           s2 == IF "FIN" \in m.flags THEN [s EXCEPT !.ack = Add(@, 1), !.state = "TIME_WAIT"]
                 ELSE IF "ACK" \in m.flags THEN [s EXCEPT !.state = "FIN_WAIT_2"]
                 ELSE s
<1>1. t.state = "FIN_WAIT_1" /\ Found(i, m) /\ Update(i, s2, <<>>)
  BY DEF FinWait1
<1>2. t \in Socket /\ t.remote_ip = Host /\ t.remote_port = c
  BY <1>1, PollFound, Zenon
<1>m. m \in Segment /\ tcp_now \in Ticks
  BY Zenon DEF PollFacts
<1>3. SamePeer(t, s) /\ s.state = t.state
  BY <1>2, <1>m, TouchLive, Zenon
<1>4. s \in Socket /\ s.remote_ip = Host /\ s.remote_port = c /\ s.state = "FIN_WAIT_1"
  BY <1>1, <1>2, <1>3, Zenon DEF SamePeer
<1> HIDE DEF s
<1>5. s2.remote_ip = Host /\ s2.remote_port = c /\ s2.state \in {"FIN_WAIT_1", "FIN_WAIT_2", "TIME_WAIT"}
  BY <1>4 DEF Socket
<1>6. t.state \in {"FIN_WAIT_1", "FIN_WAIT_2", "TIME_WAIT"}
  BY <1>1
<1> HIDE DEF s2
<1> QED
  BY <1>1, <1>5, <1>6, PollAnswered, Zenon

\* The FIN of the client releases the slot.
LEMMA PollFinWait2 ==
    ASSUME XInv, NEW c \in Clients, NEW m, PollFacts(c, m), NEW i \in Slots, FinWait2(i, m)
    PROVE  XInv'
<1> DEFINE t == sockets[i]
           s == Touch(t, m)
           a == [s EXCEPT !.ack = Add(@, 1)]
           k == client[c]
           u == toServer[c]
           v == Tail(u)
           d == toClient[c]
<1>1. /\ t.state = "FIN_WAIT_2" /\ Found(i, m)
      /\ "FIN" \in m.flags => Update(i, socket_close(a), <<Ctrl(a, {"ACK"})>>)
      /\ "FIN" \notin m.flags => Update(i, s, <<>>)
  BY DEF FinWait2
<1>2. /\ IsLive(t, c) /\ t \in Socket /\ t.remote_ip = Host /\ t.remote_port = c /\ SocketInv(c, t, k, u, d)
  BY <1>1, PollFound, Zenon
<1>3. m \in Segment /\ tcp_now \in Ticks /\ Shortens(u, v) /\ u # <<>> /\ ClientFacts(c)
  BY Zenon DEF PollFacts
<1>4. SamePeer(t, s) /\ s.state = t.state
  BY <1>2, <1>3, TouchLive, Zenon
<1>5. s \in Socket /\ s.remote_ip = Host /\ s.remote_port = c /\ s.state = "FIN_WAIT_2"
  BY <1>1, <1>2, <1>4, Zenon DEF SamePeer
<1>6. /\ t.state \in {"FIN_WAIT_1", "FIN_WAIT_2", "TIME_WAIT"}
      /\ s.state \in {"FIN_WAIT_1", "FIN_WAIT_2", "TIME_WAIT"}
  BY <1>1, <1>5
<1> HIDE DEF s
<1>7. CASE "FIN" \notin m.flags
  BY <1>1, <1>5, <1>6, <1>7, PollAnswered, Zenon
<1>8. CASE "FIN" \in m.flags
  <2> DEFINE s2 == socket_close(a)
             o == <<Ctrl(a, {"ACK"})>>
  <2>1. a \in Socket /\ a.remote_ip = Host /\ a.remote_port = c
    <3>1. s.ack \in Nat /\ 1 \in Nat
      BY <1>5 DEF Socket, SeqNo
    <3>2. Add(s.ack, 1) \in SeqNo
      BY <3>1, AddType, Zenon
    <3> QED
      BY <1>5, <3>2 DEF Socket
  <2> HIDE DEF a
  <2>2. s2.remote_port = c /\ s2.state = "CLOSED"
    BY <2>1 DEF socket_close, Socket
  <2>3. Addressed(o, c) /\ CtrlOnly(o, a, {"ACK"})
    <3>1. {"ACK"} \in SUBSET Flags /\ {"ACK"} # {}
      BY DEF Flags
    <3> QED
      BY <2>1, <3>1, CtrlSent, Zenon
  <2>4. Update(i, s2, o)
    BY <1>1, <1>8, Zenon
  <2>5. out' = o
    BY <2>4 DEF Update
  <2> HIDE DEF o, s2
  <2>6. \A j \in 1 .. Len(o) : o[j].resp = NoResponse
    BY <2>3, Zenon DEF CtrlOnly
  <2>7. Lands(c, o)
    BY <2>3, <2>5, PollLands, Zenon
  <2>8. ResponseInv(c, k, toClient'[c])
    BY <2>5, <2>6, <2>7, QuietLands, Zenon
  <2>9. NoSocketInv(k, v, toClient'[c])
    <3>1. k.st \in {"last_ack", "done"}
      BY <1>8, Zenon DEF PollFacts
    <3>2. \A n \in 1 .. Len(u) : ~IsSyn(u[n])
      BY <1>2, <1>6, Zenon DEF SocketInv
    <3>3. \A n \in 1 .. Len(v) : n + 1 \in 1 .. Len(u) /\ v[n] = u[n + 1]
      BY <1>3 DEF Shortens
    <3>4. \A n \in 1 .. Len(v) : ~IsSyn(v[n])
      BY <3>2, <3>3, Zenon
    <3> QED
      BY <3>1, <3>4, Zenon DEF NoSocketInv
  <2> QED
    BY <1>2, <2>2, <2>3, <2>4, <2>8, <2>9, PollUpdate, Zenon
<1> QED
  BY <1>7, <1>8, Zenon

\* Ignored: only a socket in TIME_WAIT belongs to a client.
LEMMA PollIgnored ==
    ASSUME XInv, NEW c \in Clients, NEW m, PollFacts(c, m), NEW i \in Slots, Ignored(i, m)
    PROVE  XInv'
<1> DEFINE t == sockets[i]
           s == Touch(t, m)
<1>1. t.state \in {"LISTEN", "TIME_WAIT"} /\ Found(i, m) /\ Update(i, s, <<>>)
  BY DEF Ignored
<1>2. /\ t \in Socket /\ t.remote_ip = Host /\ t.remote_port = c
      /\ SocketInv(c, t, client[c], toServer[c], toClient[c])
  BY <1>1, PollFound, Zenon
<1>m. m \in Segment /\ tcp_now \in Ticks
  BY Zenon DEF PollFacts
<1>3. SamePeer(t, s) /\ s.state = t.state
  BY <1>2, <1>m, TouchLive, Zenon
<1>4. t.state = "TIME_WAIT"
  BY <1>1, <1>2 DEF SocketInv
<1>5. s.remote_ip = Host /\ s.remote_port = c /\ s.state = "TIME_WAIT"
  BY <1>2, <1>3, <1>4, Zenon DEF SamePeer
<1> HIDE DEF s
<1>6. /\ t.state \in {"FIN_WAIT_1", "FIN_WAIT_2", "TIME_WAIT"}
      /\ s.state \in {"FIN_WAIT_1", "FIN_WAIT_2", "TIME_WAIT"}
  BY <1>4, <1>5
<1> QED
  BY <1>1, <1>5, <1>6, PollAnswered, Zenon

\* Poll: one case per branch of tcp_receive; the branches for a SYN, a FIN or no
\* ACK at an open socket do not occur.
LEMMA PollInv ==
    ASSUME SoundDeployment, XInv, NEW c \in Clients, Poll(c)
    PROVE  XInv'
<1>1. PICK m : PollFacts(c, m)
  BY PollStart, Zenon
<1>2. tcp_receive(m)
  BY <1>1, Zenon DEF PollFacts
<1>3. CASE Reject(m)
  BY <1>1, <1>3, PollReject, Zenon
<1>4. ASSUME NEW i \in Slots, Accept(i, m) PROVE XInv'
  BY <1>1, <1>4, PollAccept, Zenon
<1>5. ASSUME NEW i \in Slots, SynReceived(i, m) PROVE XInv'
  BY <1>1, <1>5, PollSynReceived, Zenon
<1>6. ASSUME NEW i \in Slots, StraySyn(i, m) \/ PeerFin(i, m) \/ NoAck(i, m) PROVE FALSE
  <2>1. Open(i, m)
    BY <1>6, Zenon DEF StraySyn, PeerFin, NoAck
  <2>2. ~IsSyn(m) /\ "FIN" \notin m.flags /\ "ACK" \in m.flags
    BY <1>1, <2>1, PollOpen, Zenon
  <2> QED
    BY <1>6, <2>2 DEF StraySyn, PeerFin, NoAck, IsSyn
<1>7. ASSUME NEW i \in Slots, Collect(i, m) PROVE XInv'
  BY <1>1, <1>7, PollCollect, Zenon
<1>8. ASSUME NEW i \in Slots, Serve(i, m) PROVE XInv'
  BY <1>1, <1>8, PollServe, Zenon
<1>9. ASSUME NEW i \in Slots, FinWait1(i, m) PROVE XInv'
  BY <1>1, <1>9, PollFinWait1, Zenon
<1>10. ASSUME NEW i \in Slots, FinWait2(i, m) PROVE XInv'
  BY <1>1, <1>10, PollFinWait2, Zenon
<1>11. ASSUME NEW i \in Slots, Ignored(i, m) PROVE XInv'
  BY <1>1, <1>11, PollIgnored, Zenon
<1> QED
  BY <1>2, <1>3, <1>4, <1>5, <1>6, <1>7, <1>8, <1>9, <1>10, <1>11, Zenon DEF tcp_receive

----
(* A tick of the timer: half-open sockets send their SYN-ACK again. *)

\* Socket t is socket s with another time of its last activity.
SameSocket(s, t) ==
    /\ t.state = s.state /\ t.remote_ip = s.remote_ip /\ t.remote_port = s.remote_port
    /\ t.seq = s.seq /\ t.rx = s.rx

\* What is said of a socket does not depend on its time.
LEMMA SameSocketInv ==
    ASSUME NEW c, NEW s, NEW t, NEW k, NEW u, NEW d, SameSocket(s, t), SocketInv(c, s, k, u, d)
    PROVE  SocketInv(c, t, k, u, d)
<1>1. s.state = "SYN_RECEIVED" => HalfOpen(t, k, u, d)
  BY Zenon DEF SameSocket, SocketInv, HalfOpen
<1>2. s.state = "ESTABLISHED" => Transfer(c, t, k, u, d)
  BY Zenon DEF SameSocket, SocketInv, Transfer
<1> QED
  BY <1>1, <1>2, Zenon DEF SameSocket, SocketInv

\* tcp_periodic changes nothing else, and puts the SYN-ACK of an expired slot in its place.
LEMMA TickSockets ==
    ASSUME XInv, tcp_periodic
    PROVE  /\ \A i \in Slots : SameSocket(sockets[i], sockets'[i])
           /\ \A n \in 1 .. Len(out') :
                 out'[n].flags # {} => /\ n - 1 \in Slots /\ sockets[n - 1].state = "SYN_RECEIVED"
                                       /\ out'[n] = Ctrl(sockets[n - 1], {"SYN", "ACK"})
<1> DEFINE now == (tcp_now + 1) % NowMod
           o == out'
<1>1. TypeOK /\ sockets \in [Slots -> Socket]
  BY DEF XInv, TypeOK
<1>2. \A i \in Slots : sockets'[i] = IF Expired(i, now) THEN [sockets[i] EXCEPT !.last_activity = now] ELSE sockets[i]
  BY DEF tcp_periodic
<1>3. \A i \in Slots : SameSocket(sockets[i], sockets'[i])
  BY <1>1, <1>2 DEF SameSocket, Socket
<1>4. o = Retries(now)
  BY DEF tcp_periodic
<1>5. o \in Seq(OutSegment)
  <2>1. TypeOK'
    BY <1>1, PeriodicType, Zenon
  <2> QED
    BY <2>1 DEF TypeOK
<1> HIDE DEF now, o
<1>6. 1 .. Len(o) = 1 .. MaxSockets
  <2>1. DOMAIN o = 1 .. MaxSockets
    BY <1>4 DEF Retries
  <2> QED
    BY <1>5, <2>1
<1>7. ASSUME NEW n \in 1 .. Len(o), o[n].flags # {}
      PROVE  /\ n - 1 \in Slots /\ sockets[n - 1].state = "SYN_RECEIVED"
             /\ o[n] = Ctrl(sockets[n - 1], {"SYN", "ACK"})
  <2>1. n \in 1 .. MaxSockets /\ n - 1 \in Slots
    BY <1>6, TableAssumption DEF Slots
  <2>2. o[n] = IF Expired(n - 1, now) THEN Ctrl(sockets[n - 1], {"SYN", "ACK"}) ELSE NoSegment
    BY <1>4, <2>1 DEF Retries
  <2>3. NoSegment.flags = {}
    BY DEF NoSegment, Ctrl
  <2>4. Expired(n - 1, now)
    BY <1>7, <2>2, <2>3, Zenon
  <2> QED
    BY <2>1, <2>2, <2>4, Zenon DEF Expired
<1> QED
  BY <1>3, <1>7, Zenon DEF o

\* A stretch of one element.
LEMMA OneOf ==
    ASSUME NEW S, NEW s \in Seq(S), NEW n \in 1 .. Len(s)
    PROVE  SubSeq(s, n, n) = <<s[n]>>
<1> DEFINE t == SubSeq(s, n, n)
           x == s[n]
<1>1. n \in Int /\ x \in S /\ \A i \in n .. n : s[i] \in S
  OBVIOUS
<1>2. t \in Seq(S) /\ Len(t) = (IF n <= n THEN n - n + 1 ELSE 0) /\ \A i \in 1 .. n - n + 1 : t[i] = s[n + i - 1]
  BY <1>1, SubSeqProperties
<1> HIDE DEF t
<1>3. Len(t) = 1 /\ t[1] = x
  BY <1>1, <1>2
<1> HIDE DEF x
<1>4. <<x>> \in Seq(S) /\ Len(<<x>>) = 1 /\ <<x>>[1] = x /\ \A i \in 1 .. 1 : i = 1
  BY <1>1
<1>5. Len(t) = Len(<<x>>) /\ \A i \in 1 .. Len(t) : t[i] = <<x>>[i]
  BY <1>3, <1>4, Zenon
<1>6. t = <<x>>
  BY <1>2, <1>4, <1>5, SeqEqual, ZenonT(30)
<1> QED
  BY <1>6, Zenon DEF t, x

\* A tick delivers nothing to client c, or the SYN-ACK of its half-open socket.
TickSends(c, o) ==
    \/ o = <<>>
    \/ \E i \in Slots : /\ IsLive(sockets[i], c) /\ sockets[i].state = "SYN_RECEIVED"
                        /\ CtrlOnly(o, sockets[i], {"SYN", "ACK"})

\* The half-open socket is the only one of its client, so at most one segment is delivered.
LEMMA TickDelivers ==
    ASSUME XInv, tcp_periodic, NEW c \in Clients
    PROVE  Delivered(c) \in Seq(OutSegment) /\ TickSends(c, Delivered(c))
<1> DEFINE o == out'
           m == [ip |-> Host, sport |-> c, dport |-> HttpPort]
           T == SentTo(c)
<1>1. \A n \in 1 .. Len(o) :
          o[n].flags # {} => /\ n - 1 \in Slots /\ sockets[n - 1].state = "SYN_RECEIVED"
                             /\ o[n] = Ctrl(sockets[n - 1], {"SYN", "ACK"})
  BY TickSockets, Zenon
<1>2. sockets \in [Slots -> Socket] /\ o \in Seq(OutSegment)
  <2>1. TypeOK
    BY DEF XInv
  <2>2. TypeOK'
    BY <2>1, PeriodicType, Zenon
  <2> QED
    BY <2>1, <2>2 DEF TypeOK
<1>3. \A i, j \in Slots : IsLive(sockets[i], c) /\ IsLive(sockets[j], c) => i = j
  <2>1. m.ip = Host /\ m.sport = c /\ m.dport = HttpPort
    OBVIOUS
  <2> HIDE DEF m
  <2> QED
    BY <2>1, LiveLookup, Zenon DEF FoundSocket
<1>4. T = {n \in 1 .. Len(o) : o[n].ip = Host /\ o[n].port = c /\ o[n].flags # {}}
  BY Zenon DEF SentTo
<1>5. Delivered(c) = IF T = {} THEN <<>> ELSE SubSeq(o, First(T), Final(T))
  BY Zenon DEF Delivered
<1> HIDE DEF o, T
<1>6. CASE T = {}
  <2>1. <<>> \in Seq(OutSegment)
    OBVIOUS
  <2> QED
    BY <1>5, <1>6, <2>1, Zenon DEF TickSends
<1>7. ASSUME NEW n \in T PROVE /\ n \in 1 .. Len(o) /\ n - 1 \in Slots /\ IsLive(sockets[n - 1], c)
                              /\ sockets[n - 1].state = "SYN_RECEIVED" /\ sockets[n - 1].remote_ip = Host
                              /\ o[n] = Ctrl(sockets[n - 1], {"SYN", "ACK"})
  <2>1. n \in 1 .. Len(o) /\ o[n].ip = Host /\ o[n].port = c /\ o[n].flags # {}
    BY <1>4
  <2>2. n - 1 \in Slots /\ sockets[n - 1].state = "SYN_RECEIVED" /\ o[n] = Ctrl(sockets[n - 1], {"SYN", "ACK"})
    BY <1>1, <2>1, Zenon
  <2>3. o[n].ip = sockets[n - 1].remote_ip /\ o[n].port = sockets[n - 1].remote_port
    BY <2>2 DEF Ctrl
  <2>4. IsLive(sockets[n - 1], c)
    BY <2>1, <2>2, <2>3 DEF IsLive
  <2> QED
    BY <2>1, <2>2, <2>3, <2>4, Zenon
<1>8. CASE T # {}
  <2>1. PICK n \in T : TRUE
    BY <1>8, Zenon
  <2> DEFINE t == sockets[n - 1]
             flags == {"SYN", "ACK"}
  <2>2. \A j \in T : j = n
    <3> SUFFICES ASSUME NEW j \in T PROVE j = n
      OBVIOUS
    <3>1. j \in Int /\ n \in Int /\ j - 1 = n - 1
      <4>1. j - 1 = n - 1
        BY <1>3, <1>7, Zenon
      <4>2. j \in 1 .. Len(o) /\ n \in 1 .. Len(o)
        BY <1>7, Zenon
      <4> QED
        BY <1>2, <4>1, <4>2
    <3> QED
      BY <3>1
  <2>3. n \in Int /\ n <= n
    <3>1. n \in 1 .. Len(o)
      BY <1>7, Zenon
    <3> QED
      BY <1>2, <3>1
  <2>4. First(T) = n /\ Final(T) = n
    <3>1. T \subseteq Int /\ \A j \in T : n <= j /\ j <= n
      BY <2>2, <2>3, Zenon
    <3> QED
      BY <3>1, FirstFinal, Zenon
  <2>5. Delivered(c) = <<o[n]>>
    <3>1. n \in 1 .. Len(o)
      BY <1>7, Zenon
    <3>2. SubSeq(o, n, n) = <<o[n]>>
      BY <1>2, <3>1, OneOf, Zenon
    <3> QED
      BY <1>5, <1>8, <2>4, <3>2, Zenon
  <2>6. t \in Socket /\ t.remote_ip = Host /\ t.remote_port = c /\ flags \in SUBSET Flags /\ flags # {}
    <3>1. n - 1 \in Slots /\ IsLive(t, c) /\ t.remote_ip = Host
      BY <1>7, Zenon
    <3> QED
      BY <1>2, <3>1 DEF IsLive, Flags
  <2> HIDE DEF flags
  <2>7. Delivered(c) = <<Ctrl(t, flags)>>
    BY <1>7, <2>5, Zenon DEF flags
  <2>8. Addressed(<<Ctrl(t, flags)>>, c) /\ CtrlOnly(<<Ctrl(t, flags)>>, t, flags)
    BY <2>6, CtrlSent, Zenon
  <2>9. Delivered(c) \in Seq(OutSegment) /\ CtrlOnly(Delivered(c), t, flags)
    BY <2>7, <2>8, Zenon DEF Addressed
  <2> QED
    BY <1>7, <2>9, Zenon DEF TickSends, flags
<1> QED
  BY <1>6, <1>8, Zenon

\* The client whose half-open socket may have sent its SYN-ACK again.
LEMMA TickClient ==
    ASSUME XInv, tcp_periodic, NEW c \in Clients, NEW o, TickSends(c, o), Lands(c, o)
    PROVE  ClientInv(c, sockets', client[c], toServer[c], toClient'[c])
<1> DEFINE k == client[c]
           u == toServer[c]
           d == toClient[c]
           e == toClient'[c]
           m == [ip |-> Host, sport |-> c, dport |-> HttpPort]
<1>1. ClientInv(c, sockets, k, u, d) /\ UpInv(c, k, u) /\ ResponseInv(c, k, d)
  BY StartFacts, Zenon DEF ClientFacts
<1>2. \A i \in Slots : SameSocket(sockets[i], sockets'[i])
  BY TickSockets, Zenon
<1>3. \A i \in Slots : IsLive(sockets'[i], c) <=> IsLive(sockets[i], c)
  BY <1>2, Zenon DEF SameSocket, IsLive
<1>4. e \in Seq(OutSegment) /\ Grows(d, o, e)
  BY Zenon DEF Lands
<1>5. ASSUME \A i \in Slots : IsLive(sockets[i], c) => SocketInv(c, sockets[i], k, u, e),
             (\A i \in Slots : ~IsLive(sockets[i], c)) => e = d,
             ResponseInv(c, k, e)
      PROVE  ClientInv(c, sockets', k, u, e)
  <2>1. \A i \in Slots : IsLive(sockets'[i], c) => SocketInv(c, sockets'[i], k, u, e)
    BY <1>2, <1>3, <1>5, SameSocketInv, Zenon
  <2>2. (\A i \in Slots : ~IsLive(sockets'[i], c)) => NoSocketInv(k, u, e)
    BY <1>1, <1>3, <1>5, Zenon DEF ClientInv
  <2> QED
    BY <1>1, <1>5, <2>1, <2>2, Zenon DEF ClientInv
<1>6. CASE o = <<>>
  <2>1. e = d
    BY <1>6, Zenon DEF Lands
  <2> QED
    BY <1>1, <1>5, <2>1, Zenon DEF ClientInv
<1>7. ASSUME NEW i \in Slots, IsLive(sockets[i], c), sockets[i].state = "SYN_RECEIVED",
             CtrlOnly(o, sockets[i], {"SYN", "ACK"})
      PROVE  ClientInv(c, sockets', k, u, e)
  <2>1. \A j \in Slots : IsLive(sockets[j], c) => j = i
    <3>1. m.ip = Host /\ m.sport = c /\ m.dport = HttpPort
      OBVIOUS
    <3> HIDE DEF m
    <3> QED
      BY <1>7, <3>1, LiveLookup, Zenon DEF FoundSocket
  <2>2. SocketInv(c, sockets[i], k, u, d)
    BY <1>1, <1>7, Zenon DEF ClientInv
  <2>3. \A j \in 1 .. Len(o) : o[j].resp = NoResponse /\ o[j].flags = {"SYN", "ACK"} /\ o[j].seq = sockets[i].seq
    BY <1>7, Zenon DEF CtrlOnly
  <2>4. \A j \in 1 .. Len(o) : Harmless(o[j]) /\ (IsSyn(o[j]) => o[j].seq = sockets[i].seq)
    BY <2>3 DEF Harmless, Quiescent
  <2>5. HalfOpen(sockets[i], k, u, e)
    <3>1. HalfOpen(sockets[i], k, u, d)
      BY <1>7, <2>2, Zenon DEF SocketInv
    <3> QED
      BY <1>4, <2>4, <3>1, HalfOpenDown, Zenon
  <2>6. SocketInv(c, sockets[i], k, u, e)
    BY <1>7, <2>2, <2>5 DEF SocketInv
  <2>7. ResponseInv(c, k, e)
    BY <1>1, <1>4, <2>3, ResponseGrows, Zenon
  <2> QED
    BY <1>5, <1>7, <2>1, <2>6, <2>7, Zenon
<1> QED
  BY <1>6, <1>7, Zenon DEF TickSends

\* Tick: every client is told apart by its own sockets.
LEMMA TickInv ==
    ASSUME XInv, Tick
    PROVE  XInv'
<1>1. tcp_periodic /\ Deliver /\ client' = client /\ toServer' = toServer
  BY DEF Tick
<1>2. TypeOK' /\ Inv({})'
  <2>1. TypeOK /\ Inv({})
    BY DEF XInv
  <2> QED
    BY <1>1, <2>1, PeriodicType, PeriodicInv, Zenon
<1>3. \A c \in Clients : TickSends(c, Delivered(c)) /\ Lands(c, Delivered(c))
  BY <1>1, TickDelivers, DeliverLands, Zenon
<1>4. \A c \in Clients : ClientInv(c, sockets', client[c], toServer[c], toClient'[c])
  BY <1>1, <1>3, TickClient, Zenon
<1>5. /\ toClient' \in [Clients -> Seq(OutSegment)] /\ UNCHANGED <<arp_table, announced>>
      /\ \A b \in Clients : toClient'[b] # <<>> => toClient[b] # <<>> \/ Known(Host)
  BY <1>1, <1>3, DeliverKeeps, Zenon
<1>6. ArpTypeOK' /\ ArpTruthful' /\ Remembered' /\ (Known(Host) => Known(Host)')
  <2>1. ArpTypeOK /\ ArpTruthful /\ Remembered
    BY DEF XInv
  <2> QED
    BY <1>5, <2>1, ArpKept, Zenon
<1>7. HostKnown'
  <2>1. HostKnown
    BY DEF XInv
  <2> QED
    BY <1>1, <1>5, <1>6, <2>1, Zenon DEF HostKnown
<1>8. client' \in [Clients -> ClientRecord] /\ toServer' \in [Clients -> Seq(Segment)]
  BY <1>1, Zenon DEF XInv
<1>9. \A c \in Clients : ClientInv(c, sockets', client'[c], toServer'[c], toClient'[c])
  BY <1>1, <1>4, Zenon
<1> QED
  BY <1>2, <1>5, <1>6, <1>7, <1>8, <1>9, Zenon DEF XInv

----
(* The steps of the neighbours, who only touch the table. *)

\* Such a step keeps the invariant if the table keeps its own and does not forget Host.
LEMMA ArpMoves ==
    ASSUME XInv, ArpWire, ArpTypeOK', ArpTruthful', Remembered', Known(Host) => Known(Host)'
    PROVE  XInv'
<1>1. UNCHANGED <<sockets, tcp_now>> /\ out' = <<>>
  BY DEF ArpWire
<1>2. sockets' = sockets /\ client' = client /\ toServer' = toServer /\ toClient' = toClient
  BY DEF ArpWire
<1>3. TypeOK' /\ Inv({})'
  <2>1. TypeOK /\ Inv({})
    BY DEF XInv
  <2> QED
    BY <1>1, <2>1, ServerKept, Zenon
<1>4. HostKnown'
  BY <1>2, Zenon DEF XInv, HostKnown
<1>5. \A c \in Clients : ClientInv(c, sockets', client'[c], toServer'[c], toClient'[c])
  BY <1>2, Zenon DEF XInv
<1> QED
  BY <1>2, <1>3, <1>4, <1>5, Zenon DEF XInv

\* A step that leaves the table as it is.
LEMMA ArpMissed ==
    ASSUME XInv, ArpWire, UNCHANGED <<arp_table, announced>>
    PROVE  XInv'
<1>1. ArpTypeOK /\ ArpTruthful /\ Remembered
  BY DEF XInv
<1>2. ArpTypeOK' /\ ArpTruthful' /\ Remembered' /\ (Known(Host) => Known(Host)')
  BY <1>1, ArpKept, Zenon
<1> QED
  BY <1>2, ArpMoves, Zenon

\* A frame of a neighbour: the table has room for all, so Host is not forgotten.
LEMMA ArpHears ==
    ASSUME SoundDeployment, XInv, ArpWire, NEW n \in Neighbours, NEW oper \in {"request", "reply"},
           arp_receive(FrameOf(n, oper))
    PROVE  XInv'
<1> DEFINE f == FrameOf(n, oper)
<1>1. f \in ArpFrame /\ f.spa = n /\ f.sha = HwAddr[n] /\ f.good /\ HwAddr[n] \in Macs
  BY ExchangeAssumption DEF FrameOf, ArpFrame
<1>2. announced' = [announced EXCEPT ![n] = HwAddr[n]]
  BY <1>1 DEF arp_receive
<1> HIDE DEF f
<1>3. [ArpNext]_arpvars
  BY <1>1, Zenon DEF ArpNext, f
<1>4. ArpTypeOK /\ ArpTruthful /\ Remembered
  BY DEF XInv
<1>5. ArpTypeOK' /\ ArpTruthful' /\ Remembered'
  BY <1>3, <1>4, TypeStep, TruthfulStep, RememberedStep, Zenon
<1>6. ASSUME Known(Host) PROVE Known(Host)'
  <2>1. Host \in Announced
    <3>1. PICK i \in ArpSlots : arp_table[i].valid /\ arp_table[i].ip = Host
      BY <1>6 DEF Known, arp_lookup
    <3> QED
      BY <1>4, <3>1, Zenon DEF Remembered
  <2>2. Announced \subseteq Announced'
    <3>1. HwAddr[n] # None
      BY <1>1, ArpAssumption
    <3> QED
      BY <1>2, <1>4, <3>1 DEF Announced, ArpTypeOK
  <2>3. Announced' \subseteq Neighbours
    BY DEF Announced
  <2>4. IsFiniteSet(Announced') /\ Cardinality(Announced') <= Cardinality(Neighbours)
        /\ Cardinality(Announced') \in Nat /\ Cardinality(Neighbours) \in Nat
    <3>1. IsFiniteSet(Neighbours) /\ Announced' \in SUBSET Neighbours
      BY <2>3 DEF SoundDeployment
    <3> QED
      BY <3>1, FS_Subset, FS_CardinalityType
  <2>5. ~(Cardinality(Announced') > ArpTableSize)
    BY <2>4, ArpAssumption DEF SoundDeployment
  <2>6. \A a \in Announced' : Known(a)'
    BY <1>5, <2>5, Zenon DEF Remembered
  <2> QED
    BY <2>1, <2>2, <2>6, Zenon
<1> QED
  BY <1>5, <1>6, ArpMoves, Zenon

\* Answer, Announce and Ping.
LEMMA ArpStepInv ==
    ASSUME SoundDeployment, XInv, ArpStep
    PROVE  XInv'
<1>1. Host \in Neighbours /\ "reply" \in {"request", "reply"} /\ "request" \in {"request", "reply"}
  BY ExchangeAssumption
<1>2. CASE Answer
  <2>1. arp_receive(FrameOf(Host, "reply")) /\ ArpWire
    BY <1>2 DEF Answer
  <2> QED
    BY <1>1, <2>1, ArpHears, Zenon
<1>3. CASE Ping
  <2>1. ArpWire /\ UNCHANGED <<arp_table, announced>>
    BY <1>3 DEF Ping, arp_resolve
  <2> QED
    BY <2>1, ArpMissed, Zenon
<1>4. ASSUME NEW n \in Neighbours, Announce(n) PROVE XInv'
  <2>1. arp_receive(FrameOf(n, "request")) /\ ArpWire
    BY <1>4 DEF Announce
  <2> QED
    BY <1>1, <2>1, ArpHears, Zenon
<1> QED
  BY <1>2, <1>3, <1>4, Zenon DEF ArpStep

----
(* The invariant holds in every reachable state. *)

\* At the start nobody is connected and nothing is under way.
LEMMA XInitInv == XInit => XInv
<1> SUFFICES ASSUME XInit PROVE XInv
  OBVIOUS
<1>1. TypeOK /\ Inv({})
  BY InitType, InitInv, Zenon DEF XInit
<1>2. ArpTypeOK /\ ArpTruthful /\ Remembered
  BY InitRemembered, Zenon DEF XInit
<1>3. \A c \in Clients : client[c] = NewClient(c) /\ toServer[c] = <<>> /\ toClient[c] = <<>>
  BY DEF XInit
<1>4. \A c \in Clients : NewClient(c) \in ClientRecord
  BY ExchangeAssumption, NumberAssumption DEF NewClient, ClientRecord, ClientStates, SeqNo
<1>5. /\ client \in [Clients -> ClientRecord] /\ toServer \in [Clients -> Seq(Segment)]
      /\ toClient \in [Clients -> Seq(OutSegment)]
  BY <1>4 DEF XInit
<1>6. HostKnown
  <2>1. \A c \in Clients : NewClient(c).st \in Young
    BY DEF NewClient, Young
  <2> QED
    BY <1>3, <2>1, Zenon DEF HostKnown
<1>7. ASSUME NEW c \in Clients PROVE ClientInv(c, sockets, client[c], toServer[c], toClient[c])
  <2> DEFINE k == client[c]
             e == <<>>
  <2>1. k \in ClientRecord /\ k.st = "idle" /\ k.sent = 0 /\ k.una = 0 /\ k.status = 0 /\ Len(Wanted[c]) \in Nat
    <3>1. /\ NewClient(c).st = "idle" /\ NewClient(c).sent = 0 /\ NewClient(c).una = 0
          /\ NewClient(c).status = 0
      BY DEF NewClient
    <3>2. Len(Wanted[c]) \in Nat
      <4>1. Wanted[c] \in Seq(Tokens)
        BY ExchangeAssumption
      <4> QED
        BY <4>1
    <3> QED
      BY <1>3, <1>4, <3>1, <3>2, Zenon
  <2>2. e \in Seq(Segment) /\ e \in Seq(OutSegment) /\ Len(e) = 0 /\ \A n \in 1 .. Len(e) : FALSE
    OBVIOUS
  <2>3. "idle" \in Young
    BY DEF Young
  <2>4. \A i \in Slots : ~IsLive(sockets[i], c)
    BY ExchangeAssumption DEF XInit, Init, IsLive, ZeroSocket
  <2> HIDE DEF k
  <2>5. UpInv(c, k, e)
    BY <2>1, <2>2, <2>3 DEF UpInv
  <2>6. ResponseInv(c, k, e)
    BY <2>1, <2>2, Zenon DEF ResponseInv
  <2>7. NoSocketInv(k, e, e)
    BY <2>1, <2>2, <2>3, Zenon DEF NoSocketInv
  <2>8. ClientInv(c, sockets, k, e, e)
    BY <2>4, <2>5, <2>6, <2>7, Zenon DEF ClientInv
  <2> QED
    BY <1>3, <2>8, Zenon DEF k
<1> QED
  BY <1>1, <1>2, <1>5, <1>6, <1>7, Zenon DEF XInv

\* A step that changes nothing.
LEMMA XStutterInv ==
    ASSUME XInv, UNCHANGED xvars
    PROVE  XInv'
<1>1. sockets' = sockets /\ tcp_now' = tcp_now /\ out' = out /\ client' = client /\ toServer' = toServer
      /\ toClient' = toClient /\ arp_table' = arp_table /\ announced' = announced
  BY DEF xvars, arpvars
<1>2. UNCHANGED vars
  BY <1>1 DEF vars
<1>3. TypeOK' /\ Inv({})'
  BY <1>2 DEF XInv, vars, TypeOK, Inv, ListenerKept, AcceptedHavePeer, AmbiguousOnlyOn, Ambiguous, RetryNeverOverdue, NoPendingRequest
<1>4. ArpTypeOK' /\ ArpTruthful' /\ Remembered' /\ (Known(Host) => Known(Host)')
  <2>1. UNCHANGED <<arp_table, announced>> /\ ArpTypeOK /\ ArpTruthful /\ Remembered
    BY <1>1 DEF XInv
  <2> QED
    BY <2>1, ArpKept, Zenon
<1>5. HostKnown'
  BY <1>1, <1>4, Zenon DEF XInv, HostKnown
<1>6. \A c \in Clients : ClientInv(c, sockets', client'[c], toServer'[c], toClient'[c])
  BY <1>1, Zenon DEF XInv
<1> QED
  BY <1>1, <1>3, <1>4, <1>5, <1>6, Zenon DEF XInv

\* Every step of the composition.
LEMMA XNextInv ==
    ASSUME SoundDeployment, XInv, [XNext]_xvars
    PROVE  XInv'
<1>1. CASE Tick
  BY <1>1, TickInv, Zenon
<1>2. CASE ArpStep
  BY <1>2, ArpStepInv, Zenon
<1>3. ASSUME NEW c \in Clients, Poll(c) PROVE XInv'
  BY <1>3, PollInv, Zenon
<1>4. ASSUME NEW c \in Clients, ClientStep(c) PROVE XInv'
  BY <1>4, ConnectInv, SendDataInv, OnSynAckInv, OnResponseInv, OnFinInv, CloseInv, OnRstInv, OnOtherInv,
     RetransmitInv, GiveUpInv, Zenon DEF ClientStep
<1>5. ASSUME NEW c \in Clients, Lose(c) PROVE XInv'
  BY <1>5, LoseInv, Zenon
<1>6. ASSUME NEW c \in Clients, LoseArp(c) PROVE XInv'
  <2>1. ArpWire /\ UNCHANGED <<arp_table, announced>>
    BY <1>6 DEF LoseArp
  <2> QED
    BY <2>1, ArpMissed, Zenon
<1>7. CASE UNCHANGED xvars
  BY <1>7, XStutterInv, Zenon
<1> QED
  BY <1>1, <1>2, <1>3, <1>4, <1>5, <1>6, <1>7, Zenon DEF XNext

\* The invariant of the exchange: for every client, what is under way in both
\* directions fits the state of its socket and of the client itself.
THEOREM ExchangeInductive == SoundDeployment => (XSpec => []XInv)
<1> SUFFICES ASSUME SoundDeployment PROVE XSpec => []XInv
  OBVIOUS
<1>1. XInv /\ [XNext]_xvars => XInv'
  BY XNextInv, Zenon
<1> QED
  BY <1>1, XInitInv, PTL DEF XSpec

\* A socket of the server buffers exactly the start of what its client sends,
\* for any requests, segmentation, interleaving of clients that hold sockets at
\* once, repetitions and losses of SYNs and SYN-ACKs: as long as the client's bare
\* acknowledgement ends the handshake and no acknowledgement is lost, tcp_receive
\* neither loses nor repeats nor mixes bytes.
THEOREM RequestsIntact == SoundDeployment => (XSpec => []RequestIntact)
<1>1. XInv => RequestIntact
  <2> SUFFICES ASSUME XInv, NEW i \in Slots, NEW c \in Clients,
                      sockets[i].state \in {"ESTABLISHED", "CLOSE_WAIT"}, sockets[i].remote_port = c
               PROVE  sockets[i].rx = SubSeq(Wanted[c], 1, Len(sockets[i].rx))
    BY DEF RequestIntact
  <2>1. IsLive(sockets[i], c)
    BY DEF IsLive
  <2>2. SocketInv(c, sockets[i], client[c], toServer[c], toClient[c])
    BY <2>1, StartFacts, Zenon DEF ClientFacts, ClientInv
  <2>3. sockets[i].state = "ESTABLISHED"
    BY <2>2 DEF SocketInv
  <2> QED
    BY <2>2, <2>3, Zenon DEF SocketInv, Transfer
<1> QED
  BY <1>1, ExchangeInductive, PTL

\* The response and the FIN that reach a connected client carry the number it
\* expects: s->seq, set from the handshake's ACK and advanced by the length of
\* the response, is in step with the client whatever is lost and repeated.
THEOREM NumbersAgree == SoundDeployment => (XSpec => []NumbersInStep)
<1>1. XInv => NumbersInStep
  <2> SUFFICES ASSUME XInv, NEW c \in Clients, toClient[c] # <<>>, client[c].st = "connected",
                      ~Quiescent(Head(toClient[c]))
               PROVE  Head(toClient[c]).seq = client[c].rcv
    BY Zenon DEF NumbersInStep, Seg, InSequence, Quiescent
  <2> DEFINE k == client[c]
             d == toClient[c]
             n == Len(d)
  <2>1. ClientInv(c, sockets, k, toServer[c], d) /\ d \in Seq(OutSegment)
    BY StartFacts, Zenon DEF ClientFacts
  <2>2. k.st = "connected" /\ d # <<>> /\ ~Quiescent(Head(d))
    OBVIOUS
  <2> HIDE DEF k, d
  <2>3. Head(d) = d[1] /\ 1 \in 1 .. n /\ n \in Nat /\ n # 0
    BY <2>1, <2>2
  <2>4. ~NoSocketInv(k, toServer[c], d)
    BY <2>2 DEF NoSocketInv, Young
  <2>5. PICK i \in Slots : SocketInv(c, sockets[i], k, toServer[c], d)
    BY <2>1, <2>4, Zenon DEF ClientInv
  <2>6. ~HalfOpen(sockets[i], k, toServer[c], d)
    BY <2>2, <2>3, Zenon DEF HalfOpen
  <2>7. ~Transfer(c, sockets[i], k, toServer[c], d)
    BY <2>2, <2>3, Zenon DEF Transfer, Harmless
  <2>8. AnswerUnderWay(k, d)
    BY <2>2, <2>5, <2>6, <2>7, Zenon DEF SocketInv
  <2>9. CASE d[n].seq = k.rcv /\ \A j \in 1 .. n - 1 : Harmless(d[j])
    <3> HIDE DEF n
    <3>1. ~(1 \in 1 .. n - 1)
      BY <2>2, <2>3, <2>9, Zenon DEF Harmless
    <3>2. n = 1
      BY <2>3, <3>1
    <3> QED
      BY <2>3, <2>9, <3>2, Zenon DEF k, d
  <2>10. CASE n > 1 /\ d[n - 1].seq = k.rcv /\ \A j \in 1 .. n - 2 : Harmless(d[j])
    <3> HIDE DEF n
    <3>1. ~(1 \in 1 .. n - 2)
      BY <2>2, <2>3, <2>10, Zenon DEF Harmless
    <3>2. n - 1 = 1
      BY <2>3, <2>10, <3>1
    <3> QED
      BY <2>3, <2>10, <3>2, Zenon DEF k, d
  <2> QED
    BY <2>8, <2>9, <2>10, Zenon DEF AnswerUnderWay
<1> QED
  BY <1>1, ExchangeInductive, PTL

\* A client that got a response got the one to its own request, not to that of
\* another client or of an earlier user of its slot, nor to a part of it.
THEOREM OwnResponses == SoundDeployment /\ RequestsEndBlank => (XSpec => []OwnResponse)
<1> SUFFICES ASSUME SoundDeployment, RequestsEndBlank PROVE XSpec => []OwnResponse
  OBVIOUS
<1>1. XInv => OwnResponse
  <2> SUFFICES ASSUME XInv, NEW c \in Clients, client[c].status # 0
               PROVE  \E resp \in Responses : resp.status = client[c].status /\ Answers(Wanted[c], resp)
    BY DEF OwnResponse
  <2> QED
    BY StartFacts, Zenon DEF ClientFacts, ResponseInv
<1> QED
  BY <1>1, ExchangeInductive, PTL

====
