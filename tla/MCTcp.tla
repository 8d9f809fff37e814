---- MODULE MCTcp ----
(* Tcp with two hosts, three remote and two local ports, and segments of every shape that the handlers tell apart. *)
EXTENDS Tcp, TLC

CONSTANTS h1, h2, crlf, txt

MCFlags == {{"SYN"}, {"ACK"}, {"SYN", "ACK"}, {"FIN", "ACK"}, {"RST"}}
MCPayloads == {<<>>, <<txt>>, <<crlf>>, <<crlf, crlf>>}

\* Payload only on segments that carry ACK and no SYN; port 0 and the stray
\* destination port only with what can open a connection.  Both hosts use ports 7
\* and 8; segments from 0.0.0.0 come from port 8, whose requests come in one
\* piece; those of port 7 come line by line.
MCSegments ==
    {m \in [ip : IPs \cup {AnyIP}, sport : Ports, dport : LocalPorts, flags : MCFlags, seq : {SeqMod - 1},
            ack : {1}, data : MCPayloads] :
        /\ m.data # <<>> => m.flags = {"ACK"}
        /\ m.ip = AnyIP => m.sport = 8
        /\ IF m.sport = 8 THEN m.flags \in {{"SYN"}, {"ACK"}, {"FIN", "ACK"}} /\ m.data \in {<<>>, <<crlf, crlf>>}
           ELSE Len(m.data) <= 1
        /\ m.sport = 0 \/ m.dport # HttpPort => m.flags \in {{"SYN"}, {"ACK"}} /\ m.data = <<>>}

\* A response that fits one segment, one that does not, and a failed one.
MCResponses == {[status |-> 200, len |-> 1], [status |-> 200, len |-> MaxSegment + 1], NoResponse}
MCAnswers(request, response) == TRUE

\* What later steps depend on: not `out`, not the stale fields of a closed slot,
\* and the last activity of pending handshakes only.
MCView ==
    <<tcp_now, [i \in Slots |->
        CASE sockets[i].state = "CLOSED" -> ZeroSocket
          [] sockets[i].state = "SYN_RECEIVED" -> sockets[i]
          [] OTHER -> [sockets[i] EXCEPT !.last_activity = 0]]>>

MCSymmetry == Permutations(IPs)
====
