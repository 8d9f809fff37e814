---- MODULE Connections ----
(***************************************************************************)
(* What the TCP server promises about its connections, without segments,   *)
(* sequence numbers or buffers: a slot serves one peer at a time, none is  *)
(* opened for a peer that has one, and a connection is answered at most    *)
(* once, after which it can only be released.  A connection keeps its peer *)
(* unless that is anonymous: then it may pass to one of the peer's heirs.  *)
(***************************************************************************)
CONSTANTS
    Slots, Peers,
    Heirs   \* Heirs[p]: whose a connection of peer p may become; p alone, unless p is anonymous

VARIABLE conn   \* slot -> Free, or the peer and how far its connection has come

Free == [phase |-> "free"]
Phases == {"opening", "open", "halfclosed", "answered"}
Connection == {Free} \cup [phase : Phases, peer : Peers]

Busy(s) == conn[s] # Free

Init == conn = [s \in Slots |-> Free]

\* A peer without a connection gets a free slot; a handshake whose first
\* segment already carries an acknowledgement opens it at once.
Connect(s, p) ==
    /\ ~Busy(s)
    /\ \A t \in Slots : Busy(t) => conn[t].peer # p
    /\ \E ph \in {"opening", "open"} : conn' = [conn EXCEPT ![s] = [phase |-> ph, peer |-> p]]

Advance(s, from, to) ==
    /\ conn[s].phase = from
    /\ \E p \in Heirs[conn[s].peer] : conn' = [conn EXCEPT ![s] = [phase |-> to, peer |-> p]]

Establish(s) == Advance(s, "opening", "open")
PeerCloses(s) == Advance(s, "open", "halfclosed")
Answer(s) == Advance(s, "open", "answered") \/ Advance(s, "halfclosed", "answered")

\* An anonymous connection passes to a peer without a change of phase.
Inherit(s) == \E phase \in Phases : Advance(s, phase, phase)

\* A slot is released once both sides are done: never while it is being
\* opened, and never while the peer still waits on an open connection.
Release(s) ==
    /\ conn[s].phase \in {"halfclosed", "answered"}
    /\ conn' = [conn EXCEPT ![s] = Free]

Next == \E s \in Slots : \/ \E p \in Peers : Connect(s, p)
                         \/ Establish(s)
                         \/ PeerCloses(s)
                         \/ Answer(s)
                         \/ Inherit(s)
                         \/ Release(s)

Spec == Init /\ [][Next]_conn
====
