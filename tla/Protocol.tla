------------------------------ MODULE Protocol ------------------------------
(***************************************************************************)
(* One node's detail::protocol::protocol (protocol.cpp): the heartbeat    *)
(* timer loop that drives handshakes and elections, and the read loop of  *)
(* every connection a peer opened to this node (new_connection,           *)
(* read_command, read_command_parse_size, read_command_parse_command,     *)
(* handle_command).                                                        *)
(*                                                                         *)
(* The quorum view, the handshake, elect_leader and announce_leadership   *)
(* handlers are not part of this repository's sources; their effect on    *)
(* the view is taken from the specification (4.2, 4.3).  What the node    *)
(* writes back to a peer (handshake_response, claim acks) is left out:    *)
(* no property here tells those bytes apart.  The peers are the           *)
(* environment: they send frames, crash, or have their connection dropped.*)
(***************************************************************************)
EXTENDS Naturals, Sequences, FiniteSets

CONSTANTS
    Self,       \* this node's position in the endpoint order
    Peers,      \* the other nodes of the quorum, by endpoint order
    Types,      \* command types peers send on their connections
    Sizes,      \* the length prefixes a frame can carry
    MaxFrames   \* bound on the frames each peer sends

ASSUME ProtocolAssumption ==
    /\ Self \in Nat \ {0} /\ Peers \subseteq Nat \ {0} /\ Self \notin Peers
    /\ MaxFrames \in Nat
    /\ Sizes \subseteq {"fits", "oversized"}

\* The command types handle_command has a case for.
Dispatched == {"handshake_start", "leader_claim", "leader_announce"}

None == 0   \* no leader; endpoints are numbered from 1
Frame == [type : Types, size : Sizes]

VARIABLES
    up,        \* environment: is the peer's process running?
    live,      \* quorum view: "alive", "dead" or "unknown" per peer
    leader,    \* quorum view: current_leader (Self, a peer, or None)
    hs,        \* handshake with the peer started and not yet concluded
    electing,  \* elect_leader_ started and not yet concluded
    io,        \* the io_service: "running", or "stopped" by an exception
    conn,      \* the connection the peer opened to us: "open" or "closed"
    inbox,     \* frames the peer has sent on it and we have not read
    sentCount, \* frames the peer has sent so far
    reads,     \* async_read operations outstanding on the connection
    stage,     \* what the outstanding read is for: "size", "body", "stopped"
    hdr        \* the length prefix parse_size has read last

vars == <<up, live, leader, hs, electing, io, conn, inbox, sentCount, reads,
          stage, hdr>>

TypeOK ==
    /\ up \in [Peers -> BOOLEAN]
    /\ live \in [Peers -> {"alive", "dead", "unknown"}]
    /\ leader \in Peers \cup {Self, None}
    /\ hs \in [Peers -> BOOLEAN]
    /\ electing \in BOOLEAN
    /\ io \in {"running", "stopped"}
    /\ conn \in [Peers -> {"open", "closed"}]
    /\ inbox \in [Peers -> Seq(Frame)]
    /\ sentCount \in [Peers -> 0..MaxFrames]
    /\ reads \in [Peers -> Nat]
    /\ stage \in [Peers -> {"size", "body", "stopped"}]
    /\ hdr \in [Peers -> Sizes \cup {"fits"}]

(* protocol::new_connection: read_command armed on the connection, its   *)
(* first async_read waiting for a length prefix.                          *)
NewConnection ==
    /\ reads = [p \in Peers |-> 1]
    /\ stage = [p \in Peers |-> "size"]

(* The constructor, bootstrap's first heartbeat not yet run, and          *)
(* new_connection for every peer.                                         *)
Init ==
    /\ up = [p \in Peers |-> TRUE]
    /\ live = [p \in Peers |-> "unknown"]
    /\ leader = None
    /\ hs = [p \in Peers |-> FALSE]
    /\ electing = FALSE
    /\ io = "running"
    /\ conn = [p \in Peers |-> "open"]
    /\ inbox = [p \in Peers |-> <<>>]
    /\ sentCount = [p \in Peers |-> 0]
    /\ NewConnection
    /\ hdr = [p \in Peers |-> "fits"]

-----------------------------------------------------------------------------
(* quorum::needs_new_leader (spec 4.2): no leader, or it is not alive.    *)
NeedsNewLeader == leader = None \/ (leader \in Peers /\ live[leader] # "alive")

AlivePeers == {p \in Peers : live[p] = "alive"}

(* Fault of heartbeat: an election started without reset_state.       *)
HeartbeatNoReset ==
    /\ io = "running"
    /\ hs' = [p \in Peers |-> TRUE]
    /\ electing' = (electing \/ NeedsNewLeader)
    /\ UNCHANGED <<live, leader>>
    /\ UNCHANGED <<up, io, conn, inbox, sentCount, reads, stage, hdr>>

(* protocol::heartbeat: start the handshake sweep; if a new leader is     *)
(* needed, reset_state and start an election, all on the view as it is   *)
(* now, before any handshake of this sweep has answered; if we are the    *)
(* leader, start announce_leadership (its writes go to the peers); re-arm *)
(* the heartbeat timer.                                                    *)
Heartbeat ==
    /\ io = "running"
    /\ hs' = [p \in Peers |-> TRUE]
    /\ IF NeedsNewLeader
          THEN /\ live' = [p \in Peers |-> "unknown"]
               /\ leader' = None
               /\ electing' = TRUE
          ELSE UNCHANGED <<live, leader, electing>>
    /\ UNCHANGED <<up, io, conn, inbox, sentCount, reads, stage, hdr>>

(* The handshake with p concludes (spec 4.3): a response within the       *)
(* deadline marks p alive, anything else marks it dead.                    *)
HandshakeDone(p) ==
    /\ io = "running"
    /\ hs[p]
    /\ hs' = [hs EXCEPT ![p] = FALSE]
    /\ live' = [live EXCEPT ![p] = IF up[p] THEN "alive" ELSE "dead"]
    /\ UNCHANGED <<up, leader, electing, io, conn, inbox, sentCount, reads,
                   stage, hdr>>

(* The election concludes (spec 4.3): the candidate is the alive node     *)
(* highest in endpoint order; if that is this node and a strict majority  *)
(* is alive, its claim may be acked and it becomes the leader.  Another   *)
(* candidate's victory reaches us as a leader_announce frame.              *)
Candidate == LET C == AlivePeers \cup {Self}
             IN CHOOSE c \in C : \A d \in C : d <= c
Elect ==
    /\ io = "running"
    /\ electing
    /\ electing' = FALSE
    /\ IF Candidate = Self /\ 2 * (Cardinality(AlivePeers) + 1) > Cardinality(Peers) + 1
          THEN leader' \in {leader, Self}
          ELSE UNCHANGED leader
    /\ UNCHANGED <<up, live, hs, io, conn, inbox, sentCount, reads, stage, hdr>>

-----------------------------------------------------------------------------
(* A running peer sends a frame on its connection.                        *)
PeerSend(p, f) ==
    /\ up[p] /\ conn[p] = "open"
    /\ sentCount[p] < MaxFrames
    /\ inbox' = [inbox EXCEPT ![p] = Append(@, f)]
    /\ sentCount' = [sentCount EXCEPT ![p] = @ + 1]
    /\ UNCHANGED <<up, live, leader, hs, electing, io, conn, reads, stage, hdr>>

(* A peer crashes: its process stops and its sockets are reset.           *)
PeerCrash(p) ==
    /\ up[p]
    /\ up' = [up EXCEPT ![p] = FALSE]
    /\ conn' = [conn EXCEPT ![p] = "closed"]
    /\ UNCHANGED <<live, leader, hs, electing, io, inbox, sentCount, reads,
                   stage, hdr>>

(* The connection is closed under the read loop while the peer lives     *)
(* (the connection pool cleaning up, the warning in read_command).        *)
ConnDrop(p) ==
    /\ conn[p] = "open"
    /\ conn' = [conn EXCEPT ![p] = "closed"]
    /\ UNCHANGED <<up, live, leader, hs, electing, io, inbox, sentCount, reads,
                   stage, hdr>>

(* protocol::read_command_parse_size without error: the 4-byte length is *)
(* decoded, new char[bytes] is allocated whatever the length, and the     *)
(* body read is armed.                                                     *)
ReadSize(p) ==
    /\ io = "running"
    /\ reads[p] > 0 /\ stage[p] = "size"
    /\ conn[p] = "open" /\ inbox[p] # <<>>
    /\ hdr' = [hdr EXCEPT ![p] = Head(inbox[p]).size]
    /\ stage' = [stage EXCEPT ![p] = "body"]
    /\ UNCHANGED <<up, live, leader, hs, electing, io, conn, inbox, sentCount,
                   reads>>

(* Faults of the read loop: the dispatched command's handler arming a    *)
(* read of its own besides handle_command's; handle_command not re-arming *)
(* read_command; the throw leaving the finished read counted.             *)
DispatchRearmsTwice(p, f) ==
    /\ f.type \in Dispatched
    /\ leader' = IF f.type = "leader_announce" THEN p ELSE leader
    /\ reads' = [reads EXCEPT ![p] = @ + 1]
    /\ stage' = [stage EXCEPT ![p] = "size"]
    /\ UNCHANGED io

DispatchNoRearm(p, f) ==
    /\ leader' = IF f.type = "leader_announce" THEN p ELSE leader
    /\ io' = IF f.type \in Dispatched THEN io ELSE "stopped"
    /\ reads' = [reads EXCEPT ![p] = @ - 1]
    /\ stage' = [stage EXCEPT ![p] = "stopped"]

DispatchThrowKeepsRead(p, f) ==
    \/ /\ f.type \in Dispatched
       /\ leader' = IF f.type = "leader_announce" THEN p ELSE leader
       /\ stage' = [stage EXCEPT ![p] = "size"]
       /\ UNCHANGED <<io, reads>>
    \/ /\ f.type \notin Dispatched
       /\ io' = "stopped"
       /\ stage' = [stage EXCEPT ![p] = "stopped"]
       /\ UNCHANGED <<leader, reads>>

(* protocol::handle_command: a handled type goes to its handler, whose    *)
(* effect on the view is taken from spec 4.3 (a leader_announce makes its *)
(* sender the leader; handshake_start and leader_claim only answer the    *)
(* peer), and read_command is armed again.  Any other type reaches        *)
(* PAXOS_THROW(protocol_error): the exception leaves the io_service       *)
(* handler, the event loop stops, and the read that finished is never    *)
(* replaced.                                                               *)
Dispatch(p, f) ==
    \/ /\ f.type \in Dispatched
       /\ leader' = IF f.type = "leader_announce" THEN p ELSE leader
       /\ stage' = [stage EXCEPT ![p] = "size"]
       /\ UNCHANGED <<io, reads>>
    \/ /\ f.type \notin Dispatched
       /\ io' = "stopped"
       /\ reads' = [reads EXCEPT ![p] = @ - 1]
       /\ stage' = [stage EXCEPT ![p] = "stopped"]
       /\ UNCHANGED leader

(* protocol::read_command_parse_command without error: cancel_timeout,    *)
(* decode the command and call back handle_command with it.               *)
ReadBody(p) ==
    /\ io = "running"
    /\ reads[p] > 0 /\ stage[p] = "body"
    /\ conn[p] = "open" /\ inbox[p] # <<>>
    /\ inbox' = [inbox EXCEPT ![p] = Tail(@)]
    /\ Dispatch(p, Head(inbox[p]))
    /\ UNCHANGED <<up, live, hs, electing, conn, sentCount, hdr>>

(* Faults of the error callbacks: a body read that fails decrements a    *)
(* loop that has already ended; a length read that fails re-arms the same *)
(* read on the closed socket instead of returning, for ever.              *)
ParseCommandErrorTwice(p) ==
    /\ io = "running"
    /\ conn[p] = "closed"
    /\ reads' = [reads EXCEPT ![p] = @ - 1]
    /\ stage' = [stage EXCEPT ![p] = "stopped"]
    /\ UNCHANGED <<up, live, leader, hs, electing, io, conn, inbox, sentCount,
                   hdr>>

ParseSizeErrorRetries(p) ==
    /\ io = "running"
    /\ reads[p] > 0 /\ stage[p] = "size"
    /\ conn[p] = "closed"
    /\ UNCHANGED vars

(* The read callback ends the loop: a warning is logged, the callback     *)
(* returns, no read is armed again and the view is untouched.             *)
EndReadLoop(p) ==
    /\ reads' = [reads EXCEPT ![p] = @ - 1]
    /\ stage' = [stage EXCEPT ![p] = "stopped"]
    /\ UNCHANGED <<up, live, leader, hs, electing, io, conn, inbox, sentCount,
                   hdr>>

(* protocol::read_command_parse_size with an error: the length read on a  *)
(* closed connection fails.                                               *)
ParseSizeError(p) ==
    /\ io = "running"
    /\ reads[p] > 0 /\ stage[p] = "size"
    /\ conn[p] = "closed"
    /\ EndReadLoop(p)

(* protocol::read_command_parse_command with an error: cancel_timeout     *)
(* (the connection's timer is not modelled), then the same early return.  *)
ParseCommandError(p) ==
    /\ io = "running"
    /\ reads[p] > 0 /\ stage[p] = "body"
    /\ conn[p] = "closed"
    /\ EndReadLoop(p)

(* Either read callback's error branch.                                   *)
ReadError(p) == ParseSizeError(p) \/ ParseCommandError(p)

Next ==
    \/ Heartbeat
    \/ \E p \in Peers : HandshakeDone(p)
    \/ Elect
    \/ \E p \in Peers, f \in Frame : PeerSend(p, f)
    \/ \E p \in Peers : PeerCrash(p) \/ ConnDrop(p)
    \/ \E p \in Peers : ReadSize(p) \/ ReadBody(p) \/ ReadError(p)

(* The heartbeat timer is re-armed on every tick; a handshake and an      *)
(* election end by their deadline; the io_service runs every completion   *)
(* handler.  Peers' sends, crashes and drops are not forced.              *)
Fairness ==
    /\ WF_vars(Heartbeat)
    /\ WF_vars(Elect)
    /\ \A p \in Peers : /\ WF_vars(HandshakeDone(p))
                        /\ WF_vars(ReadSize(p))
                        /\ WF_vars(ReadBody(p))
                        /\ WF_vars(ParseSizeError(p))
                        /\ WF_vars(ParseCommandError(p))

Spec == Init /\ [][Next]_vars /\ Fairness

-----------------------------------------------------------------------------
(***************************************************************************)
(* Properties.                                                             *)
(***************************************************************************)

(* Each connection has one async_read outstanding until its loop ends,   *)
(* and none after: handle_command re-arms exactly the read that finished, *)
(* so two reads never split one peer's byte stream between them.          *)
SingleRead ==
    \A p \in Peers : reads[p] = IF stage[p] = "stopped" THEN 0 ELSE 1

(* Every frame a peer sends is eventually read and dispatched, unless    *)
(* that peer's own connection closes: no peer's traffic can stop the      *)
(* node from serving the others (spec 7: protocol errors close the        *)
(* offending connection and never crash the node).                        *)
FramesServed ==
    \A p \in Peers : (inbox[p] # <<>>) ~> (inbox[p] = <<>> \/ conn[p] = "closed")

(* A read loop whose connection is closed under it (by the peer or by the *)
(* connection pool) comes to rest instead of waiting for ever.            *)
ReadLoopEndsOnClose ==
    \A p \in Peers : (conn[p] = "closed") ~> (stage[p] = "stopped")

(* A leader that has crashed is eventually no longer this node's leader: *)
(* the heartbeat's handshake marks it dead and a later heartbeat's        *)
(* needs_new_leader/reset_state clears it.                                 *)
LostLeaderReplaced ==
    \A p \in Peers : (leader = p /\ ~up[p]) ~> (leader # p)

(* Spec 4.4/7: a frame whose length exceeds maximum_frame_size closes the *)
(* connection; its body is never read.                                     *)
OversizedFrameRejected ==
    \A p \in Peers : stage[p] = "body" => hdr[p] # "oversized"

(* Spec 3: a connection error observed on a peer marks that peer dead.    *)
ReadErrorMarksPeerDead ==
    [][\A p \in Peers :
          stage[p] # "stopped" /\ stage'[p] = "stopped" => live'[p] = "dead"]_vars

=============================================================================
