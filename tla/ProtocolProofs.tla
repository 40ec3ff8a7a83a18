--------------------------- MODULE ProtocolProofs ---------------------------
(***************************************************************************)
(* Proofs about Protocol for every quorum, every set of command types and  *)
(* length prefixes and every bound on the frames: the type invariant and   *)
(* SingleRead (each connection has exactly one async_read outstanding      *)
(* until its read loop ends, and none after).                              *)
(*                                                                         *)
(* Neither is inductive alone.  handle_command's throw decrements the      *)
(* finished read, which is in Nat only because SingleRead says it was 1;  *)
(* and parse_command takes Head of the peer's stream, which is a frame    *)
(* only because a body read is armed after parse_size read a length from *)
(* that stream and nothing but parse_command consumes it (BodyPending).   *)
(***************************************************************************)
EXTENDS Protocol, TLAPS

USE ProtocolAssumption

(* A body read is outstanding only while the frame whose length was read  *)
(* is still on the connection.                                             *)
BodyPending == \A p \in Peers : stage[p] = "body" => inbox[p] # <<>>

PInv == TypeOK /\ SingleRead /\ BodyPending

-----------------------------------------------------------------------------
LEMMA PInvInit == Init => PInv
<1> SUFFICES ASSUME Init PROVE PInv
  OBVIOUS
<1>1. TypeOK
  <2>1. /\ sentCount \in [Peers -> 0..MaxFrames]
        /\ reads \in [Peers -> Nat]
        /\ leader \in Peers \cup {Self, None}
    BY DEF Init, NewConnection, None
  <2>2. /\ up \in [Peers -> BOOLEAN] /\ hs \in [Peers -> BOOLEAN]
        /\ live \in [Peers -> {"alive", "dead", "unknown"}]
        /\ conn \in [Peers -> {"open", "closed"}]
        /\ inbox \in [Peers -> Seq(Frame)]
        /\ stage \in [Peers -> {"size", "body", "stopped"}]
        /\ hdr \in [Peers -> Sizes \cup {"fits"}]
    BY DEF Init, NewConnection
  <2> QED
    BY <2>1, <2>2, Zenon DEF Init, NewConnection, TypeOK
<1>2. SingleRead /\ BodyPending
  BY DEF Init, NewConnection, SingleRead, BodyPending
<1> QED
  BY <1>1, <1>2 DEF PInv

(* The heartbeat, the handshake and election outcomes and the peers'     *)
(* crashes and dropped connections leave the read loops alone.           *)
LEMMA PInvView ==
    ASSUME PInv,
           \/ Heartbeat \/ Elect
           \/ \E p \in Peers : HandshakeDone(p) \/ PeerCrash(p) \/ ConnDrop(p)
    PROVE  PInv'
<1>1. UNCHANGED <<io, inbox, sentCount, reads, stage, hdr>>
  BY DEF Heartbeat, Elect, HandshakeDone, PeerCrash, ConnDrop
<1>2. (SingleRead /\ BodyPending)'
  BY <1>1 DEF PInv, SingleRead, BodyPending
<1>3. CASE Heartbeat
  <2>1. /\ hs' \in [Peers -> BOOLEAN]
        /\ live' \in [Peers -> {"alive", "dead", "unknown"}]
        /\ leader' \in Peers \cup {Self, None}
        /\ electing' \in BOOLEAN
        /\ UNCHANGED <<up, conn>>
    BY <1>3 DEF Heartbeat, PInv, TypeOK
  <2> QED
    BY <1>1, <1>2, <2>1, Zenon DEF PInv, TypeOK
<1>4. CASE Elect
  <2>1. /\ leader' \in Peers \cup {Self, None}
        /\ electing' \in BOOLEAN
        /\ UNCHANGED <<up, live, hs, conn>>
    BY <1>4 DEF Elect, PInv, TypeOK
  <2> QED
    BY <1>1, <1>2, <2>1, Zenon DEF PInv, TypeOK
<1>5. ASSUME NEW p \in Peers, HandshakeDone(p) PROVE PInv'
  <2>1. /\ hs' \in [Peers -> BOOLEAN]
        /\ live' \in [Peers -> {"alive", "dead", "unknown"}]
        /\ UNCHANGED <<up, leader, electing, conn>>
    BY <1>5 DEF HandshakeDone, PInv, TypeOK
  <2> QED
    BY <1>1, <1>2, <2>1, Zenon DEF PInv, TypeOK
<1>6. ASSUME NEW p \in Peers, PeerCrash(p) \/ ConnDrop(p) PROVE PInv'
  <2>1. /\ up' \in [Peers -> BOOLEAN]
        /\ conn' \in [Peers -> {"open", "closed"}]
        /\ UNCHANGED <<live, leader, hs, electing>>
    BY <1>6 DEF PeerCrash, ConnDrop, PInv, TypeOK
  <2> QED
    BY <1>1, <1>2, <2>1, Zenon DEF PInv, TypeOK
<1> QED
  BY <1>3, <1>4, <1>5, <1>6

(* A peer's send appends a frame to its own stream.                        *)
LEMMA PInvPeerSend ==
    ASSUME PInv, NEW p \in Peers, NEW f \in Frame, PeerSend(p, f)
    PROVE  PInv'
<1>1. /\ inbox' \in [Peers -> Seq(Frame)]
      /\ sentCount' \in [Peers -> 0..MaxFrames]
      /\ \A q \in Peers : inbox[q] # <<>> => inbox'[q] # <<>>
  BY DEF PeerSend, PInv, TypeOK
<1>2. UNCHANGED <<up, live, leader, hs, electing, io, conn, reads, stage, hdr>>
  BY DEF PeerSend
<1>3. (SingleRead /\ BodyPending)'
  BY <1>1, <1>2 DEF PInv, SingleRead, BodyPending
<1> QED
  BY <1>1, <1>2, <1>3, Zenon DEF PInv, TypeOK

(* read_command_parse_size: the length of the frame at the head of the  *)
(* stream is read and the body read replaces the size read.              *)
LEMMA PInvReadSize ==
    ASSUME PInv, NEW p \in Peers, ReadSize(p)
    PROVE  PInv'
<1>1. /\ inbox[p] \in Seq(Frame) /\ inbox[p] # <<>>
      /\ Head(inbox[p]) \in Frame
  BY DEF ReadSize, PInv, TypeOK
<1>2. hdr' \in [Peers -> Sizes \cup {"fits"}]
  BY <1>1 DEF ReadSize, PInv, TypeOK, Frame
<1>3. stage' \in [Peers -> {"size", "body", "stopped"}]
  BY DEF ReadSize, PInv, TypeOK
<1>4. UNCHANGED <<up, live, leader, hs, electing, io, conn, inbox, sentCount,
                  reads>>
  BY DEF ReadSize
<1>5. SingleRead'
  BY <1>4 DEF ReadSize, PInv, TypeOK, SingleRead
<1>6. BodyPending'
  BY <1>1, <1>4 DEF ReadSize, PInv, TypeOK, BodyPending
<1> QED
  BY <1>2, <1>3, <1>4, <1>5, <1>6, Zenon DEF PInv, TypeOK

(* read_command_parse_command and handle_command: the frame is consumed; *)
(* a handled type re-arms the size read, any other stops the io_service  *)
(* and ends this connection's loop.                                       *)
LEMMA PInvReadBody ==
    ASSUME PInv, NEW p \in Peers, ReadBody(p)
    PROVE  PInv'
<1>1. /\ stage[p] = "body" /\ reads[p] = 1
      /\ inbox[p] \in Seq(Frame) /\ inbox[p] # <<>>
  BY DEF ReadBody, PInv, TypeOK, SingleRead, BodyPending
<1>2. /\ inbox' \in [Peers -> Seq(Frame)]
      /\ \A q \in Peers \ {p} : inbox'[q] = inbox[q]
  BY <1>1 DEF ReadBody, PInv, TypeOK
<1>3. UNCHANGED <<up, live, hs, electing, conn, sentCount, hdr>>
  BY DEF ReadBody
<1>4. CASE Head(inbox[p]).type \in Dispatched
  <2>1. /\ leader' \in Peers \cup {Self, None}
        /\ stage' = [stage EXCEPT ![p] = "size"]
        /\ UNCHANGED <<io, reads>>
    BY <1>4 DEF ReadBody, Dispatch, PInv, TypeOK
  <2>2. /\ stage' \in [Peers -> {"size", "body", "stopped"}]
        /\ SingleRead' /\ BodyPending'
    BY <1>1, <1>2, <2>1 DEF PInv, TypeOK, SingleRead, BodyPending
  <2> QED
    BY <1>2, <1>3, <2>1, <2>2, Zenon DEF PInv, TypeOK
<1>5. CASE Head(inbox[p]).type \notin Dispatched
  <2>1. /\ io' = "stopped"
        /\ reads' = [reads EXCEPT ![p] = @ - 1]
        /\ stage' = [stage EXCEPT ![p] = "stopped"]
        /\ UNCHANGED leader
    BY <1>5 DEF ReadBody, Dispatch
  <2>2. /\ reads' \in [Peers -> Nat]
        /\ stage' \in [Peers -> {"size", "body", "stopped"}]
        /\ io' \in {"running", "stopped"}
        /\ SingleRead' /\ BodyPending'
    BY <1>1, <1>2, <2>1 DEF PInv, TypeOK, SingleRead, BodyPending
  <2> QED
    BY <1>2, <1>3, <2>1, <2>2, Zenon DEF PInv, TypeOK
<1> QED
  BY <1>4, <1>5

(* Either error callback: the read that failed is the last of the loop.  *)
LEMMA PInvReadError ==
    ASSUME PInv, NEW p \in Peers, ReadError(p)
    PROVE  PInv'
<1>1. /\ reads[p] = 1 /\ stage[p] \in {"size", "body"}
      /\ EndReadLoop(p)
  BY DEF ReadError, ParseSizeError, ParseCommandError, PInv, TypeOK,
         SingleRead
<1>2. /\ reads' = [reads EXCEPT ![p] = 0]
      /\ stage' = [stage EXCEPT ![p] = "stopped"]
  BY <1>1 DEF EndReadLoop, PInv, TypeOK
<1>3. /\ reads' \in [Peers -> Nat]
      /\ stage' \in [Peers -> {"size", "body", "stopped"}]
  BY <1>2 DEF PInv, TypeOK
<1>4. SingleRead' /\ BodyPending'
  BY <1>1, <1>2 DEF EndReadLoop, PInv, TypeOK, SingleRead, BodyPending
<1>5. UNCHANGED <<up, live, leader, hs, electing, io, conn, inbox, sentCount,
                  hdr>>
  BY <1>1 DEF EndReadLoop
<1> QED
  BY <1>3, <1>4, <1>5, Zenon DEF PInv, TypeOK

LEMMA PInvStep == PInv /\ [Next]_vars => PInv'
<1> SUFFICES ASSUME PInv, [Next]_vars PROVE PInv'
  OBVIOUS
<1>1. CASE Heartbeat \/ Elect
        \/ \E p \in Peers : HandshakeDone(p) \/ PeerCrash(p) \/ ConnDrop(p)
  BY <1>1, PInvView
<1>2. ASSUME NEW p \in Peers, NEW f \in Frame, PeerSend(p, f) PROVE PInv'
  BY <1>2, PInvPeerSend
<1>3. ASSUME NEW p \in Peers, ReadSize(p) PROVE PInv'
  BY <1>3, PInvReadSize
<1>4. ASSUME NEW p \in Peers, ReadBody(p) PROVE PInv'
  BY <1>4, PInvReadBody
<1>5. ASSUME NEW p \in Peers, ReadError(p) PROVE PInv'
  BY <1>5, PInvReadError
<1>6. CASE UNCHANGED vars
  BY <1>6 DEF vars, PInv, TypeOK, SingleRead, BodyPending
<1> QED
  BY <1>1, <1>2, <1>3, <1>4, <1>5, <1>6 DEF Next

-----------------------------------------------------------------------------
(* The node's model is well typed for every quorum and bound: in         *)
(* particular parse_command only ever takes a frame that is on the       *)
(* connection, and no read count goes below zero.                        *)
THEOREM ProtocolTypeCorrect == Spec => []TypeOK
<1>1. PInv => TypeOK
  BY DEF PInv
<1> QED
  BY <1>1, PInvInit, PInvStep, PTL DEF Spec

(* However handshakes, elections, peers' frames, crashes, dropped        *)
(* connections and unknown command types interleave, handle_command re-  *)
(* arms exactly the read that finished and the error paths end the loop *)
(* with its last read: each connection has one async_read until its loop *)
(* ends and none after.                                                   *)
THEOREM SingleReadHolds == Spec => []SingleRead
<1>1. PInv => SingleRead
  BY DEF PInv
<1> QED
  BY <1>1, PInvInit, PInvStep, PTL DEF Spec

=============================================================================
