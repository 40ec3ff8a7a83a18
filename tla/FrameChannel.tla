---------------------------- MODULE FrameChannel ----------------------------
(***************************************************************************)
(* What one direction of a tcp_connection promises the protocol layer on  *)
(* the other side, with the write queue, the byte stream and the reader's *)
(* two-step parse abstracted away.  The sender hands frames 1, 2, ... to   *)
(* write_command.  handle_command is given intact frames in that order,    *)
(* each at most once, never one that was not written, and corrupt         *)
(* commands (0).  The code does not promise intact delivery               *)
(* (FramesDeliveredIntact of TcpConnection is violated), and a corrupt    *)
(* length prefix can make the reader skip frames: an intact frame follows *)
(* the previous intact one directly unless a corrupt command came just    *)
(* before it.                                                              *)
(***************************************************************************)
EXTENDS Naturals, Sequences

VARIABLES
    sent,        \* frames written so far
    delivered    \* what handle_command was given: frame numbers or 0

cvars == <<sent, delivered>>

Init ==
    /\ sent = 0
    /\ delivered = <<>>

(* The sender writes the next frame.                                       *)
Send ==
    /\ sent' = sent + 1
    /\ UNCHANGED delivered

(* Frame x may be delivered next: it was written, it comes after every    *)
(* frame delivered so far, and it is the first frame or the one after the *)
(* last delivery, unless that delivery was corrupt.                        *)
MayDeliver(x) ==
    /\ x \in 1..sent
    /\ \A i \in 1..Len(delivered) : delivered[i] < x
    /\ IF delivered = <<>> THEN x = 1
                           ELSE delivered[Len(delivered)] \in {0, x - 1}

(* handle_command is given an intact frame, or a corrupt command once     *)
(* something has been written.                                             *)
Deliver ==
    /\ \/ \E x \in 1..sent : MayDeliver(x) /\ delivered' = Append(delivered, x)
       \/ sent > 0 /\ delivered' = Append(delivered, 0)
    /\ UNCHANGED sent

Next == Send \/ Deliver

Spec == Init /\ [][Next]_cvars

=============================================================================
