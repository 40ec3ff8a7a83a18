--------------------------- MODULE TcpConnection ---------------------------
(***************************************************************************)
(* One direction of a tcp_connection: the sender's write queue            *)
(* (tcp_connection::write, start_write, handle_write) fed by              *)
(* protocol::write_command, the TCP byte stream, and the receiver's       *)
(* read loop (protocol::read_command, read_command_parse_size,            *)
(* read_command_parse_command).                                            *)
(*                                                                         *)
(* A frame is abstracted to two units: its 4-byte length prefix and its   *)
(* body; the i-th frame written is frame i.  A unit on the wire carries   *)
(* ok = FALSE when the bytes sent for it were read from freed memory:      *)
(* start_write hands async_write a view of write_buffer_, and a later      *)
(* write() appends to write_buffer_ while that async_write is still       *)
(* running; when the append reallocates the string the view dangles       *)
(* (undefined behaviour, modelled as a choice of outcomes).                *)
(*                                                                         *)
(* The reader reads the 4-byte length, then exactly that many bytes.  A   *)
(* length taken from corrupt bytes, or read where no prefix starts, asks  *)
(* for any number of units: the reader then leaves the frame boundaries   *)
(* (aligned = FALSE) until a body read happens to end on one.  Within a   *)
(* unit the byte position is not modelled: an unaligned read takes whole  *)
(* units, which keeps every way of losing and regaining the boundaries.   *)
(***************************************************************************)
EXTENDS Naturals, Sequences

CONSTANT MaxWrites   \* bound on the number of write_command calls

ASSUME MaxWritesAssumption == MaxWrites \in Nat \ {0}

Parts == {"size", "body"}
Unit == [seq : 1..MaxWrites, part : Parts, ok : BOOLEAN]

\* The body lengths, in units, a garbage length prefix can ask for: any up
\* to one more than the wire can ever hold (every larger one stalls alike).
GarbageLens == 0..(2 * MaxWrites + 1)

\* What read_command_parse_size parsed: the length of the body read it arms
\* and, for a real prefix, the frame it belongs to (0 for garbage).
Header == [len : GarbageLens, frame : 0..MaxWrites]

VARIABLES
    written,   \* number of frames handed to write_command so far
    wbuf,      \* tcp_connection::write_buffer_
    ops,       \* number of async_write operations outstanding
    inLen,     \* length of the buffer view the running async_write sends
    sent,      \* units of that view already transferred
    stale,     \* the view points at storage released by a reallocation
    sock,      \* "open" or "closed" (closed locally or reset by the peer)
    wire,      \* units transferred to the peer, in order
    rpos,      \* units of wire consumed by the reader
    rstate,    \* reader: "size" (reading a length), "body", or "stopped"
    aligned,   \* the reader's position is on a unit boundary of the stream
    hdr,       \* the length read by read_command_parse_size
    received   \* frames handed to handle_command; 0 for a corrupt frame

vars == <<written, wbuf, ops, inLen, sent, stale, sock, wire, rpos, rstate,
          aligned, hdr, received>>

NoHeader == [len |-> 0, frame |-> 0]

TypeOK ==
    /\ written \in 0..MaxWrites
    /\ wbuf \in Seq(Unit)
    /\ ops \in Nat
    /\ inLen \in Nat
    /\ sent \in Nat
    /\ stale \in BOOLEAN
    /\ sock \in {"open", "closed"}
    /\ wire \in Seq(Unit)
    /\ rpos \in Nat
    /\ rstate \in {"size", "body", "stopped"}
    /\ aligned \in BOOLEAN
    /\ hdr \in Header
    /\ received \in Seq(0..MaxWrites)

Init ==
    /\ written = 0
    /\ wbuf = <<>>
    /\ ops = 0
    /\ inLen = 0
    /\ sent = 0
    /\ stale = FALSE
    /\ sock = "open"
    /\ wire = <<>>
    /\ rpos = 0
    /\ rstate = "size"
    /\ aligned = TRUE
    /\ hdr = NoHeader
    /\ received = <<>>

-----------------------------------------------------------------------------
(* protocol::write_command: the length prefix followed by the serialised  *)
(* command, handed to tcp_connection::write as one string.                 *)
Frame(i) == << [seq |-> i, part |-> "size", ok |-> TRUE],
               [seq |-> i, part |-> "body", ok |-> TRUE] >>

(* tcp_connection::start_write: async_write of the whole write_buffer_.   *)
StartWrite(buf) ==
    /\ ops' = ops + 1
    /\ inLen' = Len(buf)
    /\ sent' = 0
    /\ stale' = FALSE

(* Faults of write: the frame numbered off by one; start_write called    *)
(* even while a write is running.                                          *)
WriteOffByOne ==
    /\ written < MaxWrites
    /\ written' = written + 1
    /\ \/ /\ wbuf = <<>>
          /\ wbuf' = Frame(written)
          /\ StartWrite(wbuf')
       \/ /\ wbuf # <<>>
          /\ wbuf' = wbuf \o Frame(written)
          /\ stale' \in {stale, TRUE}
          /\ UNCHANGED <<ops, inLen, sent>>
    /\ UNCHANGED <<sock, wire, rpos, rstate, aligned, hdr, received>>

WriteAlwaysStarts ==
    /\ written < MaxWrites
    /\ written' = written + 1
    /\ wbuf' = wbuf \o Frame(written + 1)
    /\ StartWrite(wbuf')
    /\ UNCHANGED <<sock, wire, rpos, rstate, aligned, hdr, received>>

(* tcp_connection::write: an empty buffer takes the message and starts    *)
(* writing; otherwise the message is appended, which may reallocate the   *)
(* storage the running async_write is reading.                             *)
Write ==
    /\ written < MaxWrites
    /\ written' = written + 1
    /\ \/ /\ wbuf = <<>>
          /\ wbuf' = Frame(written + 1)
          /\ StartWrite(wbuf')
       \/ /\ wbuf # <<>>
          /\ wbuf' = wbuf \o Frame(written + 1)
          /\ stale' \in {stale, TRUE}
          /\ UNCHANGED <<ops, inLen, sent>>
    /\ UNCHANGED <<sock, wire, rpos, rstate, aligned, hdr, received>>

(* One write_some of the running async_write: the next unit of the view  *)
(* goes on the wire.  Through a dangling view the bytes are those of the  *)
(* old storage, which may still hold them or may have been reused.        *)
WriteSome ==
    /\ ops > 0
    /\ sent < inLen
    /\ sock = "open"
    /\ \E ok \in IF stale THEN BOOLEAN ELSE {TRUE} :
          wire' = Append(wire, [wbuf[sent + 1] EXCEPT !.ok = ok])
    /\ sent' = sent + 1
    /\ UNCHANGED <<written, wbuf, ops, inLen, stale, sock, rpos, rstate,
                   aligned, hdr, received>>

(* Faults of handle_write: the whole view dropped instead of the         *)
(* bytes_transferred prefix; the remaining data not written again.        *)
HandleWriteDropsView ==
    /\ ops > 0
    /\ sent = inLen \/ sock = "closed"
    /\ wbuf' = SubSeq(wbuf, inLen + 1, Len(wbuf))
    /\ \/ /\ wbuf' # <<>>
          /\ UNCHANGED ops
          /\ inLen' = Len(wbuf')
          /\ sent' = 0
          /\ stale' = FALSE
       \/ /\ wbuf' = <<>>
          /\ ops' = ops - 1
          /\ UNCHANGED <<inLen, sent, stale>>
    /\ UNCHANGED <<written, sock, wire, rpos, rstate, aligned, hdr, received>>

HandleWriteNoRestart ==
    /\ ops > 0
    /\ sent = inLen \/ sock = "closed"
    /\ wbuf' = SubSeq(wbuf, sent + 1, Len(wbuf))
    /\ ops' = ops - 1
    /\ UNCHANGED <<inLen, sent, stale>>
    /\ UNCHANGED <<written, sock, wire, rpos, rstate, aligned, hdr, received>>

(* tcp_connection::handle_write: async_write completes, with the whole   *)
(* view sent or with an error after `sent' units.  The error is ignored:  *)
(* the transferred prefix is dropped and, if anything is left, a new      *)
(* async_write is started.                                                 *)
HandleWrite ==
    /\ ops > 0
    /\ sent = inLen \/ sock = "closed"
    /\ wbuf' = SubSeq(wbuf, sent + 1, Len(wbuf))
    /\ \/ /\ wbuf' # <<>>
          /\ UNCHANGED ops   \* the finished async_write is replaced
          /\ inLen' = Len(wbuf')
          /\ sent' = 0
          /\ stale' = FALSE
       \/ /\ wbuf' = <<>>
          /\ ops' = ops - 1
          /\ UNCHANGED <<inLen, sent, stale>>
    /\ UNCHANGED <<written, sock, wire, rpos, rstate, aligned, hdr, received>>

(* The socket is closed (tcp_connection::close, or the peer goes away):  *)
(* every outstanding and later operation on it completes with an error.  *)
Close ==
    /\ sock = "open"
    /\ sock' = "closed"
    /\ UNCHANGED <<written, wbuf, ops, inLen, sent, stale, wire, rpos, rstate,
                   aligned, hdr, received>>

(* protocol::read_command_parse_size: the 4 bytes of a length have been  *)
(* read, and a body read of that many bytes is armed.  Only an intact      *)
(* prefix read on a frame boundary gives the length of its frame's body.  *)
ReadSize ==
    /\ rstate = "size"
    /\ sock = "open"
    /\ rpos < Len(wire)
    /\ \/ /\ aligned /\ wire[rpos + 1].ok
          /\ hdr' = [len |-> 1, frame |-> wire[rpos + 1].seq]
       \/ /\ ~(aligned /\ wire[rpos + 1].ok)
          /\ hdr' \in [len : GarbageLens, frame : {0}]
    /\ rpos' = rpos + 1
    /\ rstate' = "body"
    /\ UNCHANGED <<written, wbuf, ops, inLen, sent, stale, sock, wire,
                   aligned, received>>

(* What parse_command hands on for the body it read: the frame itself,   *)
(* or 0 for bytes that are not the frame written (a corrupt body, or a    *)
(* body read with a garbage length).                                       *)
Command(h, b) == IF h.frame # 0 /\ b.ok THEN h.frame ELSE 0

(* protocol::read_command_parse_command: the body read completes once the *)
(* bytes asked for are there, and command::from_string's result goes to   *)
(* handle_command, which re-arms read_command.  Garbage either makes      *)
(* from_string throw, or parses to a command whose type handle_command   *)
(* handles (re-armed) or has no case for (PAXOS_THROW): a throw ends the  *)
(* read loop.  After a garbage length the reader is on a frame boundary   *)
(* again only if the bytes it took happen to end on one.                   *)
ReadBody ==
    /\ rstate = "body"
    /\ sock = "open"
    /\ rpos + hdr.len <= Len(wire)
    /\ rpos' = rpos + hdr.len
    /\ LET cmd == Command(hdr, wire[rpos + 1])
       IN  \/ /\ cmd # 0
              /\ received' = Append(received, cmd)
              /\ rstate' = "size"
           \/ /\ cmd = 0
              /\ received' = Append(received, 0)
              /\ rstate' \in {"size", "stopped"}
           \/ /\ cmd = 0
              /\ UNCHANGED received
              /\ rstate' = "stopped"
    /\ \/ hdr.frame # 0 /\ UNCHANGED aligned
       \/ hdr.frame = 0 /\ aligned' \in IF rpos' % 2 = 0 THEN BOOLEAN ELSE {FALSE}
    /\ UNCHANGED <<written, wbuf, ops, inLen, sent, stale, sock, wire, hdr>>

(* The error branch of read_command_parse_size: a warning is logged and  *)
(* the read loop ends without being re-armed.                              *)
ParseSizeError ==
    /\ rstate = "size"
    /\ sock = "closed"
    /\ rstate' = "stopped"
    /\ UNCHANGED <<written, wbuf, ops, inLen, sent, stale, sock, wire, rpos,
                   aligned, hdr, received>>

(* The error branch of read_command_parse_command: the same.              *)
ParseCommandError ==
    /\ rstate = "body"
    /\ sock = "closed"
    /\ rstate' = "stopped"
    /\ UNCHANGED <<written, wbuf, ops, inLen, sent, stale, sock, wire, rpos,
                   aligned, hdr, received>>

Next ==
    \/ Write
    \/ WriteSome
    \/ HandleWrite
    \/ Close
    \/ ReadSize
    \/ ReadBody
    \/ ParseSizeError
    \/ ParseCommandError

(* The io_service runs every completion handler it has posted; the upper *)
(* layers' writes and the socket's failure are not forced.                *)
Fairness ==
    /\ WF_vars(WriteSome)
    /\ WF_vars(HandleWrite)
    /\ WF_vars(ReadSize)
    /\ WF_vars(ReadBody)
    /\ WF_vars(ParseSizeError)
    /\ WF_vars(ParseCommandError)

Spec == Init /\ [][Next]_vars /\ Fairness

-----------------------------------------------------------------------------
(***************************************************************************)
(* Properties.                                                             *)
(***************************************************************************)

Strip(u) == [seq |-> u.seq, part |-> u.part, ok |-> TRUE]
StripAll(s) == [i \in DOMAIN s |-> Strip(s[i])]

\* All units of the first n frames, in order.
FramesUpTo(n) == [k \in 1..(2 * n) |->
                     [seq |-> (k + 1) \div 2,
                      part |-> IF k % 2 = 1 THEN "size" ELSE "body",
                      ok |-> TRUE]]

(* Exactly one async_write is outstanding while write_buffer_ holds data, *)
(* and none when it is empty: writes never run concurrently on the socket *)
(* and queued data never waits without a write that will send it.          *)
SingleWriter ==
    /\ ops \in {0, 1}
    /\ (ops = 1) <=> (wbuf # <<>>)
    /\ ops = 1 => sent <= inLen /\ inLen <= Len(wbuf)

(* Spec 8: writes are observed by the peer in the order they were         *)
(* enqueued.  The units on the wire followed by the unsent rest of        *)
(* write_buffer_ are exactly the frames written, each once, in order      *)
(* (what a unit's bytes hold is the business of FramesDeliveredIntact).   *)
StreamInOrder ==
    StripAll(wire) \o SubSeq(wbuf, sent + 1, Len(wbuf)) = FramesUpTo(written)

\* Bytes from freed memory have gone on the wire.
Corrupted == \E k \in 1..Len(wire) : ~wire[k].ok

(* Every frame written is eventually handed to handle_command, unless the *)
(* connection fails or the dangling view of write() has put corrupt bytes *)
(* on the wire (after which the reader may lose the frame boundaries and  *)
(* stall or throw: FramesDeliveredIntact's finding).  handle_write must   *)
(* restart the write of what an append left behind, and handle_command    *)
(* re-arm the read, for this to hold.                                      *)
FramesDelivered ==
    \A i \in 1..MaxWrites :
       (written >= i) ~> (sock = "closed" \/ Corrupted \/ Len(received) >= i)

(* Spec 4.1: commands are delivered intact and in order on a connection. *)
FramesDeliveredIntact ==
    \A i \in DOMAIN received : received[i] = i

(* Spec 4.1: after an I/O failure the connection is not used again.  The *)
(* write loop must come to rest once the socket has failed.               *)
WriteLoopStops == (sock = "closed") ~> (ops = 0)

(* What handle_command is given is what FrameChannel allows: intact frames *)
(* in the order written, none twice and none invented, and frames lost    *)
(* only right after a corrupt command, when a garbage length has taken    *)
(* the reader off the frame boundaries.  Under the mapping written ->      *)
(* sent and received -> delivered, every step of the write queue, the     *)
(* wire and the read loop is a step of FrameChannel or leaves both alone. *)
Channel == INSTANCE FrameChannel WITH sent <- written, delivered <- received

ImplementsFrameChannel == Channel!Spec

=============================================================================
