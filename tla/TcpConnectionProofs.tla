------------------------ MODULE TcpConnectionProofs ------------------------
(***************************************************************************)
(* Proofs about TcpConnection for every MaxWrites: the type invariant and *)
(* SingleWriter (one async_write at a time, and one whenever              *)
(* write_buffer_ holds data).  Neither is inductive alone: WriteSome reads *)
(* wbuf[sent + 1], which is a Unit only because SingleWriter bounds sent, *)
(* and SingleWriter's bounds survive a step only for well-typed states.   *)
(* Then StreamInOrder, and the refinement of FrameChannel (below).       *)
(***************************************************************************)
EXTENDS TcpConnection, SequenceTheorems, TLAPS

USE MaxWritesAssumption

WInv == TypeOK /\ SingleWriter

-----------------------------------------------------------------------------
(* Lemmas about the buffers.                                               *)

LEMMA FrameType ==
    ASSUME NEW i \in 1..MaxWrites
    PROVE  Frame(i) \in Seq(Unit) /\ Len(Frame(i)) = 2
BY DEF Frame, Unit, Parts

(* What handle_write keeps of write_buffer_: the part the finished        *)
(* async_write did not transfer.                                           *)
LEMMA RestOfBuffer ==
    ASSUME NEW s \in Seq(Unit), NEW k \in 0..Len(s)
    PROVE  /\ SubSeq(s, k + 1, Len(s)) \in Seq(Unit)
           /\ Len(SubSeq(s, k + 1, Len(s))) = Len(s) - k
<1>1. \A i \in (k + 1)..Len(s) : s[i] \in Unit
  OBVIOUS
<1> QED
  BY <1>1, SubSeqProperties

-----------------------------------------------------------------------------
LEMMA WInvInit == Init => WInv
<1> SUFFICES ASSUME Init PROVE WInv
  OBVIOUS
<1>1. NoHeader \in Header
  BY DEF NoHeader, Header, GarbageLens
<1>2. <<>> \in Seq(Unit) /\ <<>> \in Seq(0..MaxWrites)
  OBVIOUS
<1>3. /\ written \in 0..MaxWrites /\ ops \in Nat /\ inLen \in Nat
      /\ sent \in Nat /\ rpos \in Nat
  BY DEF Init
<1>4. TypeOK
  BY <1>1, <1>2, <1>3, Zenon DEF Init, TypeOK
<1>5. SingleWriter
  BY DEF Init, SingleWriter
<1> QED
  BY <1>4, <1>5 DEF WInv

LEMMA WInvWrite == ASSUME WInv, Write PROVE WInv'
<1>1. written \in 0..(MaxWrites - 1) /\ written' = written + 1
  BY DEF Write, WInv, TypeOK
<1>2. Frame(written + 1) \in Seq(Unit) /\ Len(Frame(written + 1)) = 2
  BY <1>1, FrameType
<1>3. UNCHANGED <<sock, wire, rpos, rstate, aligned, hdr, received>>
  BY DEF Write
<1>4. CASE wbuf = <<>>
  <2>1. /\ wbuf' = Frame(written + 1) /\ ops' = ops + 1 /\ ops = 0
        /\ inLen' = 2 /\ sent' = 0 /\ stale' = FALSE
    BY <1>2, <1>4 DEF Write, StartWrite, WInv, TypeOK, SingleWriter
  <2>2. /\ written' \in 0..MaxWrites /\ wbuf' \in Seq(Unit)
        /\ ops' \in Nat /\ inLen' \in Nat /\ sent' \in Nat
    BY <1>1, <1>2, <2>1
  <2>3. SingleWriter'
    BY <1>2, <2>1 DEF SingleWriter
  <2> QED
    BY <1>3, <2>1, <2>2, <2>3, Zenon DEF WInv, TypeOK
<1>5. CASE wbuf # <<>>
  <2>1. /\ wbuf' = wbuf \o Frame(written + 1) /\ stale' \in {stale, TRUE}
        /\ UNCHANGED <<ops, inLen, sent>>
    BY <1>5 DEF Write
  <2>2. wbuf' \in Seq(Unit) /\ Len(wbuf') = Len(wbuf) + 2
    <3>1. wbuf \in Seq(Unit)
      BY DEF WInv, TypeOK
    <3>2. /\ wbuf \o Frame(written + 1) \in Seq(Unit)
          /\ Len(wbuf \o Frame(written + 1))
               = Len(wbuf) + Len(Frame(written + 1))
      BY <1>2, <3>1, ConcatProperties
    <3>3. Len(wbuf \o Frame(written + 1)) = Len(wbuf) + 2
      BY <1>2, <3>1, <3>2
    <3> QED
      BY <2>1, <3>2, <3>3
  <2>3. written' \in 0..MaxWrites
    BY <1>1
  <2>4. SingleWriter'
    BY <1>5, <2>1, <2>2 DEF WInv, TypeOK, SingleWriter
  <2> QED
    BY <1>3, <2>1, <2>2, <2>3, <2>4, Zenon DEF WInv, TypeOK
<1> QED
  BY <1>4, <1>5

LEMMA WInvWriteSome == ASSUME WInv, WriteSome PROVE WInv'
<1>1. /\ ops = 1 /\ sent + 1 \in 1..Len(wbuf) /\ wbuf \in Seq(Unit)
      /\ sent \in Nat /\ inLen \in Nat /\ sent < inLen
  BY DEF WriteSome, WInv, TypeOK, SingleWriter
<1>2. PICK ok \in BOOLEAN :
         wire' = Append(wire, [wbuf[sent + 1] EXCEPT !.ok = ok])
  BY DEF WriteSome
<1>3. [wbuf[sent + 1] EXCEPT !.ok = ok] \in Unit
  <2>1. wbuf[sent + 1] \in Unit
    BY <1>1
  <2> QED
    BY <2>1 DEF Unit
<1>4. wire' \in Seq(Unit)
  BY <1>2, <1>3 DEF WInv, TypeOK
<1>5. /\ sent' = sent + 1 /\ sent' \in Nat
      /\ UNCHANGED <<written, wbuf, ops, inLen, stale, sock, rpos, rstate,
                     aligned, hdr, received>>
  BY <1>1 DEF WriteSome
<1>6. SingleWriter'
  BY <1>1, <1>5 DEF WInv, SingleWriter
<1> QED
  BY <1>4, <1>5, <1>6, Zenon DEF WInv, TypeOK

LEMMA WInvHandleWrite == ASSUME WInv, HandleWrite PROVE WInv'
<1>1. /\ ops = 1 /\ wbuf \in Seq(Unit) /\ sent \in 0..Len(wbuf)
      /\ wbuf' = SubSeq(wbuf, sent + 1, Len(wbuf))
  BY DEF HandleWrite, WInv, TypeOK, SingleWriter
<1>2. wbuf' \in Seq(Unit)
  BY <1>1, RestOfBuffer
<1>3. UNCHANGED <<written, sock, wire, rpos, rstate, aligned, hdr, received>>
  BY DEF HandleWrite
<1>4. CASE wbuf' # <<>>
  <2>1. /\ ops' = ops /\ inLen' = Len(wbuf') /\ sent' = 0 /\ stale' = FALSE
    BY <1>4 DEF HandleWrite
  <2>2. ops' \in Nat /\ inLen' \in Nat /\ sent' \in Nat /\ SingleWriter'
    BY <1>1, <1>2, <1>4, <2>1 DEF SingleWriter
  <2> QED
    BY <1>2, <1>3, <2>1, <2>2, Zenon DEF WInv, TypeOK
<1>5. CASE wbuf' = <<>>
  <2>1. /\ ops' = ops - 1 /\ UNCHANGED <<inLen, sent, stale>>
    BY <1>5 DEF HandleWrite
  <2>2. ops' \in Nat /\ SingleWriter'
    BY <1>1, <1>5, <2>1 DEF SingleWriter
  <2> QED
    BY <1>2, <1>3, <2>1, <2>2, Zenon DEF WInv, TypeOK
<1> QED
  BY <1>4, <1>5

\* The steps of the reader and of the socket.
Reader == Close \/ ReadSize \/ ReadBody \/ ParseSizeError \/ ParseCommandError

LEMMA WInvReader == ASSUME WInv, Reader PROVE WInv'
<1>1. UNCHANGED <<written, wbuf, ops, inLen, sent, stale>>
  BY DEF Reader, Close, ReadSize, ReadBody, ParseSizeError, ParseCommandError
<1>2. SingleWriter'
  BY <1>1, Zenon DEF WInv, SingleWriter
<1>3. CASE ReadSize
  <2>1. /\ rpos + 1 \in 1..Len(wire) /\ wire \in Seq(Unit) /\ rpos \in Nat
    BY <1>3 DEF ReadSize, WInv, TypeOK
  <2>2. wire[rpos + 1] \in Unit
    BY <2>1
  <2>3. hdr' \in Header
    <3>1. CASE aligned /\ wire[rpos + 1].ok
      <4>1. hdr' = [len |-> 1, frame |-> wire[rpos + 1].seq]
        BY <1>3, <3>1 DEF ReadSize
      <4> QED
        BY <2>2, <4>1 DEF Header, GarbageLens, Unit
    <3>2. CASE ~(aligned /\ wire[rpos + 1].ok)
      <4>1. hdr' \in [len : GarbageLens, frame : {0}]
        BY <1>3, <3>2 DEF ReadSize
      <4> QED
        BY <4>1 DEF Header
    <3> QED
      BY <3>1, <3>2
  <2>4. /\ rpos' \in Nat /\ rstate' \in {"size", "body", "stopped"}
        /\ UNCHANGED <<sock, wire, aligned, received>>
    BY <1>3, <2>1 DEF ReadSize
  <2> QED
    BY <1>1, <1>2, <2>3, <2>4, Zenon DEF WInv, TypeOK
<1>4. CASE ReadBody
  <2>1. /\ wire \in Seq(Unit) /\ rpos \in Nat /\ hdr \in Header
        /\ received \in Seq(0..MaxWrites)
    BY DEF WInv, TypeOK
  <2>2. hdr.len \in Nat /\ hdr.frame \in 0..MaxWrites
    BY <2>1 DEF Header, GarbageLens
  <2>3. rpos' \in Nat
    BY <1>4, <2>1, <2>2 DEF ReadBody
  <2>4. Command(hdr, wire[rpos + 1]) \in 0..MaxWrites
    BY <2>2 DEF Command
  <2>5. received' \in Seq(0..MaxWrites)
    <3>1. received' \in {Append(received, Command(hdr, wire[rpos + 1])),
                         Append(received, 0), received}
      BY <1>4 DEF ReadBody
    <3>2. /\ Append(received, Command(hdr, wire[rpos + 1])) \in Seq(0..MaxWrites)
          /\ Append(received, 0) \in Seq(0..MaxWrites)
      BY <2>1, <2>4
    <3> QED
      BY <2>1, <3>1, <3>2, Zenon
  <2>6. /\ rstate' \in {"size", "body", "stopped"} /\ aligned' \in BOOLEAN
        /\ UNCHANGED <<sock, wire, hdr>>
    BY <1>4 DEF ReadBody, WInv, TypeOK
  <2> QED
    BY <1>1, <1>2, <2>1, <2>3, <2>5, <2>6, Zenon DEF WInv, TypeOK
<1>5. CASE Close \/ ParseSizeError \/ ParseCommandError
  <2>1. /\ sock' \in {"open", "closed"}
        /\ rstate' \in {"size", "body", "stopped"}
        /\ UNCHANGED <<wire, rpos, aligned, hdr, received>>
    BY <1>5 DEF Close, ParseSizeError, ParseCommandError, WInv, TypeOK
  <2> QED
    BY <1>1, <1>2, <2>1, Zenon DEF WInv, TypeOK
<1> QED
  BY <1>3, <1>4, <1>5 DEF Reader

LEMMA WInvStep == WInv /\ [Next]_vars => WInv'
<1> SUFFICES ASSUME WInv, [Next]_vars PROVE WInv'
  OBVIOUS
<1>1. CASE Write
  BY <1>1, WInvWrite
<1>2. CASE WriteSome
  BY <1>2, WInvWriteSome
<1>3. CASE HandleWrite
  BY <1>3, WInvHandleWrite
<1>4. CASE Reader
  BY <1>4, WInvReader
<1>5. CASE UNCHANGED vars
  BY <1>5 DEF vars, WInv, TypeOK, SingleWriter
<1> QED
  BY <1>1, <1>2, <1>3, <1>4, <1>5 DEF Next, Reader

-----------------------------------------------------------------------------
(***************************************************************************)
(* StreamInOrder: the wire, ok bits aside, followed by the part of        *)
(* write_buffer_ not yet transferred, is frames 1..written.  It is        *)
(* inductive together with WInv (WriteSome and handle_write index         *)
(* write_buffer_ within the bounds SingleWriter gives) and Clean: the     *)
(* buffer holds only what write_command put there, so what a stale view   *)
(* corrupts is the copy on the wire and never the order of the stream.    *)
(***************************************************************************)
Clean == \A i \in 1..Len(wbuf) : wbuf[i].ok = TRUE

Unsent == SubSeq(wbuf, sent + 1, Len(wbuf))

SInv == WInv /\ Clean /\ StreamInOrder

LEMMA StripType ==
    ASSUME NEW u \in Unit
    PROVE  /\ Strip(u) \in Unit
           /\ u.ok = TRUE => Strip(u) = u
BY DEF Strip, Unit

LEMMA StripAllType ==
    ASSUME NEW s \in Seq(Unit)
    PROVE  /\ StripAll(s) \in Seq(Unit)
           /\ Len(StripAll(s)) = Len(s)
           /\ \A i \in 1..Len(s) : StripAll(s)[i] = Strip(s[i])
<1>1. \A i \in 1..Len(s) : Strip(s[i]) \in Unit
  <2> SUFFICES ASSUME NEW i \in 1..Len(s) PROVE Strip(s[i]) \in Unit
    OBVIOUS
  <2>1. s[i] \in Unit
    OBVIOUS
  <2> QED
    BY <2>1, StripType, Zenon
<1>2. DOMAIN s = 1..Len(s)
  OBVIOUS
<1> QED
  BY <1>1, <1>2 DEF StripAll

(* Sending one more unit appends its stripped copy.                       *)
LEMMA StripAllAppend ==
    ASSUME NEW s \in Seq(Unit), NEW u \in Unit
    PROVE  StripAll(Append(s, u)) = StripAll(s) \o << Strip(u) >>
<1>1. Append(s, u) \in Seq(Unit) /\ Len(Append(s, u)) = Len(s) + 1
  OBVIOUS
<1>2. /\ StripAll(Append(s, u)) \in Seq(Unit)
      /\ Len(StripAll(Append(s, u))) = Len(Append(s, u))
      /\ \A i \in 1..Len(Append(s, u)) :
            StripAll(Append(s, u))[i] = Strip(Append(s, u)[i])
  BY <1>1, StripAllType, Zenon
<1>3. /\ StripAll(s) \in Seq(Unit) /\ Len(StripAll(s)) = Len(s)
      /\ \A i \in 1..Len(s) : StripAll(s)[i] = Strip(s[i])
  BY StripAllType
<1>4. << Strip(u) >> \in Seq(Unit) /\ Len(<< Strip(u) >>) = 1
  <2>1. Strip(u) \in Unit
    BY StripType, Zenon
  <2> QED
    BY <2>1
<1>5. /\ StripAll(s) \o << Strip(u) >> \in Seq(Unit)
      /\ Len(StripAll(s) \o << Strip(u) >>)
           = Len(StripAll(s)) + Len(<< Strip(u) >>)
      /\ \A i \in 1..Len(StripAll(s)) + Len(<< Strip(u) >>) :
            (StripAll(s) \o << Strip(u) >>)[i] =
               IF i <= Len(StripAll(s)) THEN StripAll(s)[i]
               ELSE << Strip(u) >>[i - Len(StripAll(s))]
  BY <1>3, <1>4, ConcatProperties, Zenon
<1>6. \A i \in 1..Len(s) + 1 :
         StripAll(Append(s, u))[i] = (StripAll(s) \o << Strip(u) >>)[i]
  BY <1>1, <1>2, <1>3, <1>4, <1>5
<1>7. Len(StripAll(Append(s, u))) = Len(StripAll(s) \o << Strip(u) >>)
  BY <1>1, <1>2, <1>3, <1>4, <1>5
<1> QED
  BY <1>1, <1>2, <1>5, <1>6, <1>7, SeqEqual, Zenon

(* The first n frames, as units, are a sequence of 2n units.              *)
LEMMA FramesUpToType ==
    ASSUME NEW n \in 0..MaxWrites
    PROVE  FramesUpTo(n) \in Seq(Unit) /\ Len(FramesUpTo(n)) = 2 * n
<1>1. \A k \in 1..(2 * n) : (k + 1) \div 2 \in 1..MaxWrites
  OBVIOUS
<1> QED
  BY <1>1 DEF FramesUpTo, Unit, Parts

LEMMA FramesUpToAt ==
    ASSUME NEW n \in 0..MaxWrites, NEW k \in 1..(2 * n)
    PROVE  FramesUpTo(n)[k] =
              [seq |-> (k + 1) \div 2,
               part |-> IF k % 2 = 1 THEN "size" ELSE "body",
               ok |-> TRUE]
BY Zenon DEF FramesUpTo

(* write_command's frame n + 1 extends the stream of frames 1..n.        *)
LEMMA FramesUpToNext ==
    ASSUME NEW n \in 0..(MaxWrites - 1)
    PROVE  FramesUpTo(n + 1) = FramesUpTo(n) \o Frame(n + 1)
<1>1. /\ FramesUpTo(n + 1) \in Seq(Unit) /\ Len(FramesUpTo(n + 1)) = 2 * n + 2
      /\ FramesUpTo(n) \in Seq(Unit) /\ Len(FramesUpTo(n)) = 2 * n
  BY FramesUpToType
<1>2. Frame(n + 1) \in Seq(Unit) /\ Len(Frame(n + 1)) = 2
  BY FrameType
<1>3. /\ FramesUpTo(n) \o Frame(n + 1) \in Seq(Unit)
      /\ Len(FramesUpTo(n) \o Frame(n + 1))
           = Len(FramesUpTo(n)) + Len(Frame(n + 1))
      /\ \A i \in 1..Len(FramesUpTo(n)) + Len(Frame(n + 1)) :
            (FramesUpTo(n) \o Frame(n + 1))[i] =
               IF i <= Len(FramesUpTo(n)) THEN FramesUpTo(n)[i]
               ELSE Frame(n + 1)[i - Len(FramesUpTo(n))]
  BY <1>1, <1>2, ConcatProperties, Zenon
<1>4. ASSUME NEW i \in 1..(2 * n + 2)
      PROVE  FramesUpTo(n + 1)[i] = (FramesUpTo(n) \o Frame(n + 1))[i]
  <2>1. (FramesUpTo(n) \o Frame(n + 1))[i] =
           IF i <= 2 * n THEN FramesUpTo(n)[i] ELSE Frame(n + 1)[i - 2 * n]
    BY <1>1, <1>2, <1>3
  <2>2. CASE i <= 2 * n
    <3>1. FramesUpTo(n + 1)[i] = FramesUpTo(n)[i]
      <4>1. n + 1 \in 0..MaxWrites /\ n \in 0..MaxWrites
            /\ i \in 1..(2 * (n + 1)) /\ i \in 1..(2 * n)
        BY <2>2
      <4> QED
        BY <4>1, FramesUpToAt
    <3> QED
      BY <2>1, <2>2, <3>1
  <2>3. CASE i = 2 * n + 1
    <3>1. (i + 1) \div 2 = n + 1 /\ i % 2 = 1 /\ i - 2 * n = 1
      BY <2>3
    <3>2. FramesUpTo(n + 1)[i] = [seq |-> n + 1, part |-> "size", ok |-> TRUE]
      <4>1. FramesUpTo(n + 1)[i] =
               [seq |-> (i + 1) \div 2,
                part |-> IF i % 2 = 1 THEN "size" ELSE "body", ok |-> TRUE]
        BY FramesUpToAt
      <4> QED
        BY <3>1, <4>1, Zenon
    <3>3. Frame(n + 1)[1] = [seq |-> n + 1, part |-> "size", ok |-> TRUE]
      BY DEF Frame
    <3>4. (FramesUpTo(n) \o Frame(n + 1))[i] = Frame(n + 1)[1]
      <4>1. (FramesUpTo(n) \o Frame(n + 1))[i] = Frame(n + 1)[i - 2 * n]
        <5>1. ~(i <= 2 * n)
          BY <2>3
        <5> QED
          BY <2>1, <5>1, Zenon
      <4> QED
        BY <3>1, <4>1, Zenon
    <3> QED
      BY <3>2, <3>3, <3>4
  <2>4. CASE i = 2 * n + 2
    <3>1. (i + 1) \div 2 = n + 1 /\ i % 2 = 0 /\ i - 2 * n = 2
      BY <2>4
    <3>2. FramesUpTo(n + 1)[i] = [seq |-> n + 1, part |-> "body", ok |-> TRUE]
      <4>1. FramesUpTo(n + 1)[i] =
               [seq |-> (i + 1) \div 2,
                part |-> IF i % 2 = 1 THEN "size" ELSE "body", ok |-> TRUE]
        BY FramesUpToAt
      <4>2. i % 2 # 1
        BY <3>1
      <4> QED
        BY <3>1, <4>1, <4>2, Zenon
    <3>3. Frame(n + 1)[2] = [seq |-> n + 1, part |-> "body", ok |-> TRUE]
      BY DEF Frame
    <3>4. (FramesUpTo(n) \o Frame(n + 1))[i] = Frame(n + 1)[2]
      <4>1. (FramesUpTo(n) \o Frame(n + 1))[i] = Frame(n + 1)[i - 2 * n]
        <5>1. ~(i <= 2 * n)
          BY <2>4
        <5> QED
          BY <2>1, <5>1, Zenon
      <4> QED
        BY <3>1, <4>1, Zenon
    <3> QED
      BY <3>2, <3>3, <3>4
  <2>5. i <= 2 * n \/ i = 2 * n + 1 \/ i = 2 * n + 2
    OBVIOUS
  <2> QED
    BY <2>2, <2>3, <2>4, <2>5
<1>5. /\ Len(FramesUpTo(n + 1)) = Len(FramesUpTo(n) \o Frame(n + 1))
      /\ 1..Len(FramesUpTo(n + 1)) = 1..(2 * n + 2)
  BY <1>1, <1>2, <1>3
<1>6. \A i \in 1..Len(FramesUpTo(n + 1)) :
         FramesUpTo(n + 1)[i] = (FramesUpTo(n) \o Frame(n + 1))[i]
  BY <1>4, <1>5, Zenon
<1> QED
  BY <1>1, <1>3, <1>5, <1>6, SeqEqual, Zenon

(* The suffix of a sequence after its first k elements.                   *)
LEMMA SuffixProperties ==
    ASSUME NEW S, NEW s \in Seq(S), NEW k \in 0..Len(s)
    PROVE  /\ SubSeq(s, k + 1, Len(s)) \in Seq(S)
           /\ Len(SubSeq(s, k + 1, Len(s))) = Len(s) - k
           /\ \A i \in 1..(Len(s) - k) : SubSeq(s, k + 1, Len(s))[i] = s[k + i]
<1>1. \A i \in (k + 1)..Len(s) : s[i] \in S
  OBVIOUS
<1> QED
  BY <1>1, SubSeqProperties

(* What remains of a buffer after an append, from a point inside the     *)
(* old buffer, is the old remainder followed by the appended part.        *)
LEMMA RestOfAppended ==
    ASSUME NEW S, NEW s \in Seq(S), NEW t \in Seq(S), NEW k \in 0..Len(s)
    PROVE  SubSeq(s \o t, k + 1, Len(s) + Len(t))
             = SubSeq(s, k + 1, Len(s)) \o t
<1> DEFINE st == s \o t
           r  == SubSeq(s, k + 1, Len(s))
<1>1. /\ st \in Seq(S) /\ Len(st) = Len(s) + Len(t)
      /\ \A i \in 1..Len(s) + Len(t) :
            st[i] = IF i <= Len(s) THEN s[i] ELSE t[i - Len(s)]
  BY ConcatProperties, Zenon
<1>2. k \in 0..Len(st)
  BY <1>1
<1>3. /\ SubSeq(st, k + 1, Len(st)) \in Seq(S)
      /\ Len(SubSeq(st, k + 1, Len(st))) = Len(st) - k
      /\ \A i \in 1..(Len(st) - k) : SubSeq(st, k + 1, Len(st))[i] = st[k + i]
  BY <1>1, <1>2, SuffixProperties, Zenon
<1>4. /\ r \in Seq(S)
      /\ Len(r) = Len(s) - k
      /\ \A i \in 1..(Len(s) - k) : r[i] = s[k + i]
  BY SuffixProperties, Zenon
<1>5. /\ r \o t \in Seq(S)
      /\ Len(r \o t) = Len(r) + Len(t)
      /\ \A i \in 1..Len(r) + Len(t) :
            (r \o t)[i] = IF i <= Len(r) THEN r[i] ELSE t[i - Len(r)]
  BY <1>4, ConcatProperties, Zenon
<1>6. Len(SubSeq(st, k + 1, Len(st))) = Len(r \o t)
  BY <1>1, <1>3, <1>4, <1>5
<1>7. \A i \in 1..Len(r \o t) : SubSeq(st, k + 1, Len(st))[i] = (r \o t)[i]
  BY <1>1, <1>3, <1>4, <1>5
<1>8. SubSeq(st, k + 1, Len(st)) = r \o t
  BY <1>3, <1>5, <1>6, <1>7, SeqEqual, Zenon
<1> QED
  BY <1>1, <1>8

-----------------------------------------------------------------------------
LEMMA SInvInit == Init => SInv
<1> SUFFICES ASSUME Init PROVE SInv
  OBVIOUS
<1>1. Clean
  BY DEF Init, Clean
<1>2. StripAll(wire) = << >> /\ Unsent = << >> /\ FramesUpTo(written) = << >>
  BY DEF Init, StripAll, Unsent, FramesUpTo
<1>3. StreamInOrder
  BY <1>2 DEF StreamInOrder, Unsent
<1> QED
  BY <1>1, <1>3, WInvInit DEF SInv

(* tcp_connection::write: the new frame goes behind everything unsent.   *)
LEMMA SInvWrite == ASSUME SInv, Write PROVE (Clean /\ StreamInOrder)'
<1> DEFINE F == Frame(written + 1)
           W == StripAll(wire)
<1>1. /\ written \in 0..(MaxWrites - 1) /\ written' = written + 1
      /\ wbuf \in Seq(Unit) /\ wire \in Seq(Unit) /\ sent \in Nat
      /\ wire' = wire
  BY DEF Write, SInv, WInv, TypeOK
<1>2. F \in Seq(Unit) /\ Len(F) = 2 /\ \A i \in 1..2 : F[i].ok = TRUE
  BY <1>1, FrameType DEF Frame
<1>3. W \in Seq(Unit)
  BY <1>1, StripAllType
<1>4. FramesUpTo(written + 1) = FramesUpTo(written) \o F
  BY <1>1, FramesUpToNext
<1>5. W \o Unsent = FramesUpTo(written)
  BY DEF SInv, StreamInOrder, Unsent
<1>6. CASE wbuf = << >>
  <2>1. wbuf' = F /\ sent' = 0
    BY <1>6 DEF Write, StartWrite
  <2>2. Unsent = << >>
    BY <1>1, <1>6, SubSeqEmpty DEF Unsent
  <2>3. W = FramesUpTo(written)
    BY <1>3, <1>5, <2>2, ConcatEmptySeq
  <2>4. Unsent' = F
    BY <1>2, <2>1, SubSeqFull DEF Unsent
  <2>5. StreamInOrder'
    BY <1>1, <1>4, <2>3, <2>4 DEF StreamInOrder, Unsent
  <2>6. Clean'
    BY <1>2, <2>1 DEF Clean
  <2> QED
    BY <2>5, <2>6
<1>7. CASE wbuf # << >>
  <2>1. wbuf' = wbuf \o F /\ UNCHANGED sent
    BY <1>7 DEF Write
  <2>2. sent \in 0..Len(wbuf)
    BY <1>7 DEF SInv, WInv, TypeOK, SingleWriter
  <2>3. Unsent' = Unsent \o F
    <3>1. Len(wbuf') = Len(wbuf) + Len(F)
      BY <1>1, <1>2, <2>1, ConcatProperties
    <3>2. SubSeq(wbuf \o F, sent + 1, Len(wbuf) + Len(F))
            = SubSeq(wbuf, sent + 1, Len(wbuf)) \o F
      BY <1>1, <1>2, <2>2, RestOfAppended
    <3> QED
      BY <2>1, <3>1, <3>2 DEF Unsent
  <2>4. Unsent \in Seq(Unit)
    BY <1>1, <2>2, SuffixProperties DEF Unsent
  <2>5. W \o (Unsent \o F) = (W \o Unsent) \o F
    <3>1. \A a, b, c \in Seq(Unit) : (a \o b) \o c = a \o (b \o c)
      BY ConcatAssociative
    <3> QED
      BY <1>2, <1>3, <2>4, <3>1
  <2>6. StreamInOrder'
    BY <1>1, <1>4, <1>5, <2>3, <2>5 DEF StreamInOrder, Unsent
  <2>7. Clean'
    <3>0. /\ Len(wbuf \o F) = Len(wbuf) + Len(F)
          /\ \A i \in 1..Len(wbuf) + Len(F) :
                (wbuf \o F)[i] = IF i <= Len(wbuf) THEN wbuf[i] ELSE F[i - Len(wbuf)]
      BY <1>1, <1>2, ConcatProperties
    <3>1. /\ Len(wbuf') = Len(wbuf) + 2
          /\ \A i \in 1..Len(wbuf) + 2 :
                wbuf'[i] = IF i <= Len(wbuf) THEN wbuf[i] ELSE F[i - Len(wbuf)]
      BY <1>2, <2>1, <3>0
    <3> QED
      BY <1>2, <3>1 DEF SInv, Clean
  <2> QED
    BY <2>6, <2>7
<1> QED
  BY <1>6, <1>7

(* One write_some: the unit at the front of the unsent part moves to the *)
(* wire; a stale view may corrupt its bytes but not its place.           *)
LEMMA SInvWriteSome == ASSUME SInv, WriteSome PROVE (Clean /\ StreamInOrder)'
<1> DEFINE x    == wbuf[sent + 1]
           Rest == SubSeq(wbuf, sent + 2, Len(wbuf))
           W    == StripAll(wire)
<1>1. /\ wbuf \in Seq(Unit) /\ wire \in Seq(Unit)
      /\ sent \in Nat /\ sent + 1 \in 1..Len(wbuf)
  BY DEF WriteSome, SInv, WInv, TypeOK, SingleWriter
<1>2. UNCHANGED <<written, wbuf>> /\ sent' = sent + 1
  BY DEF WriteSome
<1>3. PICK ok \in BOOLEAN : wire' = Append(wire, [x EXCEPT !.ok = ok])
  BY DEF WriteSome
<1>4. x \in Unit /\ x.ok = TRUE
  BY <1>1 DEF SInv, Clean
<1>5. /\ [x EXCEPT !.ok = ok] \in Unit
      /\ Strip([x EXCEPT !.ok = ok]) = x
  <2>1. [x EXCEPT !.ok = ok] \in Unit
    BY <1>4 DEF Unit
  <2>2. Strip([x EXCEPT !.ok = ok]) = Strip(x)
    BY <1>4 DEF Unit, Strip
  <2>3. Strip(x) = x
    BY <1>4, StripType, Zenon
  <2> QED
    BY <2>1, <2>2, <2>3
<1>6. StripAll(wire') = W \o << x >>
  BY <1>1, <1>3, <1>5, StripAllAppend
<1>7. Unsent = << x >> \o Rest
  BY <1>1, SubSeqRecursiveFirst DEF Unsent
<1>8. Unsent' = Rest
  <2>1. sent' + 1 = sent + 2
    BY <1>1, <1>2
  <2> QED
    BY <1>2, <2>1 DEF Unsent
<1>9. /\ W \in Seq(Unit) /\ << x >> \in Seq(Unit) /\ Rest \in Seq(Unit)
  <2>1. W \in Seq(Unit)
    BY <1>1, StripAllType
  <2>2. Rest \in Seq(Unit)
    <3>1. sent + 1 \in 0..Len(wbuf)
      BY <1>1
    <3> QED
      BY <1>1, <3>1, SuffixProperties
  <2> QED
    BY <1>4, <2>1, <2>2
<1>10. (W \o << x >>) \o Rest = W \o (<< x >> \o Rest)
  <2>1. \A a, b, c \in Seq(Unit) : (a \o b) \o c = a \o (b \o c)
    BY ConcatAssociative
  <2> QED
    BY <1>9, <2>1
<1>11. StreamInOrder'
  BY <1>2, <1>6, <1>7, <1>8, <1>10 DEF SInv, StreamInOrder, Unsent
<1>12. Clean'
  BY <1>2 DEF SInv, Clean
<1> QED
  BY <1>11, <1>12

(* tcp_connection::handle_write: write_buffer_ becomes what was unsent,  *)
(* and the next async_write starts at its front.                          *)
LEMMA SInvHandleWrite == ASSUME SInv, HandleWrite PROVE (Clean /\ StreamInOrder)'
<1>1. /\ wbuf \in Seq(Unit) /\ sent \in 0..Len(wbuf)
      /\ wbuf' = Unsent
      /\ UNCHANGED <<written, wire>>
  BY DEF HandleWrite, SInv, WInv, TypeOK, SingleWriter, Unsent
<1>2. /\ Unsent \in Seq(Unit) /\ Len(Unsent) = Len(wbuf) - sent
      /\ \A i \in 1..(Len(wbuf) - sent) : Unsent[i] = wbuf[sent + i]
  BY <1>1, SuffixProperties DEF Unsent
<1>3. Unsent' = Unsent
  <2>1. CASE wbuf' # << >>
    <3>1. sent' = 0
      BY <2>1 DEF HandleWrite
    <3> QED
      BY <1>1, <1>2, <3>1, SubSeqFull DEF Unsent
  <2>2. CASE wbuf' = << >>
    <3>1. sent' = sent /\ sent \in Nat
      BY <1>1, <2>2 DEF HandleWrite
    <3>2. SubSeq(<< >>, sent + 1, Len(<< >>)) = << >>
      BY <3>1, SubSeqEmpty
    <3> QED
      BY <1>1, <2>2, <3>1, <3>2 DEF Unsent
  <2> QED
    BY <2>1, <2>2
<1>4. StreamInOrder'
  BY <1>1, <1>3 DEF SInv, StreamInOrder, Unsent
<1>5. Clean'
  BY <1>1, <1>2 DEF SInv, Clean
<1> QED
  BY <1>4, <1>5

LEMMA SInvReader == ASSUME SInv, Reader PROVE (Clean /\ StreamInOrder)'
<1>1. UNCHANGED <<written, wbuf, sent, wire>>
  BY DEF Reader, Close, ReadSize, ReadBody, ParseSizeError, ParseCommandError
<1> QED
  BY <1>1 DEF SInv, Clean, StreamInOrder

LEMMA SInvStep == SInv /\ [Next]_vars => SInv'
<1> SUFFICES ASSUME SInv, [Next]_vars PROVE SInv'
  OBVIOUS
<1>1. WInv'
  BY WInvStep DEF SInv
<1>2. (Clean /\ StreamInOrder)'
  <2>1. CASE Write
    BY <2>1, SInvWrite
  <2>2. CASE WriteSome
    BY <2>2, SInvWriteSome
  <2>3. CASE HandleWrite
    BY <2>3, SInvHandleWrite
  <2>4. CASE Reader
    BY <2>4, SInvReader
  <2>5. CASE UNCHANGED vars
    BY <2>5 DEF vars, SInv, Clean, StreamInOrder
  <2> QED
    BY <2>1, <2>2, <2>3, <2>4, <2>5 DEF Next, Reader
<1> QED
  BY <1>1, <1>2 DEF SInv

-----------------------------------------------------------------------------
(***************************************************************************)
(* Refinement of FrameChannel.  While the reader is on a frame boundary   *)
(* (aligned, reading a length), it is at an even unit of the wire, and    *)
(* the last command it handed on is the previous frame or a corrupt one   *)
(* (AtBoundary).  An intact prefix read there belongs, by StreamInOrder,  *)
(* to the next frame, and the body read it arms takes exactly that        *)
(* frame's body (BodyOfFrame).  Every frame handed on lies behind the     *)
(* reader's position (DeliveredBehind), so none comes twice or out of     *)
(* order; and a garbage length yields a corrupt command or ends the loop, *)
(* so frames are skipped only right after a corrupt command.              *)
(***************************************************************************)
\* Frame x may follow what has been handed on so far (FrameChannel's rule).
Follows(x) == IF received = <<>> THEN x = 1
                                 ELSE received[Len(received)] \in {0, x - 1}

ReaderOnWire == rpos <= Len(wire) /\ (rstate = "body" => rpos >= 1)

DeliveredBehind == \A i \in 1..Len(received) : 2 * received[i] <= rpos

AtBoundary ==
    aligned /\ rstate = "size" => rpos % 2 = 0 /\ Follows(rpos \div 2 + 1)

BodyOfFrame ==
    rstate = "body" /\ hdr.frame # 0 =>
        /\ aligned /\ hdr.len = 1 /\ rpos = 2 * hdr.frame - 1
        /\ Follows(hdr.frame)

RInv == SInv /\ ReaderOnWire /\ DeliveredBehind /\ AtBoundary /\ BodyOfFrame

(* What StreamInOrder says of the wire alone.                              *)
LEMMA WireFrames ==
    ASSUME SInv
    PROVE  /\ Len(wire) <= 2 * written
           /\ \A k \in 1..Len(wire) : wire[k].seq = (k + 1) \div 2
<1>1. /\ wire \in Seq(Unit) /\ wbuf \in Seq(Unit)
      /\ written \in 0..MaxWrites
  BY DEF SInv, WInv, TypeOK
<1>2. Unsent \in Seq(Unit)
  <2>1. CASE ops = 1
    <3>1. sent \in 0..Len(wbuf)
      BY <2>1 DEF SInv, WInv, TypeOK, SingleWriter
    <3> QED
      BY <1>1, <3>1, RestOfBuffer DEF Unsent
  <2>2. CASE ops # 1
    <3>1. wbuf = << >> /\ sent \in Nat
      BY <2>2 DEF SInv, WInv, TypeOK, SingleWriter
    <3>2. Unsent = << >>
      BY <3>1, SubSeqEmpty DEF Unsent
    <3> QED
      BY <3>2
  <2> QED
    BY <2>1, <2>2
<1> DEFINE W == StripAll(wire)
<1>3. /\ W \in Seq(Unit) /\ Len(W) = Len(wire)
      /\ \A k \in 1..Len(wire) : W[k] = Strip(wire[k])
  BY <1>1, StripAllType
<1>4. /\ Len(W \o Unsent) = Len(W) + Len(Unsent)
      /\ \A k \in 1..Len(W) + Len(Unsent) :
            (W \o Unsent)[k] = IF k <= Len(W) THEN W[k]
                               ELSE Unsent[k - Len(W)]
  BY <1>2, <1>3, ConcatProperties
<1>5. W \o Unsent = FramesUpTo(written)
  BY DEF SInv, StreamInOrder, Unsent
<1>6. Len(FramesUpTo(written)) = 2 * written
  BY <1>1, FramesUpToType
<1>7. Len(wire) <= 2 * written
  BY <1>2, <1>3, <1>4, <1>5, <1>6
<1>8. ASSUME NEW k \in 1..Len(wire) PROVE wire[k].seq = (k + 1) \div 2
  <2>1. k \in 1..(2 * written)
    BY <1>1, <1>7
  <2>2. FramesUpTo(written)[k] =
           [seq |-> (k + 1) \div 2,
            part |-> IF k % 2 = 1 THEN "size" ELSE "body",
            ok |-> TRUE]
    BY <1>1, <2>1, FramesUpToAt
  <2>3. W[k] = FramesUpTo(written)[k]
    BY <1>2, <1>3, <1>4, <1>5
  <2>4. W[k] = Strip(wire[k])
    BY <1>3
  <2>5. W[k].seq = wire[k].seq
    BY <2>4 DEF Strip
  <2> QED
    BY <2>2, <2>3, <2>5
<1> QED
  BY <1>7, <1>8

(* Appending a frame at or behind a position to frames behind it.        *)
LEMMA BehindAppend ==
    ASSUME NEW S \in SUBSET Nat, NEW s \in Seq(S), NEW x \in Nat,
           NEW q \in Nat, 2 * x <= q,
           \A i \in 1..Len(s) : 2 * s[i] <= q
    PROVE  \A i \in 1..Len(Append(s, x)) : 2 * Append(s, x)[i] <= q
<1>1. Len(Append(s, x)) = Len(s) + 1
  OBVIOUS
<1>2. \A i \in 1..Len(s) : Append(s, x)[i] = s[i]
  OBVIOUS
<1>3. Append(s, x)[Len(s) + 1] = x
  OBVIOUS
<1> QED
  BY <1>1, <1>2, <1>3

LEMMA RInvInit == Init => RInv
<1> SUFFICES ASSUME Init PROVE RInv
  OBVIOUS
<1>1. ReaderOnWire /\ DeliveredBehind /\ AtBoundary /\ BodyOfFrame
  BY DEF Init, NoHeader, ReaderOnWire, DeliveredBehind, AtBoundary,
         BodyOfFrame, Follows
<1> QED
  BY <1>1, SInvInit DEF RInv

(* A step of the writer, of the socket or of an error branch leaves the  *)
(* reader's position, header and deliveries alone.                        *)
LEMMA RInvOther ==
    ASSUME RInv,
           Write \/ WriteSome \/ HandleWrite \/ Close \/ ParseSizeError
                 \/ ParseCommandError
    PROVE  (ReaderOnWire /\ DeliveredBehind /\ AtBoundary /\ BodyOfFrame)'
<1>1. wire \in Seq(Unit) /\ rpos \in Nat
  BY DEF RInv, SInv, WInv, TypeOK
<1>2. /\ UNCHANGED <<rpos, aligned, hdr, received>>
      /\ rstate' \in {rstate, "stopped"}
  BY DEF Write, WriteSome, HandleWrite, Close, ParseSizeError,
         ParseCommandError
<1>3. Len(wire) <= Len(wire') /\ Len(wire') \in Nat
  <2>1. CASE WriteSome
    <3>1. PICK ok \in BOOLEAN :
             wire' = Append(wire, [wbuf[sent + 1] EXCEPT !.ok = ok])
      BY <2>1 DEF WriteSome
    <3> QED
      BY <1>1, <3>1
  <2>2. CASE ~WriteSome
    <3>1. UNCHANGED wire
      BY <2>2 DEF Write, HandleWrite, Close, ParseSizeError,
                  ParseCommandError
    <3> QED
      BY <3>1
  <2> QED
    BY <2>1, <2>2
<1>4. (DeliveredBehind /\ AtBoundary /\ BodyOfFrame)'
  <2>1. CASE rstate' = rstate
    BY <1>2, <2>1 DEF RInv, DeliveredBehind, AtBoundary, BodyOfFrame, Follows
  <2>2. CASE rstate' = "stopped"
    BY <1>2, <2>2 DEF RInv, DeliveredBehind, AtBoundary, BodyOfFrame
  <2> QED
    BY <1>2, <2>1, <2>2
<1>5. ReaderOnWire'
  <2>1. CASE rstate' = rstate
    BY <1>1, <1>2, <1>3, <2>1 DEF RInv, ReaderOnWire
  <2>2. CASE rstate' = "stopped"
    BY <1>1, <1>2, <1>3, <2>2 DEF RInv, ReaderOnWire
  <2> QED
    BY <1>2, <2>1, <2>2
<1> QED
  BY <1>4, <1>5

(* read_command_parse_size on a frame boundary with an intact prefix      *)
(* arms the read of that frame's body, the frame after the last delivery. *)
LEMMA RInvReadSize ==
    ASSUME RInv, ReadSize
    PROVE  (ReaderOnWire /\ DeliveredBehind /\ AtBoundary /\ BodyOfFrame)'
<1>1. /\ wire \in Seq(Unit) /\ rpos \in Nat
      /\ received \in Seq(0..MaxWrites)
  BY DEF RInv, SInv, WInv, TypeOK
<1>2. /\ rstate = "size" /\ rpos < Len(wire)
      /\ rpos' = rpos + 1 /\ rstate' = "body"
      /\ UNCHANGED <<wire, aligned, received>>
  BY DEF ReadSize
<1>3. (ReaderOnWire /\ DeliveredBehind /\ AtBoundary)'
  BY <1>1, <1>2 DEF RInv, ReaderOnWire, DeliveredBehind, AtBoundary
<1>4. BodyOfFrame'
  <2>1. CASE aligned /\ wire[rpos + 1].ok
    <3>1. hdr' = [len |-> 1, frame |-> wire[rpos + 1].seq]
      BY <2>1 DEF ReadSize
    <3>2. rpos % 2 = 0 /\ Follows(rpos \div 2 + 1)
      BY <1>2, <2>1 DEF RInv, AtBoundary
    <3>3. wire[rpos + 1].seq = (rpos + 2) \div 2
      BY <1>1, <1>2, WireFrames DEF RInv
    <3>4. /\ wire[rpos + 1].seq = rpos \div 2 + 1
          /\ rpos' = 2 * wire[rpos + 1].seq - 1
          /\ wire[rpos + 1].seq # 0
      BY <1>1, <1>2, <3>2, <3>3
    <3> QED
      BY <1>2, <2>1, <3>1, <3>2, <3>4 DEF BodyOfFrame, Follows
  <2>2. CASE ~(aligned /\ wire[rpos + 1].ok)
    <3>1. hdr'.frame = 0
      BY <2>2 DEF ReadSize
    <3> QED
      BY <3>1 DEF BodyOfFrame
  <2> QED
    BY <2>1, <2>2
<1> QED
  BY <1>3, <1>4

(* What read_command_parse_command can do: hand on the frame its prefix  *)
(* announced, hand on a corrupt command, or end the loop with a throw.   *)
LEMMA ReadBodyOutcomes ==
    ASSUME NEW S, received \in Seq(S), ReadBody
    PROVE  /\ rstate = "body" /\ rpos + hdr.len <= Len(wire)
           /\ rpos' = rpos + hdr.len
           /\ received' \in {Append(received, hdr.frame),
                             Append(received, 0), received}
           /\ received' = received => rstate' = "stopped"
           /\ rstate' \in {"size", "stopped"}
           /\ hdr.frame # 0 => aligned' = aligned
           /\ hdr.frame = 0 /\ aligned' => rpos' % 2 = 0
           /\ UNCHANGED <<written, wire, hdr>>
<1> DEFINE cmd == Command(hdr, wire[rpos + 1])
<1>1. cmd \in {hdr.frame, 0}
  BY DEF Command
<1>2. \/ cmd # 0 /\ received' = Append(received, cmd) /\ rstate' = "size"
      \/ /\ cmd = 0 /\ received' = Append(received, 0)
         /\ rstate' \in {"size", "stopped"}
      \/ cmd = 0 /\ UNCHANGED received /\ rstate' = "stopped"
  BY DEF ReadBody
<1>3. received' \in {Append(received, hdr.frame), Append(received, 0), received}
  BY <1>1, <1>2
<1>4. received' = received => rstate' = "stopped"
  <2>1. \A x : Append(received, x) # received
    <3>1. \A x : Len(Append(received, x)) # Len(received)
      OBVIOUS
    <3> QED
      BY <3>1
  <2> QED
    BY <1>2, <2>1
<1>5. /\ hdr.frame # 0 => aligned' = aligned
      /\ hdr.frame = 0 /\ aligned' => rpos' % 2 = 0
  BY DEF ReadBody
<1> QED
  BY <1>2, <1>3, <1>4, <1>5 DEF ReadBody

(* read_command_parse_command: a real prefix's body is that frame's and   *)
(* leaves the reader on the next boundary; a garbage one's body leaves it *)
(* on a boundary only if it happens to end on one, after a corrupt         *)
(* command.                                                                *)
LEMMA RInvReadBody ==
    ASSUME RInv, ReadBody
    PROVE  (ReaderOnWire /\ DeliveredBehind /\ AtBoundary /\ BodyOfFrame)'
<1>1. /\ rpos \in Nat /\ received \in Seq(0..MaxWrites) /\ hdr \in Header
  BY DEF RInv, SInv, WInv, TypeOK
<1>2. hdr.len \in Nat /\ hdr.frame \in 0..MaxWrites
  BY <1>1 DEF Header, GarbageLens
<1>3. /\ rstate = "body" /\ rpos + hdr.len <= Len(wire)
      /\ rpos' = rpos + hdr.len
      /\ received' \in {Append(received, hdr.frame),
                        Append(received, 0), received}
      /\ received' = received => rstate' = "stopped"
      /\ rstate' \in {"size", "stopped"}
      /\ hdr.frame # 0 => aligned' = aligned
      /\ hdr.frame = 0 /\ aligned' => rpos' % 2 = 0
      /\ UNCHANGED <<wire, hdr>>
  BY <1>1, ReadBodyOutcomes
<1>4. (ReaderOnWire /\ BodyOfFrame)'
  BY <1>3 DEF ReaderOnWire, BodyOfFrame
<1>5. CASE hdr.frame # 0
  <2>1. aligned /\ hdr.len = 1 /\ rpos = 2 * hdr.frame - 1
    BY <1>3, <1>5 DEF RInv, BodyOfFrame
  <2>2. rpos' = 2 * hdr.frame /\ aligned' = aligned
    <3>1. rpos' = rpos + hdr.len
      BY <1>3
    <3>2. rpos' = 2 * hdr.frame
      BY <1>2, <2>1, <3>1
    <3>3. aligned' = aligned
      BY <1>3, <1>5
    <3> QED
      BY <3>2, <3>3
  <2>3. DeliveredBehind'
    <3>1. /\ rpos' \in Nat /\ 2 * hdr.frame <= rpos' /\ 2 * 0 <= rpos'
          /\ rpos <= rpos' /\ hdr.frame \in Nat /\ 0..MaxWrites \in SUBSET Nat
      BY <1>1, <1>2, <2>2, <2>1
    <3>2. \A i \in 1..Len(received) : 2 * received[i] <= rpos'
      <4>1. \A i \in 1..Len(received) : received[i] \in Nat
        BY <1>1
      <4> QED
        BY <1>1, <3>1, <4>1 DEF RInv, DeliveredBehind
    <3>3. \A i \in 1..Len(Append(received, hdr.frame)) :
             2 * Append(received, hdr.frame)[i] <= rpos'
      BY <1>1, <3>1, <3>2, BehindAppend
    <3>4. \A i \in 1..Len(Append(received, 0)) :
             2 * Append(received, 0)[i] <= rpos'
      BY <1>1, <3>1, <3>2, BehindAppend
    <3> QED
      BY <1>3, <3>2, <3>3, <3>4 DEF DeliveredBehind
  <2>4. AtBoundary'
    <3>1. SUFFICES ASSUME rstate' = "size"
                   PROVE  (rpos % 2 = 0 /\ Follows(rpos \div 2 + 1))'
      BY DEF AtBoundary
    <3>2. received' \in {Append(received, hdr.frame), Append(received, 0)}
      BY <1>3, <3>1
    <3>3. rpos' \div 2 + 1 = hdr.frame + 1 /\ rpos' % 2 = 0
      BY <1>2, <2>2
    <3> QED
      BY <1>1, <1>2, <3>2, <3>3 DEF Follows
  <2> QED
    BY <1>4, <2>3, <2>4
<1>6. CASE hdr.frame = 0
  <2>1. received' \in {Append(received, 0), received}
    BY <1>3, <1>6
  <2>2. DeliveredBehind'
    <3>1. rpos <= rpos' /\ rpos' \in Nat /\ 0..MaxWrites \in SUBSET Nat
      BY <1>1, <1>2, <1>3
    <3>3. \A i \in 1..Len(received) : 2 * received[i] <= rpos'
      <4>1. \A i \in 1..Len(received) : received[i] \in Nat
        BY <1>1
      <4> QED
        BY <1>1, <3>1, <4>1 DEF RInv, DeliveredBehind
    <3>2. \A i \in 1..Len(Append(received, 0)) :
             2 * Append(received, 0)[i] <= rpos'
      BY <1>1, <3>1, <3>3, BehindAppend
    <3> QED
      BY <2>1, <3>2, <3>3 DEF DeliveredBehind
  <2>3. AtBoundary'
    <3>1. SUFFICES ASSUME aligned', rstate' = "size"
                   PROVE  (rpos % 2 = 0 /\ Follows(rpos \div 2 + 1))'
      BY DEF AtBoundary
    <3>2. received' = Append(received, 0) /\ rpos' % 2 = 0
      BY <1>3, <1>6, <2>1, <3>1
    <3> QED
      BY <1>1, <3>2 DEF Follows
  <2> QED
    BY <1>4, <2>2, <2>3
<1> QED
  BY <1>2, <1>5, <1>6

LEMMA RInvStep == RInv /\ [Next]_vars => RInv'
<1> SUFFICES ASSUME RInv, [Next]_vars PROVE RInv'
  OBVIOUS
<1>1. SInv'
  BY SInvStep DEF RInv
<1>2. CASE Write \/ WriteSome \/ HandleWrite \/ Close \/ ParseSizeError
             \/ ParseCommandError
  BY <1>1, <1>2, RInvOther DEF RInv
<1>3. CASE ReadSize
  BY <1>1, <1>3, RInvReadSize DEF RInv
<1>4. CASE ReadBody
  BY <1>1, <1>4, RInvReadBody DEF RInv
<1>5. CASE UNCHANGED vars
  BY <1>1, <1>5 DEF vars, RInv, ReaderOnWire, DeliveredBehind, AtBoundary,
                    BodyOfFrame, Follows
<1> QED
  BY <1>2, <1>3, <1>4, <1>5 DEF Next

(* parse_command's step is FrameChannel's Deliver, or a throw that hands  *)
(* nothing on.                                                             *)
LEMMA ReadBodyDelivers ==
    ASSUME RInv, ReadBody
    PROVE  [Channel!Deliver]_Channel!cvars
<1>1. /\ received \in Seq(0..MaxWrites) /\ wire \in Seq(Unit)
      /\ written \in 0..MaxWrites /\ rpos \in Nat /\ hdr \in Header
  BY DEF RInv, SInv, WInv, TypeOK
<1>2. /\ rstate = "body" /\ rpos + hdr.len <= Len(wire)
      /\ received' \in {Append(received, hdr.frame),
                        Append(received, 0), received}
      /\ UNCHANGED written
  BY <1>1, ReadBodyOutcomes
<1>3. /\ Len(wire) <= 2 * written /\ rpos >= 1 /\ hdr.len \in Nat
  BY <1>1, <1>2, WireFrames DEF RInv, ReaderOnWire, Header, GarbageLens
<1>4. CASE received' = received
  BY <1>2, <1>4 DEF Channel!cvars
<1>5. CASE received' = Append(received, 0)
  <2>1. written > 0
    BY <1>1, <1>2, <1>3
  <2> QED
    BY <1>2, <1>5, <2>1 DEF Channel!Deliver
<1>6. CASE received' = Append(received, hdr.frame) /\ hdr.frame # 0
  <2> DEFINE j == hdr.frame
  <2>1. hdr.len = 1 /\ rpos = 2 * j - 1 /\ Follows(j)
    BY <1>2, <1>6 DEF RInv, BodyOfFrame
  <2>2. j \in 1..written
    BY <1>1, <1>2, <1>3, <1>6, <2>1 DEF Header
  <2>3. \A i \in 1..Len(received) : received[i] < j
    BY <1>1, <2>1, <2>2 DEF RInv, DeliveredBehind
  <2>4. Channel!MayDeliver(j)
    BY <2>1, <2>2, <2>3 DEF Channel!MayDeliver, Follows
  <2> QED
    BY <1>2, <1>6, <2>2, <2>4 DEF Channel!Deliver
<1> QED
  BY <1>2, <1>4, <1>5, <1>6

LEMMA RefineStep ==
    RInv /\ [Next]_vars => [Channel!Next]_Channel!cvars
<1> SUFFICES ASSUME RInv, [Next]_vars
             PROVE  [Channel!Next]_Channel!cvars
  OBVIOUS
<1>1. CASE Write
  <2>1. written' = written + 1 /\ UNCHANGED received
    BY <1>1 DEF Write
  <2> QED
    BY <2>1 DEF Channel!Next, Channel!Send, Channel!cvars
<1>2. CASE ReadBody
  BY <1>2, ReadBodyDelivers DEF Channel!Next, Channel!cvars
<1>3. CASE WriteSome \/ HandleWrite \/ Close \/ ReadSize \/ ParseSizeError
             \/ ParseCommandError
  BY <1>3 DEF WriteSome, HandleWrite, Close, ReadSize, ParseSizeError,
              ParseCommandError, Channel!cvars
<1>4. CASE UNCHANGED vars
  BY <1>4 DEF vars, Channel!cvars
<1> QED
  BY <1>1, <1>2, <1>3, <1>4 DEF Next

-----------------------------------------------------------------------------
(* The write queue is well typed for every bound on the writes: in       *)
(* particular async_write only ever sends units that are in               *)
(* write_buffer_, and the reader only parses units that are on the wire. *)
THEOREM TcpTypeCorrect == Spec => []TypeOK
<1>1. WInv => TypeOK
  BY DEF WInv
<1> QED
  BY <1>1, WInvInit, WInvStep, PTL DEF Spec

(* However writes from the upper layers interleave with partial           *)
(* transfers and socket failures, tcp_connection::write and handle_write  *)
(* keep exactly one async_write outstanding while write_buffer_ holds     *)
(* data and none otherwise: writes never overlap on the socket, and       *)
(* queued data is never stranded.                                          *)
THEOREM SingleWriterHolds == Spec => []SingleWriter
<1>1. WInv => SingleWriter
  BY DEF WInv
<1> QED
  BY <1>1, WInvInit, WInvStep, PTL DEF Spec

(* However write() appends race partial transfers, a reallocation leaves *)
(* async_write on a dangling view, or the socket fails, the peer sees     *)
(* the units of frames 1..written in the order write_command produced    *)
(* them, each once: what it has received, ok bits aside, followed by what *)
(* write_buffer_ still holds unsent.                                      *)
THEOREM StreamInOrderHolds == Spec => []StreamInOrder
<1>1. SInv => StreamInOrder
  BY DEF SInv
<1> QED
  BY <1>1, SInvInit, SInvStep, PTL DEF Spec

(* Whatever the write queue, partial transfers, reallocations and socket  *)
(* failures do, and however a corrupt length prefix throws the reader off *)
(* the frame boundaries, handle_command is given intact frames in the     *)
(* order written, none twice and none invented, and a frame is lost only  *)
(* right after a corrupt command: TcpConnection implements FrameChannel.  *)
THEOREM ImplementsFrameChannelHolds == Spec => ImplementsFrameChannel
<1>1. Init => Channel!Init
  BY DEF Init, Channel!Init
<1>2. Spec => []RInv
  BY RInvInit, RInvStep, PTL DEF Spec
<1> QED
  BY <1>1, <1>2, RefineStep, PTL
  DEF Spec, ImplementsFrameChannel, Channel!Spec

=============================================================================
